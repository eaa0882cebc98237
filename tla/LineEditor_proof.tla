-------------------------- MODULE LineEditor_proof --------------------------
(***************************************************************************)
(* Proofs about the line editor, for every line size, history size, input   *)
(* alphabet and set of completions.                                         *)
(***************************************************************************)
EXTENDS LineEditor, SequenceTheorems, WellFoundedInduction, TLAPS

(***************************************************************************)
(* Numbers and sequences.                                                  *)
(***************************************************************************)

\* A non-empty set of naturals has a least element.
LEMMA MinExists ==
  ASSUME NEW S, S \subseteq Nat, S # {}
  PROVE  Min(S) \in S /\ \A y \in S : Min(S) <= y
<1>1. PICK m \in S : \A y \in S : ~(<<y, m>> \in OpToRel(<,Nat))
  BY NatLessThanWellFounded, WFMin, Zenon
<1>2. \A y \in S : m <= y
  <2> SUFFICES ASSUME NEW y \in S, y < m PROVE FALSE
    OBVIOUS
  <2>1. <<y, m>> \in Nat \X Nat /\ <<y, m>>[1] < <<y, m>>[2]
    OBVIOUS
  <2>2. <<y, m>> \in OpToRel(<,Nat)
    BY <2>1 DEF OpToRel
  <2> QED BY <2>2, <1>1
<1> QED BY <1>2 DEF Min

\* A non-empty set of naturals with an upper bound has a greatest element.
LEMMA MaxExists ==
  ASSUME NEW n \in Nat, NEW S, S \subseteq 0..n, S # {}
  PROVE  Max(S) \in S /\ \A y \in S : Max(S) >= y
<1> DEFINE T == {n - x : x \in S}
<1>1. T # {}
  BY Zenon
<1>2. T \subseteq Nat
  <2>1. \A x \in S : n - x \in Nat OBVIOUS
  <2> QED BY <2>1
<1>3. Min(T) \in T /\ \A y \in T : Min(T) <= y
  BY <1>1, <1>2, MinExists
<1>4. PICK x \in S : Min(T) = n - x
  BY <1>3
<1>5. ASSUME NEW y \in S PROVE x >= y
  <2>1. n - y \in T OBVIOUS
  <2>2. Min(T) <= n - y BY <2>1, <1>3
  <2> QED BY <2>2, <1>4
<1> QED BY <1>5 DEF Max

\* A piece of a sequence is a sequence over the same set.
LEMMA PieceType ==
  ASSUME NEW S, NEW t \in Seq(S), NEW m \in 1..(Len(t) + 1), NEW n \in (m - 1)..Len(t)
  PROVE  SubSeq(t, m, n) \in Seq(S) /\ Len(SubSeq(t, m, n)) = n - m + 1
<1>1. \A i \in m..n : t[i] \in S
  BY ElementOfSeq, LenProperties
<1> QED BY <1>1, SubSeqProperties, LenProperties

\* Replacing the bytes from a up to b by another text.
LEMMA SpliceType ==
  ASSUME NEW S, NEW t \in Seq(S), NEW u \in Seq(S), NEW a \in 0..Len(t),
         NEW b \in a..Len(t)
  PROVE  /\ Splice(t, a, b, u) \in Seq(S)
         /\ Len(Splice(t, a, b, u)) = a + Len(u) + (Len(t) - b)
<1>0. Len(t) \in Nat /\ Len(u) \in Nat
  BY LenProperties
<1>1. SubSeq(t, 1, a) \in Seq(S) /\ Len(SubSeq(t, 1, a)) = a
  BY <1>0, PieceType
<1>2. SubSeq(t, b + 1, Len(t)) \in Seq(S) /\ Len(SubSeq(t, b + 1, Len(t))) = Len(t) - b
  BY <1>0, PieceType
<1> DEFINE head == SubSeq(t, 1, a) \o u
<1>3. head \in Seq(S) /\ Len(head) = a + Len(u)
  BY <1>1, ConcatProperties
<1> HIDE DEF head
<1>4. /\ head \o SubSeq(t, b + 1, Len(t)) \in Seq(S)
      /\ Len(head \o SubSeq(t, b + 1, Len(t))) = a + Len(u) + (Len(t) - b)
  BY <1>2, <1>3, ConcatProperties
<1> QED BY <1>4 DEF head, Splice

(***************************************************************************)
(* The text helpers stay inside the text they are given.                   *)
(***************************************************************************)

LEMMA CStrType ==
  ASSUME NEW t \in Seq(Byte)
  PROVE  CStr(t) \in Seq(Byte \ {NUL}) /\ Len(CStr(t)) <= Len(t)
<1> DEFINE S == {n \in 0..Len(t) : \A i \in 1..n : t[i] # NUL}
<1>0. Len(t) \in Nat
  BY LenProperties
<1>1. 0 \in S
  BY <1>0
<1>2. Max(S) \in S
  BY <1>0, <1>1, MaxExists
<1>3. \A i \in 1..Max(S) : t[i] \in Byte \ {NUL}
  BY <1>0, <1>2, ElementOfSeq
<1>4. Max(S) \in 0..Len(t)
  BY <1>2
<1> HIDE DEF S
<1>5. SubSeq(t, 1, Max(S)) \in Seq(Byte \ {NUL}) /\ Len(SubSeq(t, 1, Max(S))) = Max(S)
  BY <1>0, <1>3, <1>4, SubSeqProperties
<1> QED BY <1>0, <1>4, <1>5 DEF S, CStr

LEMMA PrevBoundaryRange ==
  ASSUME NEW t \in Seq(Byte), NEW pos \in 0..Len(t)
  PROVE  Utf8PrevBoundary(t, pos) \in 0..pos
<1>0. Len(t) \in Nat
  BY LenProperties
<1>1. CASE pos = 0
  BY <1>1 DEF Utf8PrevBoundary
<1>2. CASE pos > 0
  <2>1. 0 \in StartsBelow(t, pos) /\ StartsBelow(t, pos) \subseteq 0..(pos - 1)
    BY <1>0, <1>2 DEF StartsBelow
  <2>2. Max(StartsBelow(t, pos)) \in StartsBelow(t, pos)
    BY <1>0, <1>2, <2>1, MaxExists
  <2> QED BY <1>0, <1>2, <2>1, <2>2 DEF Utf8PrevBoundary
<1> QED BY <1>0, <1>1, <1>2

LEMMA NextBoundaryRange ==
  ASSUME NEW t \in Seq(Byte), NEW pos \in 0..Len(t)
  PROVE  Utf8NextBoundary(t, pos) \in pos..Len(t)
<1>0. Len(t) \in Nat
  BY LenProperties
<1>1. CASE pos < Len(t)
  <2>1. Utf8LenFromLead(t[pos + 1]) \in 1..4
    BY DEF Utf8LenFromLead
  <2>2. Utf8CharLenAt(t, pos) \in 1..4 /\ pos + Utf8CharLenAt(t, pos) <= Len(t)
    BY <1>0, <1>1, <2>1 DEF Utf8CharLenAt
  <2> QED BY <1>0, <1>1, <2>2 DEF Utf8NextBoundary
<1> QED BY <1>0, <1>1 DEF Utf8NextBoundary

LEMMA BackOverRange ==
  ASSUME NEW t \in Seq(Byte), NEW pos \in 0..Len(t), NEW class
  PROVE  BackOver(t, pos, class) \in 0..pos
<1> DEFINE S == {p \in StartsBelow(t, pos) \cup {pos} :
                   \A q \in StartsBelow(t, pos) : q >= p => t[q + 1] \in class}
<1>0. Len(t) \in Nat
  BY LenProperties
<1>1. StartsBelow(t, pos) \subseteq 0..(pos - 1)
  BY <1>0 DEF StartsBelow
<1>2. pos \in S
  BY <1>0, <1>1
<1>3. S \subseteq 0..pos
  BY <1>0, <1>1
<1>4. S \subseteq Nat /\ S # {}
  BY <1>2, <1>3
<1>5. Min(S) \in S
  <2> HIDE DEF S
  <2> QED BY <1>4, MinExists
<1> QED BY <1>3, <1>5 DEF BackOver

LEMMA PrevWordBoundaryRange ==
  ASSUME NEW t \in Seq(Byte), NEW pos \in 0..Len(t)
  PROVE  PrevWordBoundary(t, pos) \in 0..pos
<1>0. Len(t) \in Nat
  BY LenProperties
<1> DEFINE mid == BackOver(t, pos, Spaces)
<1>1. mid \in 0..pos
  BY BackOverRange
<1>2. BackOver(t, mid, Byte \ Spaces) \in 0..mid
  <2> HIDE DEF mid
  <2> QED BY <1>0, <1>1, BackOverRange
<1> QED BY <1>0, <1>1, <1>2 DEF PrevWordBoundary

LEMMA TrimmedLenRange ==
  ASSUME NEW t \in Seq(Byte)
  PROVE  TrimmedLen(t) \in 0..Len(t)
<1> DEFINE S == {0} \cup {p \in 1..Len(t) : ~IsSpace(t[p])}
<1>0. Len(t) \in Nat
  BY LenProperties
<1>1. 0 \in S /\ S \subseteq 0..Len(t)
  BY <1>0
<1>2. Max(S) \in S
  BY <1>0, <1>1, MaxExists
<1> QED BY <1>1, <1>2 DEF TrimmedLen

LEMMA TokenStartRange ==
  ASSUME NEW t \in Seq(Byte), NEW pos \in 0..Len(t)
  PROVE  TokenStart(t, pos) \in 0..pos
<1> DEFINE S == {p \in 0..pos :
                   \A i \in (p + 1)..pos : ~IsSpace(t[i]) /\ t[i] \notin TokenSeparators}
<1>0. Len(t) \in Nat
  BY LenProperties
<1>1. pos \in S /\ S \subseteq 0..pos
  BY <1>0
<1>2. S \subseteq Nat /\ S # {}
  <2> HIDE DEF S
  <2> QED BY <1>0, <1>1
<1>3. Min(S) \in S
  <2> HIDE DEF S
  <2> QED BY <1>2, MinExists
<1> QED BY <1>1, <1>3 DEF TokenStart

LEMMA CommonPrefixType ==
  ASSUME NEW matches \in SUBSET Seq(Byte), matches # {}
  PROVE  CommonPrefix(matches) \in Seq(Byte)
<1> DEFINE w == CHOOSE m \in matches : TRUE
           S == {n \in 0..Len(w) :
                   \A m \in matches : n <= Len(m) /\ \A i \in 1..n : m[i] = w[i]}
<1>0. w \in matches
  OBVIOUS
<1>1. w \in Seq(Byte) /\ Len(w) \in Nat
  BY <1>0, LenProperties
<1>2. 0 \in S
  <2>1. \A m \in matches : Len(m) \in Nat
    BY LenProperties
  <2> QED BY <1>1, <2>1
<1>3. S \subseteq 0..Len(w)
  OBVIOUS
<1>4. Max(S) \in 0..Len(w)
  <2> HIDE DEF S, w
  <2> QED BY <1>1, <1>2, <1>3, MaxExists
<1>5. SubSeq(w, 1, Max(S)) \in Seq(Byte)
  <2> HIDE DEF S, w
  <2> QED BY <1>1, <1>4, PieceType
<1> QED BY <1>5 DEF CommonPrefix

(***************************************************************************)
(* The state operators.  Good is the inductive invariant as a predicate of  *)
(* one editor state, so that it can be followed through their compositions. *)
(***************************************************************************)

Good(s) ==
    /\ s \in ShellType
    /\ Len(s.line) < LINE_MAX
    /\ s.cursor <= Len(s.line)
    /\ Len(s.nav_saved_line) < LINE_MAX
    /\ s.nav_saved_cursor <= Len(s.nav_saved_line)
    /\ Len(s.clipboard) < LINE_MAX
    /\ Len(s.history) <= HISTORY_MAX
    /\ s.history_nav \in -1..(Len(s.history) - 1)

\* An operator that edits the line but not the history or the position in it.
SameNav(r, s) == r.history_nav = s.history_nav /\ r.history = s.history

NavOK(s) == s.history_nav >= 0 => \E i \in 1..Len(s.history) : s.line = s.history[i]

LEMMA GoodParts ==
  ASSUME NEW s, Good(s)
  PROVE  /\ s.line \in Seq(Byte) /\ Len(s.line) \in Nat /\ s.cursor \in 0..Len(s.line)
         /\ s.history \in Seq(HistoryLine) /\ Len(s.history) \in Nat
         /\ s.clipboard \in Seq(Byte) /\ Len(s.clipboard) \in Nat
         /\ s.nav_saved_line \in Seq(Byte) /\ Len(s.nav_saved_line) \in Nat
         /\ LINE_MAX \in Nat /\ LINE_MAX >= 2 /\ HISTORY_MAX \in Nat
<1>1. /\ s.line \in Seq(Byte) /\ s.cursor \in Nat /\ s.history \in Seq(HistoryLine)
      /\ s.clipboard \in Seq(Byte) /\ s.nav_saved_line \in Seq(Byte)
  BY DEF Good, ShellType
<1>2. s.cursor <= Len(s.line)
  BY DEF Good
<1> QED BY <1>1, <1>2, LenProperties, HistoryAssumption

LEMMA SetLineGood ==
  ASSUME NEW s, Good(s), NEW l \in Seq(Byte), Len(l) < LINE_MAX, NEW c \in 0..Len(l)
  PROVE  /\ Good([s EXCEPT !.line = l, !.cursor = c])
         /\ SameNav([s EXCEPT !.line = l, !.cursor = c], s)
<1>1. c \in Nat /\ c <= Len(l)
  BY LenProperties
<1> QED BY <1>1 DEF Good, ShellType, SameNav

LEMMA SetCursorGood ==
  ASSUME NEW s, Good(s), NEW c \in 0..Len(s.line)
  PROVE  /\ Good([s EXCEPT !.cursor = c]) /\ SameNav([s EXCEPT !.cursor = c], s)
         /\ [s EXCEPT !.cursor = c].line = s.line
<1>1. c \in Nat /\ c <= Len(s.line)
  BY GoodParts
<1> QED BY <1>1 DEF Good, ShellType, SameNav

LEMMA SelectionClearGood ==
  ASSUME NEW s, Good(s)
  PROVE  /\ Good(SelectionClear(s)) /\ SameNav(SelectionClear(s), s)
         /\ SelectionClear(s).line = s.line /\ SelectionClear(s).cursor = s.cursor
BY DEF Good, ShellType, SameNav, SelectionClear

LEMMA CancelNavGood ==
  ASSUME NEW s, Good(s)
  PROVE  /\ Good(HistoryCancelNav(s)) /\ HistoryCancelNav(s).history_nav = -1
         /\ HistoryCancelNav(s).line = s.line /\ HistoryCancelNav(s).cursor = s.cursor
         /\ HistoryCancelNav(s).history = s.history
         /\ HistoryCancelNav(s).clipboard = s.clipboard
<1> DEFINE e == <<>>
           none == -1
           r == [s EXCEPT !.history_nav = none, !.nav_saved_line = e, !.nav_saved_cursor = 0]
<1>1. e \in Seq(Byte) /\ Len(e) = 0
  BY EmptySeq
<1>2. LINE_MAX > 0 /\ Len(s.history) \in Nat
  BY GoodParts
<1>3. HistoryCancelNav(s) = r
  BY DEF HistoryCancelNav
<1>0. none \in Int /\ none = -1
  OBVIOUS
<1> HIDE DEF e, none
<1>4. r \in ShellType
  BY <1>0, <1>1 DEF Good, ShellType
<1> QED BY <1>0, <1>1, <1>2, <1>3, <1>4 DEF Good, ShellType

LEMMA ResetLineGood ==
  ASSUME NEW s, Good(s)
  PROVE  Good(ResetLine(s)) /\ SameNav(ResetLine(s), s)
<1> DEFINE e == <<>>
           t == [s EXCEPT !.line = e, !.cursor = 0]
<1>1. e \in Seq(Byte) /\ Len(e) = 0 /\ LINE_MAX > 0
  BY EmptySeq, GoodParts
<1> HIDE DEF e
<1>1a. 0 \in 0..Len(e) /\ Len(e) < LINE_MAX
  BY <1>1
<1>2. Good(t) /\ SameNav(t, s)
  BY <1>1, <1>1a, SetLineGood
<1> HIDE DEF t
<1>3. Good(SelectionClear(t)) /\ SameNav(SelectionClear(t), s)
  BY <1>2, SelectionClearGood DEF SameNav
<1> QED BY <1>3 DEF t, e, ResetLine

\* insert_text and replace_range_raw cut the inserted text (n bytes) to the
\* room a line of m bytes leaves.
LEMMA InsertRoom ==
  ASSUME NEW n \in Nat, NEW m \in Nat, NEW len \in Nat, len < m
  PROVE  Lesser(n, (m - 1) - len) \in 0..n /\ Lesser(n, (m - 1) - len) + len < m
BY DEF Lesser

LEMMA ReplaceRoom ==
  ASSUME NEW n \in Nat, NEW m \in Nat, NEW start \in Nat, NEW tail \in Nat,
         start + tail < m,
         NEW fit, fit = IF start + n + tail >= m THEN Greater(0, m - 1 - start - tail) ELSE n
  PROVE  fit \in 0..n /\ start + fit + tail < m
BY DEF Greater

LEMMA InsertTextGood ==
  ASSUME NEW s, Good(s), NEW text \in Seq(Byte)
  PROVE  Good(InsertText(s, text)) /\ SameNav(InsertText(s, text), s)
<1> DEFINE at  == Lesser(s.cursor, Len(s.line))
           fit == Lesser(Len(text), (LINE_MAX - 1) - Len(s.line))
           l   == Splice(s.line, at, at, SubSeq(text, 1, fit))
<1>0. /\ s.line \in Seq(Byte) /\ Len(s.line) \in Nat /\ s.cursor \in 0..Len(s.line)
      /\ LINE_MAX \in Nat /\ Len(s.line) < LINE_MAX
  BY GoodParts DEF Good
<1>1. Len(text) \in Nat
  BY LenProperties
<1>2. at \in 0..Len(s.line) /\ at = s.cursor
  BY <1>0 DEF Lesser
<1>3. fit \in 0..Len(text) /\ fit + Len(s.line) < LINE_MAX
  BY <1>0, <1>1, InsertRoom
<1> HIDE DEF at, fit
<1>4. SubSeq(text, 1, fit) \in Seq(Byte) /\ Len(SubSeq(text, 1, fit)) = fit
  BY <1>1, <1>3, PieceType
<1>5. l \in Seq(Byte) /\ Len(l) = at + fit + (Len(s.line) - at)
  <2>1. at \in at..Len(s.line)
    BY <1>0, <1>2
  <2>2. /\ l \in Seq(Byte)
        /\ Len(l) = at + Len(SubSeq(text, 1, fit)) + (Len(s.line) - at)
    BY <1>0, <1>2, <1>4, <2>1, SpliceType
  <2> QED BY <1>4, <2>2
<1>6. Len(l) < LINE_MAX /\ at + fit \in 0..Len(l)
  BY <1>0, <1>1, <1>2, <1>3, <1>5
<1> HIDE DEF l
<1>7. Good([s EXCEPT !.line = l, !.cursor = at + fit])
      /\ SameNav([s EXCEPT !.line = l, !.cursor = at + fit], s)
  BY <1>5, <1>6, SetLineGood
<1> QED BY <1>7 DEF l, at, fit, InsertText

LEMMA DeleteRangeGood ==
  ASSUME NEW s, Good(s), NEW start \in Nat, NEW end \in Nat
  PROVE  Good(DeleteRange(s, start, end)) /\ SameNav(DeleteRange(s, start, end), s)
<1> DEFINE stop == Lesser(end, Len(s.line))
           e    == <<>>
           rest == Splice(s.line, start, stop, e)
           cur  == IF s.cursor > stop THEN s.cursor - (stop - start)
                   ELSE Lesser(s.cursor, start)
<1>0. /\ s.line \in Seq(Byte) /\ Len(s.line) \in Nat /\ s.cursor \in 0..Len(s.line)
      /\ LINE_MAX \in Nat /\ Len(s.line) < LINE_MAX
  BY GoodParts DEF Good
<1>1. CASE start >= end \/ start >= Len(s.line)
  BY <1>1, SelectionClearGood DEF DeleteRange
<1>2. CASE ~(start >= end \/ start >= Len(s.line))
  <2>1. start \in 0..Len(s.line) /\ stop \in start..Len(s.line) /\ start < stop
    BY <1>0, <1>2 DEF Lesser
  <2>2. cur \in Nat
    BY <1>0, <2>1 DEF Lesser
  <2> HIDE DEF stop, cur
  <2>3. e \in Seq(Byte) /\ Len(e) = 0
    BY EmptySeq
  <2> HIDE DEF e
  <2>4. rest \in Seq(Byte) /\ Len(rest) = start + (Len(s.line) - stop)
    <3>1. rest \in Seq(Byte) /\ Len(rest) = start + Len(e) + (Len(s.line) - stop)
      BY <1>0, <2>1, <2>3, SpliceType
    <3> QED BY <1>0, <2>1, <2>3, <3>1
  <2>5. Len(rest) < LINE_MAX /\ Len(rest) \in Nat
    BY <1>0, <2>1, <2>4
  <2> HIDE DEF rest
  <2>6. Lesser(cur, Len(rest)) \in 0..Len(rest)
    BY <2>2, <2>5 DEF Lesser
  <2> DEFINE t == [s EXCEPT !.line = rest, !.cursor = Lesser(cur, Len(rest))]
  <2>7. Good(t) /\ SameNav(t, s)
    BY <2>4, <2>5, <2>6, SetLineGood
  <2> HIDE DEF t
  <2>8. Good(SelectionClear(t)) /\ SameNav(SelectionClear(t), s)
    BY <2>7, SelectionClearGood DEF SameNav
  <2>9. DeleteRange(s, start, end) = SelectionClear(t)
    BY <1>2 DEF DeleteRange, t, rest, cur, stop, e
  <2> QED BY <2>8, <2>9
<1> QED BY <1>1, <1>2

LEMMA SelectionRangeType ==
  ASSUME NEW s, Good(s)
  PROVE  /\ SelectionRange(s)[1] \in 0..Len(s.line)
         /\ SelectionRange(s)[2] \in SelectionRange(s)[1]..Len(s.line)
<1>1. Len(s.line) \in Nat /\ s.sel_start \in Nat /\ s.sel_end \in Nat
  BY GoodParts DEF Good, ShellType
<1> QED BY <1>1 DEF SelectionRange, Lesser, Greater

LEMMA DeleteSelectionGood ==
  ASSUME NEW s, Good(s)
  PROVE  Good(DeleteSelection(s)) /\ SameNav(DeleteSelection(s), s)
<1>1. Len(s.line) \in Nat
  BY GoodParts
<1>2. SelectionRange(s)[1] \in Nat /\ SelectionRange(s)[2] \in Nat
  BY <1>1, SelectionRangeType
<1>3. Good(DeleteRange(s, SelectionRange(s)[1], SelectionRange(s)[2]))
      /\ SameNav(DeleteRange(s, SelectionRange(s)[1], SelectionRange(s)[2]), s)
  BY <1>2, DeleteRangeGood
<1> QED BY <1>3 DEF DeleteSelection, SameNav

LEMMA CopyRangeGood ==
  ASSUME NEW s, Good(s), NEW start \in 0..Len(s.line), NEW end \in start..Len(s.line)
  PROVE  /\ Good(CopyRange(s, start, end)) /\ SameNav(CopyRange(s, start, end), s)
         /\ CopyRange(s, start, end).line = s.line
<1> DEFINE stop == Lesser(end, start + LINE_MAX - 1)
           c == SubSeq(s.line, start + 1, stop)
<1>0. s.line \in Seq(Byte) /\ Len(s.line) \in Nat /\ LINE_MAX \in Nat /\ LINE_MAX >= 2
  BY GoodParts
<1>1. stop \in start..Len(s.line) /\ stop - start < LINE_MAX
  BY <1>0 DEF Lesser
<1> HIDE DEF stop
<1>2. c \in Seq(Byte) /\ Len(c) = stop - (start + 1) + 1
  BY <1>0, <1>1, PieceType
<1>3. Len(c) < LINE_MAX
  BY <1>0, <1>1, <1>2
<1> HIDE DEF c
<1>4. /\ Good([s EXCEPT !.clipboard = c]) /\ SameNav([s EXCEPT !.clipboard = c], s)
      /\ [s EXCEPT !.clipboard = c].line = s.line
  BY <1>2, <1>3 DEF Good, ShellType, SameNav
<1> QED BY <1>4 DEF CopyRange, c, stop

LEMMA CutRangeGood ==
  ASSUME NEW s, Good(s), NEW start \in 0..Len(s.line), NEW end \in start..Len(s.line)
  PROVE  /\ Good(CutRangeToClipboard(s, start, end))
         /\ SameNav(CutRangeToClipboard(s, start, end), s)
<1>1. Len(s.line) \in Nat
  BY GoodParts
<1> DEFINE t == CopyRange(s, start, end)
<1>2. Good(t) /\ SameNav(t, s)
  BY CopyRangeGood
<1> HIDE DEF t
<1>3. Good(DeleteRange(t, start, end)) /\ SameNav(DeleteRange(t, start, end), t)
  BY <1>1, <1>2, DeleteRangeGood
<1> QED BY <1>2, <1>3 DEF CutRangeToClipboard, t, SameNav

LEMMA ReplaceRangeGood ==
  ASSUME NEW s, Good(s), NEW start \in Nat, NEW end \in Nat, NEW text \in Seq(Byte)
  PROVE  Good(ReplaceRangeRaw(s, start, end, text))
<1> DEFINE tail == Len(s.line) - end
           fit  == IF start + Len(text) + tail >= LINE_MAX
                   THEN Greater(0, LINE_MAX - 1 - start - tail)
                   ELSE Len(text)
           l    == Splice(s.line, start, end, SubSeq(text, 1, fit))
<1>0. /\ s.line \in Seq(Byte) /\ Len(s.line) \in Nat /\ LINE_MAX \in Nat
      /\ Len(s.line) < LINE_MAX
  BY GoodParts DEF Good
<1>1. Len(text) \in Nat
  BY LenProperties
<1>2. CASE start > end \/ end > Len(s.line)
  BY <1>2 DEF ReplaceRangeRaw
<1>3. CASE ~(start > end \/ end > Len(s.line))
  <2>1. start \in 0..Len(s.line) /\ end \in start..Len(s.line) /\ tail \in Nat
    BY <1>0, <1>3
  <2>2. start + tail < LINE_MAX
    BY <1>0, <2>1
  <2> HIDE DEF tail
  <2>2a. fit \in 0..Len(text) /\ start + fit + tail < LINE_MAX
    BY <1>0, <1>1, <2>1, <2>2, ReplaceRoom
  <2> USE DEF tail
  <2> HIDE DEF fit
  <2>3. SubSeq(text, 1, fit) \in Seq(Byte) /\ Len(SubSeq(text, 1, fit)) = fit
    BY <1>1, <2>2a, PieceType
  <2>4. l \in Seq(Byte) /\ Len(l) = start + fit + (Len(s.line) - end)
    BY <1>0, <2>1, <2>3, SpliceType
  <2>4a. Len(l) = (start + fit) + tail
    BY <2>4, <2>1, <2>2a, <1>0
  <2> HIDE DEF l, tail
  <2>5. Len(l) < LINE_MAX /\ start + fit \in 0..Len(l)
    <3>1. fit \in Nat /\ tail \in Nat
      BY <1>1, <2>1, <2>2a
    <3> QED BY <1>0, <2>2a, <2>4a, <3>1
  <2> DEFINE t == [s EXCEPT !.line = l, !.cursor = start + fit]
  <2>6. Good(t)
    BY <2>4, <2>5, SetLineGood
  <2> HIDE DEF t
  <2>7. Good(SelectionClear(t))
    BY <2>6, SelectionClearGood
  <2>8. ReplaceRangeRaw(s, start, end, text) = SelectionClear(t)
    BY <1>3 DEF ReplaceRangeRaw, t, l, fit, tail
  <2> QED BY <2>7, <2>8
<1> QED BY <1>2, <1>3

LEMMA ClipAndWordsType ==
  ASSUME NEW s, Good(s), NEW matches \in MatchLists(s)
  PROVE  /\ Token(s) \in Seq(Byte)
         /\ matches # {} /\ matches \subseteq Seq(Byte) /\ \A m \in matches : m # <<>>
<1>1. /\ s.line \in Seq(Byte) /\ Len(s.line) \in Nat /\ s.cursor \in 0..Len(s.line)
  BY GoodParts
<1>2. TokenStart(s.line, s.cursor) \in 0..s.cursor
  BY <1>1, TokenStartRange
<1>3. SubSeq(s.line, TokenStart(s.line, s.cursor) + 1, s.cursor) \in Seq(Byte)
  BY <1>1, <1>2, PieceType
<1>4. Token(s) \in Seq(Byte \ {NUL})
  BY <1>3, CStrType DEF Token
<1>5. \A t \in Seq(Byte \ {NUL}) : t \in Seq(Byte)
  BY SeqMonotonic
<1>6. matches # {} /\ matches \subseteq Words /\ \A m \in matches : m # <<>>
  BY DEF MatchLists
<1> QED BY <1>4, <1>5, <1>6, EditorAssumption

LEMMA CompleteSingleGood ==
  ASSUME NEW s, Good(s), NEW m \in Seq(Byte)
  PROVE  Good(CompleteSingle(s, m))
<1> DEFINE t == ReplaceRangeRaw(s, TokenStart(s.line, s.cursor), s.cursor, m)
<1>1. s.cursor \in Nat /\ TokenStart(s.line, s.cursor) \in Nat
  <2>1. s.line \in Seq(Byte) /\ Len(s.line) \in Nat /\ s.cursor \in 0..Len(s.line)
    BY GoodParts
  <2> QED BY <2>1, TokenStartRange
<1>2. Good(t)
  BY <1>1, ReplaceRangeGood
<1> HIDE DEF t
<1>3. t.cursor \in Nat /\ <<SPACE>> \in Seq(Byte)
  BY <1>2, GoodParts DEF SPACE, Byte
<1>4. Good(ReplaceRangeRaw(t, t.cursor, t.cursor, <<SPACE>>))
  BY <1>2, <1>3, ReplaceRangeGood
<1> QED BY <1>2, <1>4 DEF CompleteSingle, t

LEMMA CompleteGood ==
  ASSUME NEW s, Good(s), NEW matches \in MatchLists(s)
  PROVE  /\ Good(LinenoiseComplete(s, matches))
         /\ LinenoiseComplete(s, matches).history_nav = -1
<1>1. s.cursor \in Nat /\ TokenStart(s.line, s.cursor) \in Nat
  <2>1. s.line \in Seq(Byte) /\ Len(s.line) \in Nat /\ s.cursor \in 0..Len(s.line)
    BY GoodParts
  <2> QED BY <2>1, TokenStartRange
<1>2. matches # {} /\ matches \subseteq Seq(Byte)
  BY ClipAndWordsType
<1>3. CommonPrefix(matches) \in Seq(Byte)
  BY <1>2, CommonPrefixType
<1>4. Good(ReplaceRangeRaw(s, TokenStart(s.line, s.cursor), s.cursor, CommonPrefix(matches)))
  BY <1>1, <1>3, ReplaceRangeGood
<1>5. Good(CompleteSingle(s, CHOOSE m \in matches : TRUE))
  <2> DEFINE m == CHOOSE m \in matches : TRUE
  <2>1. m \in Seq(Byte)
    BY <1>2
  <2> HIDE DEF m
  <2>2. Good(CompleteSingle(s, m))
    BY <2>1, CompleteSingleGood
  <2> QED BY <2>2 DEF m
<1> DEFINE r == IF \A v, w \in matches : v = w
                THEN CompleteSingle(s, CHOOSE m \in matches : TRUE)
                ELSE IF Len(CommonPrefix(matches)) > Len(Token(s))
                     THEN ReplaceRangeRaw(s, TokenStart(s.line, s.cursor), s.cursor,
                                          CommonPrefix(matches))
                     ELSE s
<1>6. Good(r)
  BY <1>4, <1>5
<1>7. LinenoiseComplete(s, matches) = HistoryCancelNav(r)
  BY DEF LinenoiseComplete
<1> HIDE DEF r
<1> QED BY <1>6, <1>7, CancelNavGood

\* Moving through the history loads an entry or the saved draft.
LEMMA LoadLineGood ==
  ASSUME NEW s, Good(s), NEW i \in 1..Len(s.history)
  PROVE  /\ Good(LoadLine(s, s.history[i])) /\ SameNav(LoadLine(s, s.history[i]), s)
         /\ LoadLine(s, s.history[i]).line = s.history[i]
<1> DEFINE h == s.history[i]
<1>0. s.history \in Seq(HistoryLine) /\ LINE_MAX \in Nat
  BY GoodParts
<1>1. h \in HistoryLine
  BY <1>0, ElementOfSeq
<1> HIDE DEF h
<1>2. h \in Seq(Byte \ {NUL}) /\ Len(h) < LINE_MAX /\ Len(h) \in Nat
  BY <1>1, LenProperties DEF HistoryLine
<1>3. h \in Seq(Byte)
  BY <1>2, SeqMonotonic
<1>4. CStr(h) = h
  <2> DEFINE S == {n \in 0..Len(h) : \A j \in 1..n : h[j] # NUL}
  <2>1. \A j \in 1..Len(h) : h[j] # NUL
    <3> SUFFICES ASSUME NEW j \in 1..Len(h) PROVE h[j] # NUL
      OBVIOUS
    <3>1. h[j] \in Byte \ {NUL}
      BY <1>2, ElementOfSeq
    <3> QED BY <3>1
  <2>2. Len(h) \in S /\ S \subseteq 0..Len(h)
    BY <1>2, <2>1
  <2>3. Max(S) \in S /\ Max(S) >= Len(h)
    <3> HIDE DEF S
    <3> QED BY <1>2, <2>2, MaxExists
  <2>4. Max(S) = Len(h)
    <3> HIDE DEF S
    <3>1. Max(S) \in 0..Len(h)
      BY <2>2, <2>3
    <3> QED BY <1>2, <2>3, <3>1
  <2>5. SubSeq(h, 1, Len(h)) = h
    BY <1>3, SubSeqFull
  <2> QED BY <2>4, <2>5 DEF CStr
<1>5. Len(h) \in 0..Len(h)
  BY <1>2
<1>6. /\ Good([s EXCEPT !.line = h, !.cursor = Len(h)])
      /\ SameNav([s EXCEPT !.line = h, !.cursor = Len(h)], s)
  BY <1>2, <1>3, <1>5, SetLineGood
<1>7. LoadLine(s, h) = [s EXCEPT !.line = h, !.cursor = Len(h)]
  BY <1>4 DEF LoadLine
<1>8. [s EXCEPT !.line = h, !.cursor = Len(h)].line = h
  BY DEF Good, ShellType
<1> QED BY <1>6, <1>7, <1>8 DEF h

LEMMA ApplyCurrentGood ==
  ASSUME NEW s, Good(s)
  PROVE  Good(HistoryApplyCurrent(s)) /\ NavOK(HistoryApplyCurrent(s))
<1>0. /\ s.history_nav \in -1..(Len(s.history) - 1) /\ Len(s.history) \in Nat
      /\ s.nav_saved_line \in Seq(Byte) /\ Len(s.nav_saved_line) \in Nat
      /\ Len(s.nav_saved_line) < LINE_MAX /\ s.nav_saved_cursor \in Nat
  BY GoodParts DEF Good, ShellType
<1>1. CASE s.history_nav >= 0
  <2>1. s.history_nav + 1 \in 1..Len(s.history)
    BY <1>0, <1>1
  <2>2. HistoryApplyCurrent(s) = LoadLine(s, s.history[s.history_nav + 1])
    BY <1>1 DEF HistoryApplyCurrent
  <2> QED BY <2>1, <2>2, LoadLineGood DEF NavOK, SameNav
<1>2. CASE ~(s.history_nav >= 0)
  <2> DEFINE c == Lesser(s.nav_saved_cursor, Len(s.nav_saved_line))
             r == [s EXCEPT !.line = s.nav_saved_line, !.cursor = c]
  <2>1. c \in 0..Len(s.nav_saved_line)
    BY <1>0 DEF Lesser
  <2> HIDE DEF c
  <2>2. Good(r) /\ SameNav(r, s)
    BY <1>0, <2>1, SetLineGood
  <2>3. HistoryApplyCurrent(s) = r
    BY <1>2 DEF HistoryApplyCurrent, c
  <2> HIDE DEF r
  <2> QED BY <1>2, <2>2, <2>3 DEF NavOK, SameNav
<1> QED BY <1>1, <1>2

LEMMA HistoryUpGood ==
  ASSUME NEW s, Good(s), s.history # <<>>
  PROVE  Good(HistoryUp(s)) /\ NavOK(HistoryUp(s))
<1>0. /\ Len(s.history) \in Nat \ {0} /\ s.history_nav \in -1..(Len(s.history) - 1)
  BY GoodParts, EmptySeq DEF Good
<1> DEFINE a == [s EXCEPT !.nav_saved_line = s.line, !.nav_saved_cursor = s.cursor,
                          !.history_nav = Len(s.history) - 1]
           b == [s EXCEPT !.history_nav = Greater(0, @ - 1)]
<1>1. Good(a)
  <2>1. Len(s.history) - 1 \in Int /\ Len(s.history) - 1 \in -1..(Len(s.history) - 1)
    BY <1>0
  <2> DEFINE n == Len(s.history) - 1
  <2> HIDE DEF n
  <2>2. Good([s EXCEPT !.nav_saved_line = s.line, !.nav_saved_cursor = s.cursor,
                       !.history_nav = n])
    BY <2>1 DEF Good, ShellType, n
  <2> QED BY <2>2 DEF n
<1>2. CASE s.history_nav < 0
  <2>1. HistoryUp(s) = HistoryApplyCurrent(a)
    BY <1>2 DEF HistoryUp
  <2> HIDE DEF a
  <2> QED BY <1>1, <2>1, ApplyCurrentGood
<1>3. CASE ~(s.history_nav < 0)
  <2> DEFINE n == Greater(0, s.history_nav - 1)
  <2>1. n \in Int /\ n \in -1..(Len(s.history) - 1)
    BY <1>0, <1>3 DEF Greater
  <2> HIDE DEF n
  <2>2. Good([s EXCEPT !.history_nav = n])
    BY <2>1 DEF Good, ShellType
  <2>3. HistoryUp(s) = HistoryApplyCurrent([s EXCEPT !.history_nav = n])
    BY <1>3 DEF HistoryUp, n
  <2> QED BY <2>2, <2>3, ApplyCurrentGood
<1> QED BY <1>2, <1>3

LEMMA HistoryDownGood ==
  ASSUME NEW s, Good(s)
  PROVE  Good(HistoryDown(s)) /\ NavOK(HistoryDown(s))
<1>0. Len(s.history) \in Nat /\ s.history_nav \in -1..(Len(s.history) - 1)
  BY GoodParts DEF Good
<1> DEFINE n == IF s.history_nav + 1 < Len(s.history) THEN s.history_nav + 1 ELSE -1
<1>1. n \in Int /\ n \in -1..(Len(s.history) - 1)
  BY <1>0
<1> HIDE DEF n
<1>2. Good([s EXCEPT !.history_nav = n])
  BY <1>1 DEF Good, ShellType
<1>3. HistoryDown(s) = HistoryApplyCurrent([s EXCEPT !.history_nav = n])
  BY DEF HistoryDown, n
<1> QED BY <1>2, <1>3, ApplyCurrentGood

\* A line pushed on the history keeps it within HISTORY_MAX entries.
LEMMA HistoryPushGood ==
  ASSUME NEW s, Good(s)
  PROVE  Good(HistoryPush(s)) /\ HistoryPush(s).history_nav = -1
<1> DEFINE c == CStr(s.line)
           h == HistoryPushMemory(s.history, c)
<1>0. /\ s.line \in Seq(Byte) /\ Len(s.line) \in Nat /\ LINE_MAX \in Nat
      /\ Len(s.line) < LINE_MAX /\ s.history \in Seq(HistoryLine)
      /\ Len(s.history) \in Nat /\ Len(s.history) <= HISTORY_MAX
      /\ HISTORY_MAX \in Nat \ {0}
  BY GoodParts, HistoryAssumption DEF Good
<1>1. c \in HistoryLine
  <2>1. c \in Seq(Byte \ {NUL}) /\ Len(c) <= Len(s.line)
    BY <1>0, CStrType
  <2>2. Len(c) \in Nat
    BY <2>1, LenProperties
  <2> QED BY <1>0, <2>1, <2>2 DEF HistoryLine
<1> HIDE DEF c
<1>2. h \in Seq(HistoryLine) /\ Len(h) <= HISTORY_MAX /\ Len(h) \in Nat
  <2>1. CASE h = s.history
    BY <1>0, <2>1
  <2>2. CASE Len(s.history) < HISTORY_MAX /\ h = Append(s.history, c)
    <3>1. h \in Seq(HistoryLine) /\ Len(h) = Len(s.history) + 1
      BY <1>0, <1>1, <2>2, AppendProperties
    <3> QED BY <1>0, <2>2, <3>1
  <2>3. CASE Len(s.history) >= HISTORY_MAX
             /\ h = Append(SubSeq(s.history, 2, Len(s.history)), c)
    <3>0. 2 \in 1..(Len(s.history) + 1) /\ Len(s.history) \in 1..Len(s.history)
      BY <1>0, <2>3
    <3>1. /\ SubSeq(s.history, 2, Len(s.history)) \in Seq(HistoryLine)
          /\ Len(SubSeq(s.history, 2, Len(s.history))) = Len(s.history) - 1
      <4>1. Len(SubSeq(s.history, 2, Len(s.history))) = Len(s.history) - 2 + 1
            /\ SubSeq(s.history, 2, Len(s.history)) \in Seq(HistoryLine)
        BY <1>0, <3>0, PieceType
      <4> QED BY <4>1, <1>0
    <3>2. h \in Seq(HistoryLine) /\ Len(h) = (Len(s.history) - 1) + 1
      BY <1>1, <2>3, <3>1, AppendProperties
    <3> QED BY <1>0, <3>2
  <2> QED BY <1>0, <2>1, <2>2, <2>3 DEF HistoryPushMemory
<1> HIDE DEF h
<1> DEFINE r == [HistoryCancelNav(s) EXCEPT !.history = h]
<1>3. HistoryPush(s) = HistoryCancelNav([s EXCEPT !.history = h])
  BY DEF HistoryPush, h, c
<1> DEFINE t == [s EXCEPT !.history = h]
           e == <<>>
           none == -1
           u == [t EXCEPT !.history_nav = none, !.nav_saved_line = e, !.nav_saved_cursor = 0]
<1>4. e \in Seq(Byte) /\ Len(e) = 0 /\ none = -1 /\ none \in Int
  BY EmptySeq
<1>5. HistoryCancelNav(t) = u
  BY DEF HistoryCancelNav
<1> HIDE DEF e, none
<1>6. u \in ShellType /\ u.history = h /\ u.history_nav = none
  BY <1>2, <1>4 DEF Good, ShellType
<1>7. Good(u)
  <2>1. /\ u.line = s.line /\ u.cursor = s.cursor /\ u.clipboard = s.clipboard
        /\ u.nav_saved_line = e /\ u.nav_saved_cursor = 0
    BY DEF Good, ShellType
  <2>2. none \in -1..(Len(h) - 1) /\ 0 <= Len(e) /\ Len(e) < LINE_MAX
    BY <1>0, <1>2, <1>4
  <2>3. s.cursor <= Len(s.line) /\ Len(s.clipboard) < LINE_MAX
    BY DEF Good
  <2> HIDE DEF u
  <2> QED BY <1>0, <1>2, <1>6, <2>1, <2>2, <2>3 DEF Good
<1> QED BY <1>3, <1>4, <1>5, <1>6, <1>7

(***************************************************************************)
(* The invariant and its proof.                                            *)
(***************************************************************************)

\* The inductive invariant: types, bounds and the meaning of history_nav are
\* proved together, since each edit needs the cursor inside the line and each
\* step through the history needs entries that fit the line.
EditorInv == TypeOK /\ InBounds /\ NavShowsHistory

LEMMA InvIsGood ==
  EditorInv <=> /\ Good(sh) /\ NavOK(sh)
                /\ mode \in {"edit", "search", "run", "done"}
                /\ query \in Seq(Byte) /\ Len(query) < LINE_MAX
                /\ out \in Seq(Byte)
BY DEF EditorInv, TypeOK, InBounds, NavShowsHistory, Good, NavOK

\* A key that leaves the editor in state s keeps the invariant if s is good.
LEMMA EditStep ==
  ASSUME EditorInv, NEW s, Good(s), NavOK(s), sh' = s, UNCHANGED <<mode, query, out>>
  PROVE  EditorInv'
<1>1. /\ mode \in {"edit", "search", "run", "done"}
      /\ query \in Seq(Byte) /\ Len(query) < LINE_MAX /\ out \in Seq(Byte)
  BY InvIsGood
<1>2. Good(sh') /\ NavOK(sh')
  OBVIOUS
<1> QED BY <1>1, <1>2 DEF EditorInv, TypeOK, InBounds, NavShowsHistory, Good, NavOK

\* With navigation cancelled there is nothing to show.
LEMMA NoNav ==
  ASSUME NEW s, s.history_nav = -1
  PROVE  NavOK(s)
BY DEF NavOK

THEOREM EditorInitInv == Init => EditorInv
<1> SUFFICES ASSUME Init PROVE EditorInv
  OBVIOUS
<1> DEFINE e == <<>>
<1>0. e \in Seq(Byte) /\ Len(e) = 0 /\ LINE_MAX > 0
  BY EmptySeq, HistoryAssumption
<1>1. PICK h \in InitHistories : sh = InitShell(h)
  BY DEF Init
<1>2. h \in Seq(HistoryLine) /\ Len(h) <= HISTORY_MAX /\ Len(h) \in Nat
  BY EditorAssumption, LenProperties DEF History
<1>3. query = e /\ out = e /\ mode = "edit"
  BY DEF Init
<1>4. /\ InitShell(h).line = e /\ InitShell(h).nav_saved_line = e
      /\ InitShell(h).clipboard = e /\ InitShell(h).cursor = 0
      /\ InitShell(h).nav_saved_cursor = 0 /\ InitShell(h).history = h
      /\ InitShell(h).history_nav = -1
  BY DEF InitShell
<1>5. InitShell(h) \in ShellType
  <2> DEFINE none == -1
  <2>1. none \in Int
    OBVIOUS
  <2>2. InitShell(h) = [line |-> e, cursor |-> 0, history |-> h, history_nav |-> none,
           nav_saved_line |-> e, nav_saved_cursor |-> 0, clipboard |-> e,
           sel_start |-> 0, sel_end |-> 0, sel_active |-> FALSE,
           sel_anchor |-> 0, sel_anchor_valid |-> FALSE]
    BY DEF InitShell
  <2> HIDE DEF e, none
  <2> QED BY <1>0, <1>2, <2>1, <2>2 DEF ShellType
<1> HIDE DEF e
<1>6. Good(InitShell(h)) /\ NavOK(InitShell(h))
  <2>1. -1 \in -1..(Len(h) - 1)
    BY <1>2
  <2> QED BY <1>0, <1>2, <1>4, <1>5, <2>1 DEF Good, NavOK
<1>7. query \in Seq(Byte) /\ Len(query) < LINE_MAX /\ out \in Seq(Byte)
  BY <1>0, <1>3
<1> QED BY <1>1, <1>3, <1>6, <1>7, InvIsGood

LEMMA SearchStateStep ==
  ASSUME EditorInv, NEW s, Good(s), NavOK(s), sh' = s, UNCHANGED out,
         mode' \in {"edit", "search", "run", "done"},
         query' \in Seq(Byte), Len(query') < LINE_MAX
  PROVE  EditorInv'
<1>1. out \in Seq(Byte)
  BY InvIsGood
<1>2. Good(sh') /\ NavOK(sh')
  OBVIOUS
<1> QED BY <1>1, <1>2 DEF EditorInv, TypeOK, InBounds, NavShowsHistory, Good, NavOK

THEOREM EditorStepInv == EditorInv /\ [Next]_vars => EditorInv'
<1> SUFFICES ASSUME EditorInv, [Next]_vars PROVE EditorInv'
  OBVIOUS
<1> USE DEF Drawn, Undrawn
<1>0. /\ Good(sh) /\ NavOK(sh) /\ mode \in {"edit", "search", "run", "done"}
      /\ query \in Seq(Byte) /\ Len(query) < LINE_MAX /\ out \in Seq(Byte)
  BY InvIsGood
<1> DEFINE len == Len(sh.line)
           c == HistoryCancelNav(sh)
           d == DeleteSelection(c)
           k == SelectionClear(sh)
<1>A. /\ sh.line \in Seq(Byte) /\ len \in Nat /\ sh.cursor \in 0..len
      /\ LINE_MAX \in Nat /\ LINE_MAX >= 2
      /\ sh.clipboard \in Seq(Byte)
  BY <1>0, GoodParts
<1>B. /\ Good(c) /\ c.history_nav = -1 /\ c.line = sh.line /\ c.cursor = sh.cursor
  BY <1>0, CancelNavGood
<1>C. Good(d) /\ d.history_nav = -1
  BY <1>B, DeleteSelectionGood DEF SameNav
<1>D. /\ Good(k) /\ SameNav(k, sh) /\ k.line = sh.line /\ k.cursor = sh.cursor /\ NavOK(k)
  BY <1>0, SelectionClearGood DEF SameNav, NavOK
<1>E. /\ Utf8PrevBoundary(sh.line, sh.cursor) \in 0..sh.cursor
      /\ Utf8NextBoundary(sh.line, sh.cursor) \in sh.cursor..len
      /\ PrevWordBoundary(sh.line, sh.cursor) \in 0..sh.cursor
  BY <1>A, PrevBoundaryRange, NextBoundaryRange, PrevWordBoundaryRange
<1>F. <<SPACE>> \in Seq(Byte)
  BY DEF SPACE, Byte
<1> HIDE DEF c, d, k, len
<1>1. CASE EnterContinues
  <2> DEFINE a == SelectionClear(c)
             n == TrimmedLen(a.line)
             b == DeleteRange(a, n - 1, n)
             r == [b EXCEPT !.cursor = Len(b.line)]
  <2>1. Good(a) /\ a.history_nav = -1 /\ a.line = sh.line
    BY <1>B, SelectionClearGood DEF SameNav
  <2>2. n \in Nat /\ n > 0
    BY <1>1, <1>A, <2>1, TrimmedLenRange DEF EnterContinues, LineNeedsContinuation, len
  <2> HIDE DEF a, n
  <2>3. Good(b) /\ b.history_nav = -1
    BY <2>1, <2>2, DeleteRangeGood DEF SameNav
  <2> HIDE DEF b
  <2>4. Good(r) /\ r.history_nav = -1
    <3>1. Len(b.line) \in 0..Len(b.line)
      BY <2>3, GoodParts
    <3> QED BY <2>3, <3>1, SetCursorGood DEF SameNav
  <2>5. RemoveContinuationMarker(SelectionClear(HistoryCancelNav(sh))) = r
    BY DEF RemoveContinuationMarker, b, n, a, c
  <2> HIDE DEF r
  <2>6. Good(InsertText(r, <<SPACE>>)) /\ InsertText(r, <<SPACE>>).history_nav = -1
    BY <1>F, <2>4, InsertTextGood DEF SameNav
  <2>7. /\ sh' = IF Len(r.line) + 1 < LINE_MAX THEN InsertText(r, <<SPACE>>) ELSE r
        /\ UNCHANGED <<mode, query, out>>
    BY <1>1, <2>5 DEF EnterContinues
  <2> QED BY <2>4, <2>6, <2>7, EditStep, NoNav
<1>2. CASE EnterReturns
  <2> DEFINE p == HistoryPush(sh)
  <2>1. Good(p) /\ p.history_nav = -1
    BY <1>0, HistoryPushGood
  <2> HIDE DEF p
  <2>2. Good(ResetLine(p)) /\ ResetLine(p).history_nav = -1
    BY <2>1, ResetLineGood DEF SameNav
  <2>3. sh' = ResetLine(p) /\ out' = CStr(sh.line) /\ mode' = "run" /\ query' = query
    BY <1>2 DEF EnterReturns, p
  <2>4. CStr(sh.line) \in Seq(Byte)
    BY <1>A, CStrType, SeqMonotonic
  <2>5. Good(sh') /\ NavOK(sh')
    BY <2>2, <2>3, NoNav
  <2> QED BY <1>0, <2>3, <2>4, <2>5
       DEF EditorInv, TypeOK, InBounds, NavShowsHistory, Good, NavOK
<1>3. CASE ReadInteractiveLine
  <2> DEFINE p == ResetLine(sh)
             r == HistoryCancelNav(p)
  <2>1. Good(p)
    BY <1>0, ResetLineGood
  <2> HIDE DEF p
  <2>2. Good(r) /\ r.history_nav = -1
    BY <2>1, CancelNavGood
  <2>3. sh' = r /\ out' = <<>> /\ mode' = "edit" /\ query' = query
    BY <1>3 DEF ReadInteractiveLine, p
  <2> HIDE DEF r
  <2>4. Good(sh') /\ NavOK(sh') /\ out' \in Seq(Byte)
    BY <2>2, <2>3, NoNav, EmptySeq
  <2> QED BY <1>0, <2>3, <2>4
       DEF EditorInv, TypeOK, InBounds, NavShowsHistory, Good, NavOK
<1>4. CASE ExitRequested
  BY <1>0, <1>4, SearchStateStep DEF ExitRequested
<1>5. CASE SelectAll
  <2> DEFINE a == SelectionSelectAll(sh)
             r == [a EXCEPT !.cursor = Len(sh.line)]
  <2>1. Good(a) /\ SameNav(a, sh) /\ a.line = sh.line
    <3>1. CASE sh.line = <<>>
      BY <1>D, <3>1 DEF SelectionSelectAll, k
    <3>2. CASE sh.line # <<>>
      BY <1>0, <1>A, <3>2 DEF SelectionSelectAll, Good, ShellType, SameNav, len
    <3> QED BY <3>1, <3>2
  <2> HIDE DEF a
  <2>2. Good(r) /\ NavOK(r)
    <3>1. Len(sh.line) \in 0..Len(a.line)
      BY <1>A, <2>1 DEF len
    <3>2. Good(r) /\ SameNav(r, a) /\ r.line = a.line
      BY <2>1, <3>1, SetCursorGood
    <3> QED BY <1>0, <2>1, <3>2 DEF SameNav, NavOK
  <2>3. sh' = r /\ UNCHANGED <<mode, query, out>>
    BY <1>5 DEF SelectAll, a
  <2> HIDE DEF r
  <2> QED BY <2>2, <2>3, EditStep
<1>6. CASE Copy
  <2> DEFINE r == CopySelection(sh)
             x == SelectionRange(sh)[1]
             y == SelectionRange(sh)[2]
  <2>1. x \in 0..Len(sh.line) /\ y \in x..Len(sh.line)
    BY <1>0, SelectionRangeType
  <2>2. r = CopyRange(sh, x, y) \/ r = sh
    BY DEF CopySelection
  <2> HIDE DEF r, x, y
  <2>3. /\ Good(CopyRange(sh, x, y)) /\ SameNav(CopyRange(sh, x, y), sh)
        /\ CopyRange(sh, x, y).line = sh.line
    BY <1>0, <2>1, CopyRangeGood
  <2>4. Good(r) /\ NavOK(r)
    BY <1>0, <2>2, <2>3 DEF SameNav, NavOK
  <2>5. sh' = r /\ UNCHANGED <<mode, query, out>>
    BY <1>6 DEF Copy, r
  <2> QED BY <2>4, <2>5, EditStep
<1>7. CASE Paste
  <2> DEFINE r == InsertText(d, sh.clipboard)
  <2>1. Good(r) /\ r.history_nav = -1
    BY <1>A, <1>C, InsertTextGood DEF SameNav
  <2>2. sh' = r /\ UNCHANGED <<mode, query, out>>
    BY <1>7 DEF Paste, d, c
  <2> HIDE DEF r
  <2> QED BY <2>1, <2>2, EditStep, NoNav
<1>8. ASSUME NEW key, NEW target \in 0..len, ShiftMove(key, target)
      PROVE  EditorInv'
  <2> DEFINE a == IF sh.sel_anchor_valid THEN sh
                  ELSE [sh EXCEPT !.sel_anchor = sh.cursor, !.sel_anchor_valid = TRUE]
             b == [a EXCEPT !.cursor = target]
             r == SelectionUpdateFromAnchor(b)
  <2>1. Good(a) /\ SameNav(a, sh) /\ a.line = sh.line
    BY <1>0, <1>A DEF Good, ShellType, SameNav
  <2> HIDE DEF a
  <2>2. Good(b) /\ SameNav(b, sh) /\ b.line = sh.line
    <3>1. target \in 0..Len(a.line)
      BY <2>1 DEF len
    <3>2. Good(b) /\ SameNav(b, a) /\ b.line = a.line
      BY <2>1, <3>1, SetCursorGood
    <3> QED BY <2>1, <3>2 DEF SameNav
  <2> HIDE DEF b
  <2>3. Good(r) /\ SameNav(r, sh) /\ r.line = sh.line
    <3> DEFINE anchor == Lesser(b.sel_anchor, Len(b.line))
               lo == Lesser(b.cursor, anchor)
               hi == Greater(b.cursor, anchor)
               act == (b.cursor # anchor)
    <3>1. lo \in Nat /\ hi \in Nat /\ act \in BOOLEAN
      BY <2>2, GoodParts DEF Good, ShellType, Lesser, Greater
    <3>2. r = [b EXCEPT !.sel_active = act, !.sel_start = lo, !.sel_end = hi]
      BY DEF SelectionUpdateFromAnchor
    <3> HIDE DEF lo, hi, act, r
    <3> QED BY <2>2, <3>1, <3>2 DEF Good, ShellType, SameNav
  <2>4. NavOK(r)
    BY <1>0, <2>3 DEF NavOK, SameNav
  <2>5. sh' = r /\ UNCHANGED <<mode, query, out>>
    BY <1>8 DEF ShiftMove, b, a
  <2> HIDE DEF r
  <2> QED BY <2>3, <2>4, <2>5, EditStep
<1>9. ASSUME NEW key, NEW target \in 0..len, Move(key, target)
      PROVE  EditorInv'
  <2> DEFINE r == [k EXCEPT !.cursor = target]
  <2>1. Good(r) /\ NavOK(r)
    <3>1. target \in 0..Len(k.line)
      BY <1>D DEF len
    <3>2. Good(r) /\ SameNav(r, k) /\ r.line = k.line
      BY <1>D, <3>1, SetCursorGood
    <3> QED BY <1>D, <3>2 DEF SameNav, NavOK
  <2>2. sh' = r /\ UNCHANGED <<mode, query, out>>
    BY <1>9 DEF Move, k
  <2> HIDE DEF r
  <2> QED BY <2>1, <2>2, EditStep
<1>10. ASSUME NEW key, NEW start \in 0..len, NEW end \in start..len, Kill(key, start, end)
       PROVE  EditorInv'
  <2> DEFINE r == CutRangeToClipboard(c, start, end)
  <2>1. Good(r) /\ r.history_nav = -1
    BY <1>B, CutRangeGood DEF SameNav, len
  <2>2. sh' = r /\ UNCHANGED <<mode, query, out>>
    BY <1>10 DEF Kill, c
  <2> HIDE DEF r
  <2> QED BY <2>1, <2>2, EditStep, NoNav
<1>11. CASE ClearScreen
  BY <1>0, <1>11, EditStep DEF ClearScreen
<1>12. CASE EofOnEmptyLine
  <2> DEFINE r == ResetLine(sh)
  <2>1. Good(r) /\ NavOK(r)
    <3>1. Good(r) /\ SameNav(r, sh)
      BY <1>0, ResetLineGood
    <3>2. r.line = sh.line
      BY <1>0, <1>12 DEF EofOnEmptyLine, ResetLine, SelectionClear, Good, ShellType
    <3> QED BY <1>0, <3>1, <3>2 DEF SameNav, NavOK
  <2>2. sh' = r /\ out' = EXIT_LINE /\ mode' = "run" /\ query' = query
    BY <1>12 DEF EofOnEmptyLine
  <2> HIDE DEF r
  <2>3. EXIT_LINE \in Seq(Byte)
    BY DEF EXIT_LINE, Byte
  <2> QED BY <1>0, <2>1, <2>2, <2>3
       DEF EditorInv, TypeOK, InBounds, NavShowsHistory, Good, NavOK
<1>13. CASE EofDeletes
  <2> DEFINE r == DeleteRange(c, sh.cursor, Utf8NextBoundary(sh.line, sh.cursor))
  <2>1. Good(r) /\ r.history_nav = -1
    <3>1. sh.cursor \in Nat /\ Utf8NextBoundary(sh.line, sh.cursor) \in Nat
      BY <1>A, <1>E
    <3> QED BY <1>B, <3>1, DeleteRangeGood DEF SameNav
  <2>2. sh' = r /\ UNCHANGED <<mode, query, out>>
    BY <1>13 DEF EofDeletes, c
  <2> HIDE DEF r
  <2> QED BY <2>1, <2>2, EditStep, NoNav
<1>14. CASE Up
  <2>1. CASE sh.history = <<>>
    <3>1. sh' = k /\ UNCHANGED <<mode, query, out>>
      BY <1>14, <2>1 DEF Up, k
    <3> QED BY <1>D, <3>1, EditStep
  <2>2. CASE sh.history # <<>>
    <3>1. sh' = HistoryUp(k) /\ UNCHANGED <<mode, query, out>>
      BY <1>14, <2>2 DEF Up, k
    <3>2. Good(HistoryUp(k)) /\ NavOK(HistoryUp(k))
      BY <1>D, <2>2, HistoryUpGood DEF SameNav
    <3> QED BY <3>1, <3>2, EditStep
  <2> QED BY <2>1, <2>2
<1>15. CASE Down
  <2>1. CASE sh.history_nav < 0
    <3>1. sh' = k /\ UNCHANGED <<mode, query, out>>
      BY <1>15, <2>1 DEF Down, k
    <3> QED BY <1>D, <3>1, EditStep
  <2>2. CASE ~(sh.history_nav < 0)
    <3>1. sh' = HistoryDown(k) /\ UNCHANGED <<mode, query, out>>
      BY <1>15, <2>2 DEF Down, k
    <3>2. Good(HistoryDown(k)) /\ NavOK(HistoryDown(k))
      BY <1>D, HistoryDownGood
    <3> QED BY <3>1, <3>2, EditStep
  <2> QED BY <2>1, <2>2
<1>16. CASE Tab
  <2>1. PICK matches \in MatchLists(sh) : Drawn(LinenoiseComplete(sh, matches))
    BY <1>16 DEF Tab
  <2> DEFINE r == LinenoiseComplete(sh, matches)
  <2>2. Good(r) /\ r.history_nav = -1
    BY <1>0, CompleteGood
  <2>3. sh' = r /\ UNCHANGED <<mode, query, out>>
    BY <2>1
  <2> HIDE DEF r
  <2> QED BY <2>2, <2>3, EditStep, NoNav
<1>17. CASE EraseSelection
  <2> DEFINE a == DeleteSelection(sh)
             r == HistoryCancelNav(a)
  <2>1. Good(a)
    BY <1>0, DeleteSelectionGood
  <2> HIDE DEF a
  <2>2. Good(r) /\ r.history_nav = -1
    BY <2>1, CancelNavGood
  <2>3. sh' = r /\ UNCHANGED <<mode, query, out>>
    BY <1>17 DEF EraseSelection, a
  <2> HIDE DEF r
  <2> QED BY <2>2, <2>3, EditStep, NoNav
<1>18. ASSUME NEW key, NEW start \in Nat, NEW end \in Nat, EraseChar(key, start, end)
       PROVE  EditorInv'
  <2> DEFINE a == SelectionClear(c)
             r == DeleteRange(a, start, end)
  <2>1. Good(a) /\ a.history_nav = -1
    BY <1>B, SelectionClearGood DEF SameNav
  <2> HIDE DEF a
  <2>2. Good(r) /\ r.history_nav = -1
    BY <2>1, DeleteRangeGood DEF SameNav
  <2>3. sh' = r /\ UNCHANGED <<mode, query, out>>
    BY <1>18 DEF EraseChar, a, c
  <2> HIDE DEF r
  <2> QED BY <2>2, <2>3, EditStep, NoNav
<1>19. CASE TypeChar
  <2>1. /\ UNCHANGED <<mode, query, out>>
        /\ \/ sh' = d
           \/ \E first \in InputBytes : \E buf \in CollectUtf8(first, InputBytes) :
                sh' = InsertText(d, buf)
    BY <1>19 DEF TypeChar, d, c
  <2>2. CASE sh' = d
    BY <1>C, <2>1, <2>2, EditStep, NoNav
  <2>3. ASSUME NEW first \in InputBytes, NEW buf \in CollectUtf8(first, InputBytes),
               sh' = InsertText(d, buf)
        PROVE  EditorInv'
    <3>1. buf \in Seq(Byte)
      <4> DEFINE need == IF first < 128 THEN 1 ELSE Utf8LenFromLead(first)
                 rest == UNION {[1..n -> InputBytes] : n \in 0..(need - 1)}
      <4>0. need \in 1..4
        BY DEF Utf8LenFromLead
      <4> HIDE DEF need
      <4>1. PICK r \in rest : buf = <<first>> \o r
        BY DEF CollectUtf8, need
      <4>1a. PICK n \in 0..(need - 1) : r \in [1..n -> InputBytes]
        OBVIOUS
      <4>1b. n \in Nat
        BY <4>0
      <4>2. r \in Seq(Byte)
        BY <4>1a, <4>1b, EditorAssumption
      <4>3. <<first>> \in Seq(Byte)
        BY EditorAssumption
      <4> QED BY <4>1, <4>2, <4>3, ConcatProperties
    <3>2. Good(InsertText(d, buf)) /\ InsertText(d, buf).history_nav = -1
      BY <1>C, <3>1, InsertTextGood DEF SameNav
    <3> QED BY <2>1, <2>3, <3>2, EditStep, NoNav
  <2> QED BY <2>1, <2>2, <2>3
<1>20. CASE SearchStart
  <2>1. /\ sh' = sh /\ out' = out /\ mode' = "search" /\ query' = <<>>
    BY <1>20 DEF SearchStart
  <2>2. query' \in Seq(Byte) /\ Len(query') < LINE_MAX
    BY <1>A, <2>1, EmptySeq
  <2> QED BY <1>0, <2>1, <2>2, SearchStateStep
<1>21. CASE SearchType
  <2>1. PICK b \in InputBytes : query' = Append(query, b)
    BY <1>21 DEF SearchType
  <2>2. sh' = sh /\ out' = out /\ mode' = mode /\ Len(query) + 1 < LINE_MAX
    BY <1>21 DEF SearchType
  <2>3. query' \in Seq(Byte) /\ Len(query') < LINE_MAX
    BY <1>0, <2>1, <2>2, AppendProperties, EditorAssumption
  <2> QED BY <1>0, <2>2, <2>3, SearchStateStep
<1>22. CASE SearchErase
  <2>1. /\ sh' = sh /\ out' = out /\ mode' = mode /\ query # <<>>
        /\ query' = SubSeq(query, 1, Len(query) - 1)
    BY <1>22 DEF SearchErase
  <2>2. Len(query) \in Nat \ {0}
    BY <1>0, <2>1, EmptySeq
  <2>3. query' \in Seq(Byte) /\ Len(query') = Len(query) - 1 - 1 + 1
    <3>1. 1 \in 1..(Len(query) + 1) /\ Len(query) - 1 \in (1 - 1)..Len(query)
      BY <2>2
    <3> QED BY <1>0, <2>1, <3>1, PieceType
  <2>4. Len(query') < LINE_MAX
    BY <1>0, <1>A, <2>2, <2>3
  <2> QED BY <1>0, <2>1, <2>3, <2>4, SearchStateStep
<1>23. CASE SearchAccept
  <2> DEFINE hits == SearchHits(sh, query)
  <2>1. /\ out' = out /\ mode' = "edit" /\ query' = <<>>
        /\ sh' = IF query # <<>> /\ hits # {} THEN LoadLine(sh, sh.history[Max(hits)]) ELSE sh
    BY <1>23 DEF SearchAccept
  <2>2. query' \in Seq(Byte) /\ Len(query') < LINE_MAX
    BY <1>A, <2>1, EmptySeq
  <2>3. hits \subseteq 1..Len(sh.history) /\ Len(sh.history) \in Nat
    BY <1>0, GoodParts DEF SearchHits
  <2> HIDE DEF hits
  <2>4. CASE sh' = sh
    BY <1>0, <2>1, <2>2, <2>4, SearchStateStep
  <2>5. CASE hits # {} /\ sh' = LoadLine(sh, sh.history[Max(hits)])
    <3>1. hits \subseteq 0..Len(sh.history)
      BY <2>3
    <3>2. Max(hits) \in 1..Len(sh.history)
      BY <2>3, <2>5, <3>1, MaxExists
    <3> DEFINE r == LoadLine(sh, sh.history[Max(hits)])
    <3>3. /\ Good(r) /\ SameNav(r, sh) /\ r.line = sh.history[Max(hits)]
      BY <1>0, <3>2, LoadLineGood
    <3> HIDE DEF r
    <3>4. NavOK(r)
      BY <3>2, <3>3 DEF NavOK, SameNav
    <3> QED BY <2>1, <2>2, <2>5, <3>3, <3>4, SearchStateStep DEF r
  <2> QED BY <2>1, <2>4, <2>5
<1>24. CASE SearchCancel
  <2>1. sh' = sh /\ out' = out /\ mode' = "edit" /\ query' = <<>>
    BY <1>24 DEF SearchCancel
  <2>2. query' \in Seq(Byte) /\ Len(query') < LINE_MAX
    BY <1>A, <2>1, EmptySeq
  <2> QED BY <1>0, <2>1, <2>2, SearchStateStep
<1>25. CASE UNCHANGED vars
  BY <1>25 DEF vars, EditorInv, TypeOK, InBounds, NavShowsHistory
<1>26. CASE ShiftLeft \/ ShiftRight \/ ShiftHome \/ ShiftEnd
  <2>1. 0 \in 0..len /\ len \in 0..len
        /\ Utf8PrevBoundary(sh.line, sh.cursor) \in 0..len
        /\ Utf8NextBoundary(sh.line, sh.cursor) \in 0..len
    BY <1>A, <1>E
  <2> QED BY <1>8, <1>26, <2>1 DEF ShiftLeft, ShiftRight, ShiftHome, ShiftEnd, len
<1>27. CASE Home \/ End \/ Left \/ Right
  <2>1. 0 \in 0..len /\ len \in 0..len
        /\ Utf8PrevBoundary(sh.line, sh.cursor) \in 0..len
        /\ Utf8NextBoundary(sh.line, sh.cursor) \in 0..len
    BY <1>A, <1>E
  <2> QED BY <1>9, <1>27, <2>1 DEF Home, End, Left, Right, len
<1>28. CASE KillBefore \/ KillAfter \/ KillWordBefore
  <2>1. /\ 0 \in 0..len /\ sh.cursor \in 0..len /\ len \in sh.cursor..len
        /\ PrevWordBoundary(sh.line, sh.cursor) \in 0..len
        /\ sh.cursor \in PrevWordBoundary(sh.line, sh.cursor)..len
    BY <1>A, <1>E
  <2> QED BY <1>10, <1>28, <2>1 DEF KillBefore, KillAfter, KillWordBefore, len
<1>29. CASE Backspace \/ Delete
  <2>1. /\ sh.cursor \in Nat /\ Utf8PrevBoundary(sh.line, sh.cursor) \in Nat
        /\ Utf8NextBoundary(sh.line, sh.cursor) \in Nat
    BY <1>A, <1>E
  <2> QED BY <1>18, <1>29, <2>1 DEF Backspace, Delete
<1> QED BY <1>1, <1>2, <1>3, <1>4, <1>5, <1>6, <1>7, <1>11, <1>12, <1>13, <1>14, <1>15,
           <1>16, <1>17, <1>19, <1>20, <1>21, <1>22, <1>23, <1>24, <1>25, <1>26, <1>27,
           <1>28, <1>29 DEF Next, EditKey

\* Whatever keys are pressed, no buffer index of the editor leaves its array.
THEOREM EditorSafe == Spec => [](TypeOK /\ InBounds)
<1>1. EditorInv => TypeOK /\ InBounds
  BY DEF EditorInv
<1> QED BY <1>1, EditorInitInv, EditorStepInv, PTL DEF Spec

\* The line, the history and the search keep their types: no cursor is outside
\* its line and no entry longer than the kernel's line.
THEOREM EditorTyped == Spec => []TypeOK
BY EditorSafe, PTL

\* Navigation always displays an unedited history entry.
THEOREM EditorNavigation == Spec => []NavShowsHistory
<1>1. EditorInv => NavShowsHistory
  BY DEF EditorInv
<1> QED BY <1>1, EditorInitInv, EditorStepInv, PTL DEF Spec

(***************************************************************************)
(* What the screen shows.                                                  *)
(***************************************************************************)

\* The selection is a matter of four fields.
SameSelection(r, s) ==
    /\ r.line = s.line /\ r.sel_active = s.sel_active
    /\ r.sel_start = s.sel_start /\ r.sel_end = s.sel_end

LEMMA SameSelectionRange ==
  ASSUME NEW r, NEW s, SameSelection(r, s)
  PROVE  SelectionRange(r) = SelectionRange(s) /\ (HasSelection(r) <=> HasSelection(s))
BY DEF SameSelection, SelectionRange, HasSelection

LEMMA InactiveHasNone ==
  ASSUME NEW s, s.sel_active = FALSE
  PROVE  ~HasSelection(s)
BY DEF HasSelection, SelectionRange

LEMMA ClearDeactivates ==
  ASSUME NEW s, s \in ShellType
  PROVE  SelectionClear(s).sel_active = FALSE
BY DEF ShellType, SelectionClear

LEMMA CancelNavKeepsSelection ==
  ASSUME NEW s, Good(s)
  PROVE  SameSelection(HistoryCancelNav(s), s) /\ HistoryCancelNav(s).cursor = s.cursor
<1> DEFINE e == <<>>
           none == -1
<1>1. HistoryCancelNav(s) = [s EXCEPT !.history_nav = none, !.nav_saved_line = e,
                                      !.nav_saved_cursor = 0]
  BY DEF HistoryCancelNav
<1>2. s \in ShellType
  BY DEF Good
<1> HIDE DEF e, none
<1> QED BY <1>1, <1>2 DEF ShellType, SameSelection

\* Deleting always drops the selection.
LEMMA DeleteRangeDeactivates ==
  ASSUME NEW s, Good(s), NEW start \in Nat, NEW end \in Nat
  PROVE  DeleteRange(s, start, end).sel_active = FALSE
<1> DEFINE stop == Lesser(end, Len(s.line))
           rest == Splice(s.line, start, stop, <<>>)
           cur  == IF s.cursor > stop THEN s.cursor - (stop - start)
                   ELSE Lesser(s.cursor, start)
           at   == Lesser(cur, Len(rest))
           t == [s EXCEPT !.line = rest, !.cursor = at]
<1>1. DeleteRange(s, start, end) = SelectionClear(s)
      \/ DeleteRange(s, start, end) = SelectionClear(t)
  BY DEF DeleteRange
<1>2. SelectionClear(s).sel_active = FALSE
  BY ClearDeactivates DEF Good
<1> HIDE DEF rest, at
<1>3. SelectionClear(t).sel_active = FALSE
  BY DEF Good, ShellType, SelectionClear
<1> QED BY <1>1, <1>2, <1>3 DEF rest, at

LEMMA InsertTextKeepsSelection ==
  ASSUME NEW s, Good(s), NEW text
  PROVE  InsertText(s, text).sel_active = s.sel_active
<1> DEFINE at  == Lesser(s.cursor, Len(s.line))
           fit == Lesser(Len(text), (LINE_MAX - 1) - Len(s.line))
           l   == Splice(s.line, at, at, SubSeq(text, 1, fit))
           c   == at + fit
<1>1. InsertText(s, text) = [s EXCEPT !.line = l, !.cursor = c]
  BY DEF InsertText
<1> HIDE DEF l, c
<1> QED BY <1>1 DEF Good, ShellType

\* A line and a cursor, and no selection: what an undrawn key leaves.
Unmarked(r, s) == r.line = s.line /\ r.cursor = s.cursor /\ r.sel_active = FALSE

\* What a key does to the screen: it draws the state it leaves, or leaves it
\* behind without a selection, or moves nothing.
ScreenStep ==
    /\ SelectionIsShown => SelectionIsShown'
    /\ mode = "edit" /\ mode' = "edit" /\ Synced =>
         \/ Synced'
         \/ LineNeedsContinuation(sh.line)
         \/ HasSelection(sh) /\ Len(DeleteSelection(sh).line) + LongestChar >= LINE_MAX

LEMMA DrawnShows ==
  ASSUME NEW s, sh' = s, shown' = Rendered(s)
  PROVE  ScreenStep
BY DEF ScreenStep, Rendered, SelectionIsShown, HasSelection, SelectionRange, Synced

LEMMA UnmarkedShows ==
  ASSUME NEW s, sh' = s, UNCHANGED shown, Unmarked(s, sh)
  PROVE  ScreenStep
<1>1. ~HasSelection(s)
  BY InactiveHasNone DEF Unmarked
<1>2. SelectionIsShown'
  BY <1>1 DEF SelectionIsShown, HasSelection, SelectionRange
<1> QED BY <1>2 DEF ScreenStep, Synced, Unmarked

\* No selection and no line on the screen to compare with.
LEMMA LeftEditing ==
  ASSUME mode # "edit" \/ mode' # "edit", sh'.sel_active = FALSE \/ mode' # "edit"
  PROVE  ScreenStep
<1>1. sh'.sel_active = FALSE => SelectionIsShown'
  BY InactiveHasNone DEF SelectionIsShown, HasSelection, SelectionRange
<1>2. mode' # "edit" => SelectionIsShown'
  BY DEF SelectionIsShown
<1> QED BY <1>1, <1>2 DEF ScreenStep

\* The bytes of one typed character.
LEMMA CharLength ==
  ASSUME NEW first \in InputBytes, NEW buf \in CollectUtf8(first, InputBytes)
  PROVE  buf \in Seq(Byte) /\ Len(buf) \in 1..LongestChar /\ LongestChar \in 1..4
<1> DEFINE need == IF first < 128 THEN 1 ELSE Utf8LenFromLead(first)
           rest == UNION {[1..n -> InputBytes] : n \in 0..(need - 1)}
           S == {1} \cup {Utf8LenFromLead(b) : b \in InputBytes}
<1>0. need \in 1..4 /\ need \in S
  BY DEF Utf8LenFromLead
<1>1. \A b \in InputBytes : Utf8LenFromLead(b) \in 1..4
  BY DEF Utf8LenFromLead
<1>2. S \subseteq 0..4 /\ S # {} /\ S \subseteq 1..4
  BY <1>1
<1>3. LongestChar = Max(S)
  BY DEF LongestChar
<1> HIDE DEF need, S
<1>4. Max(S) \in S /\ \A y \in S : Max(S) >= y
  BY <1>2, MaxExists
<1>5. PICK r \in rest : buf = <<first>> \o r
  BY DEF CollectUtf8, need
<1>6. PICK n \in 0..(need - 1) : r \in [1..n -> InputBytes]
  OBVIOUS
<1>7. n \in Nat
  BY <1>0
<1>8. r \in Seq(Byte) /\ Len(r) = n
  BY <1>6, <1>7, EditorAssumption
<1>9. <<first>> \in Seq(Byte) /\ Len(<<first>>) = 1
  BY EditorAssumption
<1>10. buf \in Seq(Byte) /\ Len(buf) = 1 + n
  BY <1>5, <1>8, <1>9, ConcatProperties
<1>11. LongestChar \in 1..4 /\ need <= LongestChar
  BY <1>0, <1>2, <1>3, <1>4
<1> QED BY <1>0, <1>6, <1>7, <1>10, <1>11

LEMMA EveryScreenStep ==
  ASSUME EditorInv, [Next]_vars
  PROVE  ScreenStep
<1>0. Good(sh) /\ sh \in ShellType
  BY InvIsGood DEF Good
<1> DEFINE c == HistoryCancelNav(sh)
           d == DeleteSelection(c)
           k == SelectionClear(sh)
<1>1. /\ Good(c) /\ SameSelection(c, sh) /\ c.line = sh.line /\ c.cursor = sh.cursor
      /\ HasSelection(c) <=> HasSelection(sh)
      /\ SelectionRange(c) = SelectionRange(sh)
  BY <1>0, CancelNavGood, CancelNavKeepsSelection, SameSelectionRange
<1>2. Good(k) /\ Unmarked(k, sh)
  BY <1>0, SelectionClearGood, ClearDeactivates DEF Unmarked
<1>3. sh.line \in Seq(Byte) /\ Len(sh.line) \in Nat /\ sh.cursor \in 0..Len(sh.line)
      /\ LINE_MAX \in Nat
  BY <1>0, GoodParts
<1> HIDE DEF c, d, k
<1>4. ASSUME NEW s, Drawn(s) PROVE ScreenStep
  BY <1>4, DrawnShows DEF Drawn
<1>5. ASSUME NEW s, Undrawn(s), Unmarked(s, sh) PROVE ScreenStep
  BY <1>5, UnmarkedShows DEF Undrawn
<1>6. CASE EnterContinues
  <2> DEFINE a == SelectionClear(c)
             n == TrimmedLen(a.line)
             b == DeleteRange(a, n - 1, n)
             r == [b EXCEPT !.cursor = Len(b.line)]
  <2>1. Good(a) /\ a.line = sh.line
    BY <1>1, SelectionClearGood
  <2>2. LineNeedsContinuation(sh.line) /\ mode' = "edit" /\ mode = "edit"
    BY <1>6 DEF EnterContinues, Press
  <2>3. n \in Nat /\ n > 0
    BY <1>3, <2>1, <2>2, TrimmedLenRange DEF LineNeedsContinuation
  <2> HIDE DEF a, n
  <2>3a. n - 1 \in Nat
    BY <2>3
  <2>3b. Good(b)
    BY <2>1, <2>3, <2>3a, DeleteRangeGood
  <2>4. Good(b) /\ b.sel_active = FALSE
    BY <2>1, <2>3, <2>3a, <2>3b, DeleteRangeDeactivates
  <2> HIDE DEF b
  <2>5. Good(r) /\ r.sel_active = FALSE
    <3>1. Len(b.line) \in 0..Len(b.line)
      BY <2>4, GoodParts
    <3>2. Good(r)
      BY <2>4, <3>1, SetCursorGood
    <3> QED BY <2>4, <3>2 DEF Good, ShellType
  <2>6. RemoveContinuationMarker(SelectionClear(HistoryCancelNav(sh))) = r
    BY DEF RemoveContinuationMarker, b, n, a, c
  <2> HIDE DEF r
  <2>7. sh' = r \/ sh' = InsertText(r, <<SPACE>>)
    BY <1>6, <2>6 DEF EnterContinues
  <2>8. sh'.sel_active = FALSE
    BY <2>5, <2>7, InsertTextKeepsSelection
  <2>9. SelectionIsShown'
    BY <2>8, InactiveHasNone DEF SelectionIsShown, HasSelection, SelectionRange
  <2> QED BY <2>2, <2>9 DEF ScreenStep
<1>7. CASE EnterReturns \/ ExitRequested \/ SearchStart \/ EofOnEmptyLine
  <2>1. mode' # "edit"
    BY <1>7 DEF EnterReturns, ExitRequested, SearchStart, EofOnEmptyLine
  <2> QED BY <2>1, LeftEditing
<1>8. CASE ReadInteractiveLine
  <2> DEFINE p == ResetLine(sh)
             t == [sh EXCEPT !.line = <<>>, !.cursor = 0]
  <2>1. mode # "edit" /\ sh' = HistoryCancelNav(p)
    BY <1>8 DEF ReadInteractiveLine
  <2>2. Good(p)
    BY <1>0, ResetLineGood
  <2>3. p.sel_active = FALSE
    <3>1. t.sel_active = sh.sel_active
      BY <1>0 DEF ShellType
    <3>2. p = SelectionClear(t)
      BY DEF ResetLine
    <3>3. SelectionClear(t).sel_active = FALSE
      BY <1>0 DEF ShellType, SelectionClear
    <3> QED BY <3>2, <3>3
  <2> HIDE DEF p
  <2>4. sh'.sel_active = FALSE
    BY <2>1, <2>2, <2>3, CancelNavKeepsSelection DEF SameSelection
  <2> QED BY <2>1, <2>4, LeftEditing
<1>9. CASE SelectAll \/ Paste \/ ClearScreen \/ EofDeletes \/ EraseSelection
  BY <1>4, <1>9 DEF SelectAll, Paste, ClearScreen, EofDeletes, EraseSelection
<1>10. CASE Copy
  <2> DEFINE x == SubSeq(sh.line, SelectionRange(sh)[1] + 1,
                         Lesser(SelectionRange(sh)[2], SelectionRange(sh)[1] + LINE_MAX - 1))
             r == CopySelection(sh)
  <2>1. r = sh \/ r = [sh EXCEPT !.clipboard = x]
    BY DEF CopySelection, CopyRange
  <2> HIDE DEF x, r
  <2>2. SameSelection(r, sh) /\ r.cursor = sh.cursor
    BY <1>0, <2>1 DEF ShellType, SameSelection
  <2>3. SelectionRange(r) = SelectionRange(sh) /\ (HasSelection(r) <=> HasSelection(sh))
    BY <2>2, SameSelectionRange
  <2>4. sh' = r /\ shown' = shown /\ mode' = mode
    BY <1>10 DEF Copy, Undrawn, r
  <2>5. (SelectionRange(sh))' = SelectionRange(r) /\ ((HasSelection(sh))' <=> HasSelection(r))
    BY <2>4 DEF SelectionRange, HasSelection
  <2> QED BY <2>2, <2>3, <2>4, <2>5 DEF ScreenStep, SelectionIsShown, Synced, SameSelection
<1>11. ASSUME NEW key, NEW target, ShiftMove(key, target) PROVE ScreenStep
  BY <1>4, <1>11 DEF ShiftMove
<1>12. ASSUME NEW key, NEW target, Move(key, target) PROVE ScreenStep
  <2> DEFINE r == [k EXCEPT !.cursor = target]
  <2>1. Drawn(r) \/ (Undrawn(r) /\ target = sh.cursor)
    BY <1>12 DEF Move, k
  <2>2. target = sh.cursor => Unmarked(r, sh)
    BY <1>2 DEF Unmarked, Good, ShellType
  <2> HIDE DEF r
  <2> QED BY <1>4, <1>5, <2>1, <2>2
<1>13. ASSUME NEW key, NEW start, NEW end, Kill(key, start, end) PROVE ScreenStep
  BY <1>4, <1>13 DEF Kill
<1>14. CASE Up
  BY <1>2, <1>4, <1>5, <1>14 DEF Up, k
<1>15. CASE Down
  BY <1>2, <1>4, <1>5, <1>15 DEF Down, k
<1>16. CASE Tab
  BY <1>4, <1>16 DEF Tab
<1>17. ASSUME NEW key, NEW start, NEW end, EraseChar(key, start, end) PROVE ScreenStep
  BY <1>4, <1>17 DEF EraseChar
<1>18. CASE TypeChar
  <2>1. PICK first \in InputBytes :
           IF Len(d.line) + 1 >= LINE_MAX THEN Undrawn(d)
           ELSE \E buf \in CollectUtf8(first, InputBytes) :
                  IF Len(d.line) + Len(buf) >= LINE_MAX THEN Undrawn(d)
                  ELSE Drawn(InsertText(d, buf))
    BY <1>18 DEF TypeChar, d, c
  <2>2. \/ \E s : Drawn(s)
        \/ Undrawn(d) /\ Len(d.line) + LongestChar >= LINE_MAX
    <3>0. Good(d)
      BY <1>1, DeleteSelectionGood DEF d
    <3>1. Len(d.line) \in Nat
      BY <3>0, GoodParts
    <3>2. CASE Len(d.line) + 1 >= LINE_MAX
      <4>1. LongestChar \in 1..4
        <5> DEFINE S == {1} \cup {Utf8LenFromLead(b) : b \in InputBytes}
        <5>1. \A b \in InputBytes : Utf8LenFromLead(b) \in 1..4
          BY DEF Utf8LenFromLead
        <5>2. S \subseteq 0..4 /\ S # {} /\ S \subseteq 1..4
          BY <5>1
        <5> HIDE DEF S
        <5>3. Max(S) \in S
          BY <5>2, MaxExists
        <5> QED BY <5>2, <5>3 DEF LongestChar, S
      <4> QED BY <1>3, <2>1, <3>1, <3>2, <4>1
    <3>3. CASE ~(Len(d.line) + 1 >= LINE_MAX)
      <4>1. PICK buf \in CollectUtf8(first, InputBytes) :
              IF Len(d.line) + Len(buf) >= LINE_MAX THEN Undrawn(d)
              ELSE Drawn(InsertText(d, buf))
        BY <2>1, <3>3
      <4>2. Len(buf) \in 1..LongestChar /\ LongestChar \in 1..4
        BY CharLength
      <4> QED BY <1>3, <3>1, <4>1, <4>2
    <3> QED BY <3>2, <3>3
  <2>3. CASE Undrawn(d) /\ Len(d.line) + LongestChar >= LINE_MAX
    <3>1. CASE HasSelection(sh)
      <4>1. d.line = DeleteSelection(sh).line /\ d.sel_active = FALSE
        <5> DEFINE x == SelectionRange(sh)[1]
                   y == SelectionRange(sh)[2]
        <5>1. x \in Nat /\ y \in Nat
          BY <1>0, <1>3, SelectionRangeType
        <5>2. d = DeleteRange(c, x, y) /\ DeleteSelection(sh) = DeleteRange(sh, x, y)
          BY <1>1, <3>1 DEF d, DeleteSelection
        <5> HIDE DEF x, y
        <5>3. d.sel_active = FALSE
          BY <1>1, <5>1, <5>2, DeleteRangeDeactivates
        <5>4. DeleteRange(c, x, y).line = DeleteRange(sh, x, y).line
          BY <1>0, <1>1 DEF DeleteRange, SelectionClear, Good, ShellType
        <5> QED BY <5>2, <5>3, <5>4
      <4>2. sh' = d
        BY <2>3 DEF Undrawn
      <4>3. SelectionIsShown'
        BY <4>1, <4>2, InactiveHasNone DEF SelectionIsShown, HasSelection, SelectionRange
      <4> QED BY <2>3, <3>1, <4>1, <4>3 DEF ScreenStep
    <3>2. CASE ~HasSelection(sh)
      <4>1. d = c
        BY <1>1, <3>2 DEF d, DeleteSelection
      <4>2. sh' = c /\ shown' = shown /\ ~HasSelection(c)
        BY <1>1, <2>3, <3>2, <4>1 DEF Undrawn
      <4>3. SelectionIsShown'
        BY <4>2 DEF SelectionIsShown, HasSelection, SelectionRange
      <4> QED BY <1>1, <4>2, <4>3 DEF ScreenStep, Synced
    <3> QED BY <3>1, <3>2
  <2> QED BY <1>4, <2>2, <2>3
<1>19. CASE SearchType \/ SearchErase
  <2>1. mode' = mode /\ mode = "search"
    BY <1>19 DEF SearchType, SearchErase
  <2> QED BY <2>1, LeftEditing
<1>20. CASE SearchAccept \/ SearchCancel
  <2>1. \E s : sh' = s /\ shown' = Rendered(s)
    BY <1>20 DEF SearchAccept, SearchCancel
  <2> QED BY <2>1, DrawnShows
<1>21. CASE UNCHANGED vars
  BY <1>21 DEF vars, ScreenStep, SelectionIsShown, Synced, HasSelection, SelectionRange
<1> QED BY <1>6, <1>7, <1>8, <1>9, <1>10, <1>11, <1>12, <1>13, <1>14, <1>15, <1>16, <1>17,
           <1>18, <1>19, <1>20, <1>21
       DEF Next, EditKey, ShiftLeft, ShiftRight, ShiftHome, ShiftEnd, Home, End, Left, Right,
           KillBefore, KillAfter, KillWordBefore, Backspace, Delete

\* The next key removes only what the user saw highlighted.
THEOREM EditorShowsSelection == Spec => []SelectionIsShown
<1>1. Init => SelectionIsShown
  BY DEF Init, InitShell, SelectionIsShown, HasSelection, SelectionRange
<1>2. EditorInv /\ SelectionIsShown /\ [Next]_vars => SelectionIsShown'
  BY EveryScreenStep DEF ScreenStep
<1> QED BY <1>1, <1>2, EditorInitInv, EditorStepInv, PTL DEF Spec

\* Every key keeps the screen up to date, but for the two exceptions of input.rs.
THEOREM EditorKeepsScreen == Spec => ScreenFollowsLine
<1>1. EditorInv /\ [Next]_vars =>
        [mode = "edit" /\ mode' = "edit" /\ Synced =>
          \/ Synced'
          \/ LineNeedsContinuation(sh.line)
          \/ HasSelection(sh) /\ Len(DeleteSelection(sh).line) + LongestChar >= LINE_MAX]_vars
  BY EveryScreenStep DEF ScreenStep
<1> QED BY <1>1, EditorInitInv, EditorStepInv, PTL DEF Spec, ScreenFollowsLine

(***************************************************************************)
(* Characters.  Char(t, q, n): a whole character of n bytes at position q.  *)
(***************************************************************************)

Char(t, q, n) ==
    /\ q \in Nat /\ n \in 1..4 /\ q + n <= Len(t)
    /\ n = Utf8LenFromLead(t[q + 1]) /\ ~Utf8IsCont(t[q + 1])
    /\ \A i \in 1..(n - 1) : Utf8IsCont(t[q + i + 1])

\* Well-formed text: every position lies in a character.
LEMMA WellFormedChars ==
  ASSUME NEW t \in Seq(Byte)
  PROVE  WellFormed(t) <=> \A p \in 0..(Len(t) - 1) : \E q \in 0..p, n \in 1..4 :
                              Char(t, q, n) /\ q + n > p
<1>0. Len(t) \in Nat
  BY LenProperties
<1>1. ASSUME NEW p \in 0..(Len(t) - 1), NEW q \in Greater(0, p - 3)..p,
             ~Utf8IsCont(t[q + 1]), q + Utf8CharLenAt(t, q) > p,
             Utf8CharLenAt(t, q) = Utf8LenFromLead(t[q + 1])
      PROVE  \E r \in 0..p, n \in 1..4 : Char(t, r, n) /\ r + n > p
  <2> DEFINE need == Utf8LenFromLead(t[q + 1])
  <2>1. q \in 0..p /\ q \in Nat
    BY <1>0 DEF Greater
  <2>2. need \in 1..4
    BY DEF Utf8LenFromLead
  <2>3. q + need <= Len(t) /\ \A i \in 1..(need - 1) : Utf8IsCont(t[q + i + 1])
    <3>1. CASE need = 1
      BY <1>0, <2>1, <3>1
    <3>2. CASE need # 1
      BY <1>1, <3>2 DEF Utf8CharLenAt
    <3> QED BY <3>1, <3>2
  <2> HIDE DEF need
  <2>4. Char(t, q, need) /\ q + need > p
    BY <1>1, <2>1, <2>2, <2>3 DEF Char, need
  <2> QED BY <2>1, <2>2, <2>4
<1>2. ASSUME NEW p \in 0..(Len(t) - 1), NEW q \in 0..p, NEW n \in 1..4,
             Char(t, q, n), q + n > p
      PROVE  /\ q \in Greater(0, p - 3)..p /\ ~Utf8IsCont(t[q + 1])
             /\ q + Utf8CharLenAt(t, q) > p
             /\ Utf8CharLenAt(t, q) = Utf8LenFromLead(t[q + 1])
  <2>1. q \in Greater(0, p - 3)..p
    BY <1>0, <1>2 DEF Greater
  <2>2. Utf8CharLenAt(t, q) = n
    BY <1>2 DEF Char, Utf8CharLenAt
  <2> QED BY <1>2, <2>1, <2>2 DEF Char
<1>3. ASSUME WellFormed(t), NEW p \in 0..(Len(t) - 1)
      PROVE  \E q \in 0..p, n \in 1..4 : Char(t, q, n) /\ q + n > p
  BY <1>1, <1>3 DEF WellFormed
<1>4. ASSUME \A p \in 0..(Len(t) - 1) : \E q \in 0..p, n \in 1..4 : Char(t, q, n) /\ q + n > p
      PROVE  WellFormed(t)
  <2> SUFFICES ASSUME NEW p \in 0..(Len(t) - 1)
      PROVE \E q \in Greater(0, p - 3)..p :
            ~Utf8IsCont(t[q + 1]) /\ q + Utf8CharLenAt(t, q) > p
              /\ Utf8CharLenAt(t, q) = Utf8LenFromLead(t[q + 1])
    BY DEF WellFormed
  <2>1. PICK q \in 0..p, n \in 1..4 : Char(t, q, n) /\ q + n > p
    BY <1>4
  <2> QED BY <1>2, <2>1
<1> QED BY <1>3, <1>4

\* A character is a matter of its bytes, wherever they stand.
LEMMA CharMoved ==
  ASSUME NEW t, NEW w, NEW q, NEW n, Char(t, q, n), Len(t) \in Nat, Len(w) \in Nat,
         NEW k \in Int, q + k \in Nat, q + k + n <= Len(w),
         \A j \in (q + 1)..(q + n) : w[j + k] = t[j]
  PROVE  Char(w, q + k, n)
<1>0. q \in Nat /\ n \in 1..4
  BY DEF Char
<1>1. ASSUME NEW i \in 0..(n - 1) PROVE w[q + k + i + 1] = t[q + i + 1]
  <2>1. q + i + 1 \in (q + 1)..(q + n) /\ (q + i + 1) + k = q + k + i + 1
    BY <1>0
  <2> QED BY <2>1
<1>2. w[q + k + 1] = t[q + 1]
  <2>1. q + 1 \in (q + 1)..(q + n) /\ (q + 1) + k = q + k + 1
    BY <1>0
  <2> QED BY <2>1
<1>3. \A i \in 1..(n - 1) : Utf8IsCont(w[q + k + i + 1])
  <2> SUFFICES ASSUME NEW i \in 1..(n - 1) PROVE Utf8IsCont(w[q + k + i + 1])
    OBVIOUS
  <2>1. i \in 0..(n - 1)
    BY <1>0
  <2> QED BY <1>1, <2>1 DEF Char
<1> QED BY <1>0, <1>2, <1>3 DEF Char

\* No character crosses a boundary.
LEMMA CharStops ==
  ASSUME NEW t, NEW q, NEW n, Char(t, q, n), Len(t) \in Nat, NEW b \in 0..Len(t),
         OnBoundary(t, b)
  PROVE  q + n <= b \/ q >= b
<1>0. q \in Nat /\ n \in 1..4 /\ q + n <= Len(t)
  BY DEF Char
<1> SUFFICES ASSUME q < b, b < q + n PROVE FALSE
  BY <1>0
<1>1. b - q \in 1..(n - 1) /\ q + (b - q) + 1 = b + 1 /\ b < Len(t)
  BY <1>0
<1>2. Utf8IsCont(t[b + 1])
  BY <1>1 DEF Char
<1> QED BY <1>1, <1>2 DEF OnBoundary

\* Two characters that start at one position are the same.
LEMMA SameChar ==
  ASSUME NEW t, NEW q, NEW m, NEW n, Char(t, q, m), Char(t, q, n)
  PROVE  m = n
BY DEF Char

\* The start of well-formed text is a boundary, and so is its end.
LEMMA EndsAreBoundaries ==
  ASSUME NEW t \in Seq(Byte), WellFormed(t)
  PROVE  OnBoundary(t, 0) /\ OnBoundary(t, Len(t))
<1>0. Len(t) \in Nat
  BY LenProperties
<1>1. CASE Len(t) = 0
  BY <1>1 DEF OnBoundary
<1>2. CASE Len(t) # 0
  <2>1. 0 \in 0..(Len(t) - 1)
    BY <1>0, <1>2
  <2>2. PICK q \in 0..0, n \in 1..4 : Char(t, q, n) /\ q + n > 0
    BY <2>1, WellFormedChars
  <2>3. q = 0
    OBVIOUS
  <2>4. ~Utf8IsCont(t[0 + 1])
    BY <2>2, <2>3 DEF Char
  <2> QED BY <1>0, <1>2, <2>4 DEF OnBoundary
<1> QED BY <1>1, <1>2

\* What is cut out between two boundaries is well-formed.
LEMMA CutClean ==
  ASSUME NEW t \in Seq(Byte), WellFormed(t), NEW a \in 0..Len(t), NEW b \in a..Len(t),
         OnBoundary(t, a), OnBoundary(t, b)
  PROVE  WellFormed(SubSeq(t, a + 1, b))
<1> DEFINE u == SubSeq(t, a + 1, b)
<1>0. Len(t) \in Nat
  BY LenProperties
<1>1. u \in Seq(Byte) /\ Len(u) = b - a
  <2>1. a + 1 \in 1..(Len(t) + 1) /\ b \in ((a + 1) - 1)..Len(t)
    BY <1>0
  <2>2. u \in Seq(Byte) /\ Len(u) = b - (a + 1) + 1
    BY <2>1, PieceType
  <2> QED BY <1>0, <2>2
<1>2. \A j \in 1..(b - a) : u[j] = t[a + j]
  <2>1. \A i \in (a + 1)..b : t[i] \in Byte
    BY <1>0, ElementOfSeq
  <2>2. \A j \in 1..(b - (a + 1) + 1) : u[j] = t[(a + 1) + j - 1]
    BY <1>0, <2>1, SubSeqProperties
  <2> QED BY <1>0, <2>2
<1> HIDE DEF u
<1>3. ASSUME NEW p \in 0..(Len(u) - 1)
      PROVE  \E q \in 0..p, n \in 1..4 : Char(u, q, n) /\ q + n > p
  <2>1. p + a \in 0..(Len(t) - 1)
    BY <1>0, <1>1
  <2>2. PICK q \in 0..(p + a), n \in 1..4 : Char(t, q, n) /\ q + n > p + a
    BY <2>1, WellFormedChars
  <2>3. q >= a /\ q + n <= b
    <3>1. q + n <= a \/ q >= a
      BY <1>0, <2>2, CharStops
    <3>2. b \in 0..Len(t)
      BY <1>0
    <3>3. q + n <= b \/ q >= b
      BY <1>0, <2>2, <3>2, CharStops
    <3> QED BY <1>0, <1>1, <2>2, <3>1, <3>3
  <2> DEFINE k == -a
  <2>4. /\ k \in Int /\ q + k \in Nat /\ q + k + n <= Len(u) /\ q + k \in 0..p
        /\ q + k + n > p /\ Len(u) \in Nat
    BY <1>0, <1>1, <2>2, <2>3
  <2>5. \A j \in (q + 1)..(q + n) : u[j + k] = t[j]
    <3> SUFFICES ASSUME NEW j \in (q + 1)..(q + n) PROVE u[j + k] = t[j]
      OBVIOUS
    <3>1. j + k \in 1..(b - a) /\ a + (j + k) = j
      BY <1>0, <2>3
    <3> QED BY <1>2, <3>1
  <2> HIDE DEF k
  <2>6. Char(u, q + k, n)
    BY <1>0, <2>2, <2>4, <2>5, CharMoved
  <2> QED BY <2>4, <2>6
<1> QED BY <1>1, <1>3, WellFormedChars DEF u

\* Well-formed texts, one after the other.
LEMMA ConcatClean ==
  ASSUME NEW x \in Seq(Byte), NEW y \in Seq(Byte), WellFormed(x), WellFormed(y)
  PROVE  WellFormed(x \o y)
<1> DEFINE w == x \o y
<1>0. Len(x) \in Nat /\ Len(y) \in Nat
  BY LenProperties
<1>1. /\ w \in Seq(Byte) /\ Len(w) = Len(x) + Len(y)
      /\ \A i \in 1..Len(w) : w[i] = IF i <= Len(x) THEN x[i] ELSE y[i - Len(x)]
  BY ConcatProperties
<1> HIDE DEF w
<1>2. ASSUME NEW p \in 0..(Len(w) - 1)
      PROVE  \E q \in 0..p, n \in 1..4 : Char(w, q, n) /\ q + n > p
  <2>1. CASE p < Len(x)
    <3>1. PICK q \in 0..p, n \in 1..4 : Char(x, q, n) /\ q + n > p
      BY <1>0, <2>1, WellFormedChars
    <3>2. q + n <= Len(x) /\ q \in Nat
      BY <3>1 DEF Char
    <3>3. \A j \in (q + 1)..(q + n) : w[j + 0] = x[j]
      BY <1>0, <1>1, <3>2
    <3>4. q + 0 \in Nat /\ q + 0 + n <= Len(w) /\ Len(w) \in Nat /\ 0 \in Int
      BY <1>0, <1>1, <3>2
    <3>5. Char(w, q + 0, n)
      BY <1>0, <3>1, <3>3, <3>4, CharMoved
    <3> QED BY <3>1, <3>2, <3>5
  <2>2. CASE p >= Len(x)
    <3>1. p - Len(x) \in 0..(Len(y) - 1)
      BY <1>0, <1>1, <2>2
    <3>2. PICK q \in 0..(p - Len(x)), n \in 1..4 : Char(y, q, n) /\ q + n > p - Len(x)
      BY <3>1, WellFormedChars
    <3> DEFINE k == Len(x)
    <3>3. q + n <= Len(y) /\ q \in Nat
      BY <3>2 DEF Char
    <3>4. \A j \in (q + 1)..(q + n) : w[j + k] = y[j]
      <4> SUFFICES ASSUME NEW j \in (q + 1)..(q + n) PROVE w[j + k] = y[j]
        OBVIOUS
      <4>1. j + k \in 1..Len(w) /\ ~(j + k <= Len(x)) /\ (j + k) - Len(x) = j
        BY <1>0, <1>1, <3>3
      <4> QED BY <1>1, <4>1
    <3>5. /\ q + k \in Nat /\ q + k + n <= Len(w) /\ Len(w) \in Nat /\ k \in Int
          /\ q + k \in 0..p /\ q + k + n > p
      BY <1>0, <1>1, <3>2, <3>3
    <3> HIDE DEF k
    <3>6. Char(w, q + k, n)
      BY <1>0, <3>2, <3>4, <3>5, CharMoved
    <3> QED BY <3>5, <3>6
  <2> QED BY <1>0, <1>1, <2>1, <2>2
<1> QED BY <1>1, <1>2, WellFormedChars DEF w

LEMMA EmptyClean ==
  ASSUME NEW t \in Seq(Byte), Len(t) = 0
  PROVE  WellFormed(t) /\ OnBoundary(t, 0)
BY DEF WellFormed, OnBoundary

\* A boundary of a text is one of a text it begins, and of one it ends.
LEMMA ConcatBoundary ==
  ASSUME NEW x \in Seq(Byte), NEW y \in Seq(Byte)
  PROVE  /\ \A p \in 0..Len(x) : OnBoundary(x, p) /\ (p < Len(x) \/ OnBoundary(y, 0))
                                    => OnBoundary(x \o y, p)
         /\ \A p \in 0..Len(y) : OnBoundary(y, p) => OnBoundary(x \o y, Len(x) + p)
<1> DEFINE w == x \o y
<1>0. Len(x) \in Nat /\ Len(y) \in Nat
  BY LenProperties
<1>1. /\ Len(w) = Len(x) + Len(y)
      /\ \A i \in 1..Len(w) : w[i] = IF i <= Len(x) THEN x[i] ELSE y[i - Len(x)]
  BY ConcatProperties
<1> HIDE DEF w
<1>2. ASSUME NEW p \in 0..Len(y), OnBoundary(y, p)
      PROVE  OnBoundary(w, Len(x) + p)
  <2>1. CASE p = Len(y)
    BY <1>0, <1>1, <2>1 DEF OnBoundary
  <2>2. CASE p # Len(y)
    <3>1. Len(x) + p + 1 \in 1..Len(w) /\ ~(Len(x) + p + 1 <= Len(x))
          /\ (Len(x) + p + 1) - Len(x) = p + 1 /\ Len(x) + p < Len(w)
      BY <1>0, <1>1, <2>2
    <3>2. w[Len(x) + p + 1] = y[p + 1]
      BY <1>1, <3>1
    <3> QED BY <1>0, <1>2, <2>2, <3>1, <3>2 DEF OnBoundary
  <2> QED BY <2>1, <2>2
<1>3. ASSUME NEW p \in 0..Len(x), OnBoundary(x, p), p < Len(x) \/ OnBoundary(y, 0)
      PROVE  OnBoundary(w, p)
  <2>1. CASE p < Len(x)
    <3>1. p + 1 \in 1..Len(w) /\ p + 1 <= Len(x) /\ p < Len(w)
      BY <1>0, <1>1, <2>1
    <3>2. w[p + 1] = x[p + 1]
      BY <1>1, <3>1
    <3> QED BY <1>0, <1>3, <2>1, <3>1, <3>2 DEF OnBoundary
  <2>2. CASE ~(p < Len(x))
    <3>1. p = Len(x) + 0 /\ 0 \in 0..Len(y)
      BY <1>0, <2>2
    <3> QED BY <1>2, <1>3, <2>2, <3>1
  <2> QED BY <2>1, <2>2
<1> QED BY <1>2, <1>3 DEF w

\* The two sides of a boundary.
LEMMA Sides ==
  ASSUME NEW t \in Seq(Byte), WellFormed(t), NEW b \in 0..Len(t), OnBoundary(t, b)
  PROVE  /\ SubSeq(t, 1, b) \in Seq(Byte) /\ Len(SubSeq(t, 1, b)) = b
         /\ SubSeq(t, b + 1, Len(t)) \in Seq(Byte)
         /\ Len(SubSeq(t, b + 1, Len(t))) = Len(t) - b
         /\ WellFormed(SubSeq(t, 1, b)) /\ WellFormed(SubSeq(t, b + 1, Len(t)))
         /\ \A p \in 0..b : OnBoundary(t, p) => OnBoundary(SubSeq(t, 1, b), p)
         /\ \A p \in b..Len(t) : OnBoundary(t, p) =>
                OnBoundary(SubSeq(t, b + 1, Len(t)), p - b)
<1> DEFINE x == SubSeq(t, 1, b)
           y == SubSeq(t, b + 1, Len(t))
<1>0. Len(t) \in Nat /\ OnBoundary(t, 0) /\ OnBoundary(t, Len(t))
  BY LenProperties, EndsAreBoundaries
<1>1. x \in Seq(Byte) /\ Len(x) = b - 1 + 1
  <2>1. 1 \in 1..(Len(t) + 1) /\ b \in (1 - 1)..Len(t)
    BY <1>0
  <2> QED BY <2>1, PieceType
<1>2. y \in Seq(Byte) /\ Len(y) = Len(t) - (b + 1) + 1
  <2>1. b + 1 \in 1..(Len(t) + 1) /\ Len(t) \in ((b + 1) - 1)..Len(t)
    BY <1>0
  <2> QED BY <2>1, PieceType
<1>3. \A j \in 1..b : x[j] = t[j]
  <2>1. \A i \in 1..b : t[i] \in Byte
    BY <1>0, ElementOfSeq
  <2>2. \A j \in 1..(b - 1 + 1) : x[j] = t[1 + j - 1]
    BY <1>0, <2>1, SubSeqProperties
  <2> QED BY <1>0, <2>2
<1>4. \A j \in 1..(Len(t) - b) : y[j] = t[b + j]
  <2>1. \A i \in (b + 1)..Len(t) : t[i] \in Byte
    BY <1>0, ElementOfSeq
  <2>2. \A j \in 1..(Len(t) - (b + 1) + 1) : y[j] = t[(b + 1) + j - 1]
    BY <1>0, <2>1, SubSeqProperties
  <2> QED BY <1>0, <2>2
<1>5. WellFormed(x) /\ WellFormed(y)
  <2>1. 0 \in 0..Len(t) /\ b \in 0..Len(t) /\ Len(t) \in b..Len(t) /\ 0 + 1 = 1
    BY <1>0
  <2>2. WellFormed(SubSeq(t, 0 + 1, b))
    BY <1>0, <2>1, CutClean
  <2>3. WellFormed(SubSeq(t, b + 1, Len(t)))
    BY <1>0, <2>1, CutClean
  <2> QED BY <2>1, <2>2, <2>3
<1> HIDE DEF x, y
<1>6. ASSUME NEW p \in 0..b, OnBoundary(t, p) PROVE OnBoundary(x, p)
  BY <1>0, <1>1, <1>3, <1>6 DEF OnBoundary
<1>7. ASSUME NEW p \in b..Len(t), OnBoundary(t, p) PROVE OnBoundary(y, p - b)
  <2>1. CASE p = Len(t)
    BY <1>0, <1>2, <2>1 DEF OnBoundary
  <2>2. CASE p # Len(t)
    <3>1. (p - b) + 1 \in 1..(Len(t) - b) /\ b + ((p - b) + 1) = p + 1 /\ p - b < Len(y)
          /\ p < Len(t)
      BY <1>0, <1>2, <2>2
    <3>2. y[(p - b) + 1] = t[p + 1]
      BY <1>4, <3>1
    <3> QED BY <1>7, <2>2, <3>1, <3>2 DEF OnBoundary
  <2> QED BY <2>1, <2>2
<1> QED BY <1>0, <1>1, <1>2, <1>5, <1>6, <1>7 DEF x, y

\* Replacing what lies between two boundaries by well-formed text.
LEMMA SpliceClean ==
  ASSUME NEW t \in Seq(Byte), WellFormed(t), NEW a \in 0..Len(t), NEW b \in a..Len(t),
         OnBoundary(t, a), OnBoundary(t, b), NEW u \in Seq(Byte), WellFormed(u)
  PROVE  /\ WellFormed(Splice(t, a, b, u))
         /\ \A p \in 0..a : OnBoundary(t, p) => OnBoundary(Splice(t, a, b, u), p)
         /\ \A p \in b..Len(t) : OnBoundary(t, p) =>
                OnBoundary(Splice(t, a, b, u), a + Len(u) + (p - b))
<1> DEFINE x == SubSeq(t, 1, a)
           y == SubSeq(t, b + 1, Len(t))
           xu == x \o u
<1>0. Len(t) \in Nat /\ Len(u) \in Nat /\ b \in 0..Len(t)
  BY LenProperties
<1>1. /\ x \in Seq(Byte) /\ Len(x) = a /\ WellFormed(x)
      /\ \A p \in 0..a : OnBoundary(t, p) => OnBoundary(x, p)
  BY Sides
<1>2. /\ y \in Seq(Byte) /\ Len(y) = Len(t) - b /\ WellFormed(y)
      /\ \A p \in b..Len(t) : OnBoundary(t, p) => OnBoundary(y, p - b)
  BY <1>0, Sides
<1> HIDE DEF x, y
<1>3. xu \in Seq(Byte) /\ Len(xu) = a + Len(u) /\ WellFormed(xu)
  BY <1>1, ConcatClean, ConcatProperties
<1>4. OnBoundary(u, 0) /\ OnBoundary(y, 0)
  BY <1>2, EndsAreBoundaries
<1>5. Splice(t, a, b, u) = xu \o y
  BY DEF Splice, x, y
<1>6. \A p \in 0..a : OnBoundary(t, p) => OnBoundary(xu, p)
  BY <1>1, <1>4, ConcatBoundary
<1> HIDE DEF xu
<1>7. WellFormed(xu \o y)
  BY <1>2, <1>3, ConcatClean
<1>8. ASSUME NEW p \in 0..a, OnBoundary(t, p) PROVE OnBoundary(xu \o y, p)
  <2>1. p \in 0..Len(xu)
    BY <1>0, <1>3
  <2> QED BY <1>2, <1>3, <1>4, <1>6, <1>8, <2>1, ConcatBoundary
<1>9. ASSUME NEW p \in b..Len(t), OnBoundary(t, p)
      PROVE  OnBoundary(xu \o y, a + Len(u) + (p - b))
  <2>1. p - b \in 0..Len(y) /\ OnBoundary(y, p - b)
    BY <1>0, <1>2, <1>9
  <2>2. OnBoundary(xu \o y, Len(xu) + (p - b))
    BY <1>2, <1>3, <2>1, ConcatBoundary
  <2> QED BY <1>3, <2>2
<1> QED BY <1>5, <1>7, <1>8, <1>9

\* Where two texts meet in a well-formed one, the first well-formed.
LEMMA JoinBoundary ==
  ASSUME NEW x \in Seq(Byte), NEW y \in Seq(Byte), WellFormed(x), WellFormed(x \o y)
  PROVE  OnBoundary(x \o y, Len(x))
<1> DEFINE w == x \o y
           m == Len(x)
<1>0. m \in Nat /\ Len(y) \in Nat
  BY LenProperties
<1>1. /\ w \in Seq(Byte) /\ Len(w) = m + Len(y)
      /\ \A i \in 1..Len(w) : w[i] = IF i <= m THEN x[i] ELSE y[i - m]
  BY ConcatProperties
<1> HIDE DEF w, m
<1> SUFFICES ASSUME m < Len(w), Utf8IsCont(w[m + 1]) PROVE FALSE
  <2>1. m = Len(w) \/ m < Len(w)
    BY <1>0, <1>1
  <2> QED BY <2>1 DEF OnBoundary, w, m
<1>2. m \in 0..(Len(w) - 1) /\ WellFormed(w)
  BY <1>0, <1>1 DEF w
<1>3. PICK q \in 0..m, n \in 1..4 : Char(w, q, n) /\ q + n > m
  BY <1>1, <1>2, WellFormedChars
<1>4. ~Utf8IsCont(w[q + 1]) /\ n = Utf8LenFromLead(w[q + 1])
  BY <1>3 DEF Char
<1>5. q < m /\ w[q + 1] = x[q + 1]
  <2>1. q # m
    BY <1>4
  <2>2. q < m /\ q + 1 \in 1..Len(w) /\ q + 1 <= m
    BY <1>0, <1>1, <2>1
  <2> QED BY <1>1, <2>2
<1>6. PICK r \in 0..q, k \in 1..4 : Char(x, r, k) /\ r + k > q
  BY <1>0, <1>5, WellFormedChars DEF m
<1>7. r = q
  <2> SUFFICES ASSUME r # q PROVE FALSE
    OBVIOUS
  <2>1. q - r \in 1..(k - 1) /\ r + (q - r) + 1 = q + 1
    BY <1>0, <1>6
  <2> QED BY <1>4, <1>5, <1>6, <2>1 DEF Char
<1>8. k = n /\ r + k <= m
  BY <1>4, <1>5, <1>6, <1>7 DEF Char, m
<1> QED BY <1>0, <1>3, <1>7, <1>8

LEMMA AsciiByte ==
  ASSUME NEW b \in 0..127
  PROVE  Utf8LenFromLead(b) = 1 /\ ~Utf8IsCont(b)
<1>1. ~(b >= 128) /\ ~(b >= 194) /\ ~(b >= 224) /\ ~(b >= 240)
  OBVIOUS
<1>2. Utf8LenFromLead(b) = 1
  BY <1>1 DEF Utf8LenFromLead
<1> QED BY <1>1, <1>2 DEF Utf8IsCont

\* After a byte of its own there is a boundary.
LEMMA AfterAscii ==
  ASSUME NEW t \in Seq(Byte), WellFormed(t), NEW m \in 1..Len(t), t[m] \in 0..127
  PROVE  OnBoundary(t, m)
<1>0. Len(t) \in Nat
  BY LenProperties
<1> SUFFICES ASSUME m < Len(t), Utf8IsCont(t[m + 1]) PROVE FALSE
  <2>1. m = Len(t) \/ m < Len(t)
    BY <1>0
  <2> QED BY <2>1 DEF OnBoundary
<1>1. m \in 0..(Len(t) - 1)
  BY <1>0
<1>2. PICK q \in 0..m, n \in 1..4 : Char(t, q, n) /\ q + n > m
  BY <1>1, WellFormedChars
<1>3. q # m
  BY <1>2 DEF Char
<1>4. CASE q = m - 1
  <2>1. t[q + 1] = t[m]
    BY <1>0, <1>4
  <2>2. n = 1
    BY <1>2, <2>1, AsciiByte DEF Char
  <2> QED BY <1>0, <1>2, <1>4, <2>2
<1>5. CASE q < m - 1
  <2>1. m - 1 - q \in 1..(n - 1) /\ q + (m - 1 - q) + 1 = m
    BY <1>0, <1>2, <1>5
  <2>2. Utf8IsCont(t[m])
    BY <1>2, <2>1 DEF Char
  <2> QED BY <2>2, AsciiByte
<1> QED BY <1>0, <1>3, <1>4, <1>5

(***************************************************************************)
(* Where the keys' targets lie.                                            *)
(***************************************************************************)

LEMMA PrevBoundaryClean ==
  ASSUME NEW t \in Seq(Byte), WellFormed(t), NEW pos \in 0..Len(t)
  PROVE  OnBoundary(t, Utf8PrevBoundary(t, pos))
<1>0. Len(t) \in Nat /\ OnBoundary(t, 0)
  BY LenProperties, EndsAreBoundaries
<1>1. CASE pos = 0
  BY <1>0, <1>1 DEF Utf8PrevBoundary
<1>2. CASE pos # 0
  <2> DEFINE S == StartsBelow(t, pos)
  <2>1. S \subseteq 0..pos /\ 0 \in S /\ pos \in Nat
    BY <1>0, <1>2 DEF StartsBelow
  <2>2. Max(S) \in S
    <3> HIDE DEF S
    <3> QED BY <2>1, MaxExists
  <2>3. Max(S) \in 0..(pos - 1) /\ (Max(S) = 0 \/ ~Utf8IsCont(t[Max(S) + 1]))
    BY <2>2 DEF StartsBelow
  <2> HIDE DEF S
  <2>4. Max(S) < Len(t)
    BY <1>0, <1>2, <2>3
  <2>5. OnBoundary(t, Max(S))
    BY <1>0, <2>3, <2>4 DEF OnBoundary
  <2> QED BY <1>2, <2>5 DEF Utf8PrevBoundary, S
<1> QED BY <1>1, <1>2

\* The character that starts at a boundary.
LEMMA CharAtBoundary ==
  ASSUME NEW t \in Seq(Byte), WellFormed(t), NEW pos \in 0..(Len(t) - 1), OnBoundary(t, pos)
  PROVE  \E n \in 1..4 : Char(t, pos, n)
<1>0. Len(t) \in Nat /\ pos \in 0..Len(t)
  <2>1. Len(t) \in Nat
    BY LenProperties
  <2> QED BY <2>1
<1>1. PICK q \in 0..pos, n \in 1..4 : Char(t, q, n) /\ q + n > pos
  BY WellFormedChars
<1>2. q + n <= pos \/ q >= pos
  BY <1>0, <1>1, CharStops
<1>3. q = pos
  BY <1>0, <1>1, <1>2
<1> QED BY <1>1, <1>3

LEMMA NextBoundaryClean ==
  ASSUME NEW t \in Seq(Byte), WellFormed(t), NEW pos \in 0..Len(t), OnBoundary(t, pos)
  PROVE  OnBoundary(t, Utf8NextBoundary(t, pos))
<1>0. Len(t) \in Nat /\ OnBoundary(t, Len(t))
  BY LenProperties, EndsAreBoundaries
<1>1. CASE pos >= Len(t)
  BY <1>0, <1>1 DEF Utf8NextBoundary
<1>2. CASE pos < Len(t)
  <2>0. pos \in 0..(Len(t) - 1)
    BY <1>0, <1>2
  <2>1. PICK n \in 1..4 : Char(t, pos, n)
    BY <2>0, CharAtBoundary
  <2>2. Utf8CharLenAt(t, pos) = n /\ pos + n <= Len(t)
    BY <2>1 DEF Char, Utf8CharLenAt
  <2>3. Utf8NextBoundary(t, pos) = pos + n
    BY <1>0, <1>2, <2>2 DEF Utf8NextBoundary
  <2>4. OnBoundary(t, pos + n)
    <3> SUFFICES ASSUME pos + n < Len(t), Utf8IsCont(t[(pos + n) + 1]) PROVE FALSE
      <4>1. pos + n = Len(t) \/ pos + n < Len(t)
        BY <1>0, <2>2
      <4> QED BY <4>1 DEF OnBoundary
    <3>1. pos + n \in 0..(Len(t) - 1)
      BY <1>0
    <3>2. PICK q \in 0..(pos + n), m \in 1..4 : Char(t, q, m) /\ q + m > pos + n
      BY <3>1, WellFormedChars
    <3>3. ~Utf8IsCont(t[q + 1])
      BY <3>2 DEF Char
    <3>4. q # pos + n
      BY <3>3
    <3>5. q >= pos
      <4>1. q + m <= pos \/ q >= pos
        BY <1>0, <3>2, CharStops
      <4> QED BY <3>2, <4>1
    <3>6. q # pos
      <4> SUFFICES ASSUME q = pos PROVE FALSE
        OBVIOUS
      <4>1. m = n
        BY <2>1, <3>2, SameChar
      <4> QED BY <3>2, <4>1
    <3>7. q - pos \in 1..(n - 1) /\ pos + (q - pos) + 1 = q + 1
      BY <3>1, <3>2, <3>4, <3>5, <3>6
    <3> QED BY <2>1, <3>3, <3>7 DEF Char
  <2> QED BY <2>3, <2>4
<1> QED BY <1>0, <1>1, <1>2

LEMMA BackOverClean ==
  ASSUME NEW t \in Seq(Byte), WellFormed(t), NEW pos \in 0..Len(t), OnBoundary(t, pos),
         NEW class
  PROVE  OnBoundary(t, BackOver(t, pos, class))
<1> DEFINE S == {p \in StartsBelow(t, pos) \cup {pos} :
                   \A q \in StartsBelow(t, pos) : q >= p => t[q + 1] \in class}
<1>0. Len(t) \in Nat /\ OnBoundary(t, 0)
  BY LenProperties, EndsAreBoundaries
<1>1. pos \in S /\ S \subseteq Nat
  BY <1>0 DEF StartsBelow
<1>2. Min(S) \in S
  <2> HIDE DEF S
  <2> QED BY <1>1, MinExists
<1>3. Min(S) = pos \/ Min(S) \in StartsBelow(t, pos)
  BY <1>2
<1> HIDE DEF S
<1>4. CASE Min(S) = pos
  BY <1>4 DEF BackOver, S
<1>5. CASE Min(S) \in StartsBelow(t, pos)
  <2>1. Min(S) \in 0..(pos - 1) /\ (Min(S) = 0 \/ ~Utf8IsCont(t[Min(S) + 1]))
    BY <1>5 DEF StartsBelow
  <2>2. Min(S) < Len(t)
    BY <1>0, <2>1
  <2>3. OnBoundary(t, Min(S))
    BY <1>0, <2>1, <2>2 DEF OnBoundary
  <2> QED BY <2>3 DEF BackOver, S
<1> QED BY <1>3, <1>4, <1>5

LEMMA PrevWordClean ==
  ASSUME NEW t \in Seq(Byte), WellFormed(t), NEW pos \in 0..Len(t), OnBoundary(t, pos)
  PROVE  OnBoundary(t, PrevWordBoundary(t, pos))
<1> DEFINE p == BackOver(t, pos, Spaces)
<1>1. p \in 0..pos /\ OnBoundary(t, p)
  BY BackOverRange, BackOverClean
<1>2. p \in 0..Len(t)
  <2>1. Len(t) \in Nat
    BY LenProperties
  <2> QED BY <1>1, <2>1
<1> HIDE DEF p
<1>3. OnBoundary(t, BackOver(t, p, Byte \ Spaces))
  BY <1>1, <1>2, BackOverClean
<1> QED BY <1>3 DEF PrevWordBoundary, p

\* A completion token starts at the line's start or behind a separator.
LEMMA TokenStartClean ==
  ASSUME NEW t \in Seq(Byte), WellFormed(t), NEW pos \in 0..Len(t)
  PROVE  OnBoundary(t, TokenStart(t, pos))
<1> DEFINE S == {p \in 0..pos :
                   \A i \in (p + 1)..pos : ~IsSpace(t[i]) /\ t[i] \notin TokenSeparators}
           m == Min(S)
<1>0. Len(t) \in Nat /\ OnBoundary(t, 0)
  BY LenProperties, EndsAreBoundaries
<1>1. pos \in S /\ S \subseteq Nat
  BY <1>0
<1>2. m \in S /\ \A y \in S : m <= y
  <2> HIDE DEF S
  <2> QED BY <1>1, MinExists
<1>3. m \in 0..pos /\ \A i \in (m + 1)..pos : ~IsSpace(t[i]) /\ t[i] \notin TokenSeparators
  BY <1>2
<1>4. m # 0 => m - 1 \notin S
  <2> HIDE DEF S
  <2>1. m \in Nat
    BY <1>3
  <2> HIDE DEF m
  <2> SUFFICES ASSUME m # 0, m - 1 \in S PROVE FALSE
    OBVIOUS
  <2>2. m <= m - 1
    BY <1>2
  <2> QED BY <2>1, <2>2
<1>5. CASE m = 0
  BY <1>0, <1>5 DEF TokenStart
<1>6. CASE m # 0
  <2> HIDE DEF m
  <2>1. IsSpace(t[m]) \/ t[m] \in TokenSeparators
    <3> SUFFICES ASSUME ~IsSpace(t[m]), t[m] \notin TokenSeparators PROVE FALSE
      OBVIOUS
    <3>1. m - 1 \in 0..pos
      BY <1>0, <1>3, <1>6
    <3>2. \A i \in ((m - 1) + 1)..pos : i = m \/ i \in (m + 1)..pos
      BY <1>0, <1>3
    <3>3. \A i \in ((m - 1) + 1)..pos : ~IsSpace(t[i]) /\ t[i] \notin TokenSeparators
      BY <1>3, <3>2
    <3> QED BY <1>4, <1>6, <3>1, <3>3
  <2>2. t[m] \in 0..127
    BY <2>1 DEF IsSpace, Spaces, TokenSeparators
  <2>3. m \in 1..Len(t)
    BY <1>0, <1>3, <1>6
  <2>4. OnBoundary(t, m)
    BY <2>2, <2>3, AfterAscii
  <2> QED BY <2>4 DEF TokenStart, m
<1> QED BY <1>5, <1>6

\* The marker of a continued line is a character of its own.
LEMMA MarkerClean ==
  ASSUME NEW t \in Seq(Byte), WellFormed(t), LineNeedsContinuation(t)
  PROVE  /\ TrimmedLen(t) \in 1..Len(t)
         /\ OnBoundary(t, TrimmedLen(t) - 1) /\ OnBoundary(t, TrimmedLen(t))
<1> DEFINE n == TrimmedLen(t)
<1>0. Len(t) \in Nat /\ n \in 0..Len(t)
  BY LenProperties, TrimmedLenRange
<1>1. n > 0 /\ t[n] = 92
  BY DEF LineNeedsContinuation, BACKSLASH
<1> HIDE DEF n
<1>2. n \in 1..Len(t) /\ t[n] \in 0..127
  BY <1>0, <1>1
<1>3. OnBoundary(t, n)
  BY <1>2, AfterAscii
<1>4. OnBoundary(t, n - 1)
  <2>1. (n - 1) + 1 = n /\ n - 1 < Len(t)
    BY <1>0, <1>2
  <2>2. ~Utf8IsCont(t[n])
    BY <1>2, AsciiByte
  <2> QED BY <2>1, <2>2 DEF OnBoundary
<1> QED BY <1>2, <1>3, <1>4 DEF n

(***************************************************************************)
(* Clean states.                                                           *)
(***************************************************************************)

\* The parts of a state that an edit of the line leaves alone.
SameKept(r, s) ==
    /\ r.nav_saved_line = s.nav_saved_line /\ r.nav_saved_cursor = s.nav_saved_cursor
    /\ r.clipboard = s.clipboard

Unselected(s) == s.sel_active = FALSE /\ s.sel_anchor_valid = FALSE

LEMMA UnselectedClean ==
  ASSUME NEW s, Unselected(s)
  PROVE  SelectionClean(s)
BY DEF Unselected, SelectionClean

LEMMA ClearFields ==
  ASSUME NEW s, Good(s)
  PROVE  /\ Unselected(SelectionClear(s)) /\ SameKept(SelectionClear(s), s)
         /\ SelectionClear(s).line = s.line /\ SelectionClear(s).cursor = s.cursor
BY DEF Good, ShellType, SelectionClear, Unselected, SameKept

LEMMA ClearClean ==
  ASSUME NEW s, Good(s), TextClean(s)
  PROVE  TextClean(SelectionClear(s)) /\ SelectionClean(SelectionClear(s))
BY ClearFields, UnselectedClean DEF TextClean, SameKept

WithLine(s, l, c) == [s EXCEPT !.line = l, !.cursor = c]

LEMMA LineFields ==
  ASSUME NEW s, Good(s), NEW l, NEW c
  PROVE  /\ WithLine(s, l, c).line = l /\ WithLine(s, l, c).cursor = c
         /\ SameKept(WithLine(s, l, c), s)
         /\ WithLine(s, l, c).sel_active = s.sel_active
         /\ WithLine(s, l, c).sel_anchor = s.sel_anchor
         /\ WithLine(s, l, c).sel_anchor_valid = s.sel_anchor_valid
BY DEF Good, ShellType, SameKept, WithLine

LEMMA CancelNavClean ==
  ASSUME NEW s, Good(s), TextClean(s)
  PROVE  /\ TextClean(HistoryCancelNav(s))
         /\ SelectionClean(s) => SelectionClean(HistoryCancelNav(s))
<1> DEFINE e == <<>>
           none == -1
           r == [s EXCEPT !.history_nav = none, !.nav_saved_line = e, !.nav_saved_cursor = 0]
<1>1. HistoryCancelNav(s) = r
  BY DEF HistoryCancelNav
<1>2. e \in Seq(Byte) /\ Len(e) = 0
  BY EmptySeq
<1> HIDE DEF e, none
<1>3. WellFormed(e) /\ OnBoundary(e, 0)
  BY <1>2, EmptyClean
<1>4. /\ r.line = s.line /\ r.cursor = s.cursor /\ r.clipboard = s.clipboard
      /\ r.nav_saved_line = e /\ r.nav_saved_cursor = 0
      /\ r.sel_active = s.sel_active /\ r.sel_start = s.sel_start /\ r.sel_end = s.sel_end
      /\ r.sel_anchor = s.sel_anchor /\ r.sel_anchor_valid = s.sel_anchor_valid
  BY DEF Good, ShellType
<1> HIDE DEF r
<1> QED BY <1>1, <1>3, <1>4 DEF TextClean, SelectionClean

\* With a clean selection the two ways to ask for one agree.
LEMMA CleanSelection ==
  ASSUME NEW s, Good(s), SelectionClean(s)
  PROVE  /\ HasSelection(s) <=> s.sel_active
         /\ s.sel_active => /\ SelectionRange(s) = <<s.sel_start, s.sel_end>>
                            /\ s.sel_start \in 0..Len(s.line)
                            /\ s.sel_end \in s.sel_start..Len(s.line)
<1>1. /\ s.sel_start \in Nat /\ s.sel_end \in Nat /\ s.sel_active \in BOOLEAN
      /\ Len(s.line) \in Nat
  BY GoodParts DEF Good, ShellType
<1>2. CASE s.sel_active
  <2>1. s.sel_start < s.sel_end /\ s.sel_end <= Len(s.line)
    BY <1>2 DEF SelectionClean
  <2>2. SelectionRange(s) = <<s.sel_start, s.sel_end>>
    BY <1>1, <1>2, <2>1 DEF SelectionRange, Lesser, Greater
  <2> QED BY <1>1, <1>2, <2>1, <2>2 DEF HasSelection
<1>3. CASE ~s.sel_active
  BY <1>1, <1>3, InactiveHasNone
<1> QED BY <1>2, <1>3

\* delete_range between two boundaries.
LEMMA DeleteRangeClean ==
  ASSUME NEW s, Good(s), TextClean(s), NEW start \in Nat, NEW end \in Nat,
         start < end /\ start < Len(s.line) =>
            OnBoundary(s.line, start) /\ OnBoundary(s.line, Lesser(end, Len(s.line)))
  PROVE  /\ TextClean(DeleteRange(s, start, end))
         /\ Unselected(DeleteRange(s, start, end))
<1> DEFINE stop == Lesser(end, Len(s.line))
           e    == <<>>
           rest == Splice(s.line, start, stop, e)
           cur  == IF s.cursor > stop THEN s.cursor - (stop - start)
                   ELSE Lesser(s.cursor, start)
           at   == Lesser(cur, Len(rest))
           t    == [s EXCEPT !.line = rest, !.cursor = at]
<1>0. /\ s.line \in Seq(Byte) /\ Len(s.line) \in Nat /\ s.cursor \in 0..Len(s.line)
  BY GoodParts
<1>1. CASE start >= end \/ start >= Len(s.line)
  <2>1. DeleteRange(s, start, end) = SelectionClear(s)
    BY <1>1 DEF DeleteRange
  <2> QED BY <2>1, ClearClean, ClearFields
<1>2. CASE ~(start >= end \/ start >= Len(s.line))
  <2>0. OnBoundary(s.line, start) /\ OnBoundary(s.line, stop)
    BY <1>0, <1>2
  <2>1. start \in 0..Len(s.line) /\ stop \in start..Len(s.line) /\ start < stop
    BY <1>0, <1>2 DEF Lesser
  <2>2. e \in Seq(Byte) /\ Len(e) = 0 /\ WellFormed(e)
    BY EmptySeq, EmptyClean
  <2>3. WellFormed(s.line) /\ OnBoundary(s.line, s.cursor)
    BY DEF TextClean
  <2>4. DeleteRange(s, start, end) = SelectionClear(t)
    BY <1>2 DEF DeleteRange
  <2>4a. cur = IF s.cursor > stop THEN s.cursor - (stop - start) ELSE Lesser(s.cursor, start)
    OBVIOUS
  <2> HIDE DEF stop, e, cur
  <2>5. rest \in Seq(Byte) /\ Len(rest) = start + (Len(s.line) - stop)
    <3>1. rest \in Seq(Byte) /\ Len(rest) = start + Len(e) + (Len(s.line) - stop)
      BY <1>0, <2>1, <2>2, SpliceType
    <3> QED BY <1>0, <2>1, <2>2, <3>1
  <2>6. /\ WellFormed(rest)
        /\ \A p \in 0..start : OnBoundary(s.line, p) => OnBoundary(rest, p)
        /\ \A p \in stop..Len(s.line) : OnBoundary(s.line, p) =>
               OnBoundary(rest, start + Len(e) + (p - stop))
    BY <1>0, <2>0, <2>1, <2>2, <2>3, SpliceClean
  <2> HIDE DEF rest
  <2>7. cur \in 0..Len(rest) /\ OnBoundary(rest, cur)
    <3>1. CASE s.cursor > stop
      <4>1. s.cursor \in stop..Len(s.line) /\ cur = start + Len(e) + (s.cursor - stop)
            /\ cur \in 0..Len(rest)
        BY <1>0, <2>1, <2>2, <2>4a, <2>5, <3>1
      <4> QED BY <2>3, <2>6, <4>1
    <3>2. CASE ~(s.cursor > stop) /\ s.cursor <= start
      <4>1. s.cursor \in 0..start /\ cur = s.cursor /\ cur \in 0..Len(rest)
        BY <1>0, <2>1, <2>4a, <2>5, <3>2 DEF Lesser
      <4> QED BY <2>3, <2>6, <4>1
    <3>3. CASE ~(s.cursor > stop) /\ ~(s.cursor <= start)
      <4>1. start \in 0..start /\ cur = start /\ cur \in 0..Len(rest)
        BY <1>0, <2>1, <2>4a, <2>5, <3>3 DEF Lesser
      <4> QED BY <2>0, <2>6, <4>1
    <3> QED BY <3>1, <3>2, <3>3
  <2>8. at = cur /\ Len(rest) < LINE_MAX
    <3>1. Len(rest) \in Nat /\ LINE_MAX \in Nat /\ Len(s.line) < LINE_MAX
      BY <2>5, LenProperties, GoodParts DEF Good
    <3> QED BY <1>0, <2>1, <2>5, <2>7, <3>1 DEF Lesser
  <2> HIDE DEF at
  <2>9. /\ Good(t) /\ t.line = rest /\ t.cursor = at /\ SameKept(t, s)
    <3>1. at \in 0..Len(rest)
      BY <2>7, <2>8
    <3>2. Good(t)
      BY <2>5, <2>8, <3>1, SetLineGood
    <3>3. t = WithLine(s, rest, at)
      BY DEF WithLine
    <3> HIDE DEF t
    <3>4. t.line = rest /\ t.cursor = at /\ SameKept(t, s)
      BY <3>3, LineFields
    <3> QED BY <3>2, <3>4
  <2> HIDE DEF t
  <2>10. TextClean(t)
    BY <2>6, <2>7, <2>8, <2>9 DEF TextClean, SameKept
  <2> QED BY <2>4, <2>9, <2>10, ClearClean, ClearFields
<1> QED BY <1>1, <1>2

LEMMA DeleteSelectionClean ==
  ASSUME NEW s, Good(s), TextClean(s), SelectionClean(s)
  PROVE  /\ TextClean(DeleteSelection(s)) /\ SelectionClean(DeleteSelection(s))
         /\ DeleteSelection(s).sel_active = FALSE
<1>1. CASE s.sel_active
  <2>1. /\ HasSelection(s) /\ SelectionRange(s) = <<s.sel_start, s.sel_end>>
        /\ s.sel_start \in Nat /\ s.sel_end \in Nat
    BY <1>1, CleanSelection DEF Good, ShellType
  <2>2. DeleteSelection(s) = DeleteRange(s, s.sel_start, s.sel_end)
    BY <2>1 DEF DeleteSelection
  <2>3. /\ OnBoundary(s.line, s.sel_start) /\ OnBoundary(s.line, s.sel_end)
        /\ Lesser(s.sel_end, Len(s.line)) = s.sel_end
    BY <1>1 DEF SelectionClean, Lesser
  <2>4. /\ TextClean(DeleteSelection(s)) /\ Unselected(DeleteSelection(s))
    BY <2>1, <2>2, <2>3, DeleteRangeClean
  <2> QED BY <2>4, UnselectedClean DEF Unselected
<1>2. CASE ~s.sel_active
  <2>1. DeleteSelection(s) = s
    BY <1>2, CleanSelection DEF DeleteSelection
  <2>2. s.sel_active = FALSE
    BY <1>2 DEF Good, ShellType
  <2> QED BY <2>1, <2>2
<1> QED BY <1>1, <1>2

\* Text put between two well-formed parts: the seams are boundaries.
LEMMA SeamBoundaries ==
  ASSUME NEW x \in Seq(Byte), NEW u \in Seq(Byte), NEW y \in Seq(Byte),
         WellFormed(x), WellFormed(y), WellFormed((x \o u) \o y)
  PROVE  /\ OnBoundary((x \o u) \o y, Len(x) + Len(u))
         /\ \A p \in 0..Len(x) : OnBoundary(x, p) => OnBoundary((x \o u) \o y, p)
         /\ Len((x \o u) \o y) = Len(x) + Len(u) + Len(y)
<1>1. /\ x \o u \in Seq(Byte) /\ Len(x \o u) = Len(x) + Len(u)
      /\ Len(x) \in Nat /\ Len(u) \in Nat /\ Len(y) \in Nat
  BY ConcatProperties, LenProperties
<1>2. u \o y \in Seq(Byte)
  BY ConcatProperties
<1>3. (x \o u) \o y = x \o (u \o y)
  BY ConcatAssociative
<1>4. OnBoundary(x \o (u \o y), Len(x))
  BY <1>2, <1>3, JoinBoundary
<1>5. OnBoundary((x \o u) \o y, Len(x \o u) + 0)
  <2>1. OnBoundary(y, 0) /\ 0 \in 0..Len(y)
    BY <1>1, EndsAreBoundaries
  <2> QED BY <1>1, <2>1, ConcatBoundary
<1>6. ASSUME NEW p \in 0..Len(x), OnBoundary(x, p)
      PROVE  OnBoundary((x \o u) \o y, p)
  <2>1. CASE p < Len(x)
    BY <1>2, <1>3, <1>6, <2>1, ConcatBoundary
  <2>2. CASE p = Len(x)
    BY <1>3, <1>4, <2>2
  <2> QED BY <1>1, <2>1, <2>2
<1>7. Len((x \o u) \o y) = Len(x \o u) + Len(y)
  BY <1>1, ConcatProperties
<1>8. Len(x \o u) + 0 = Len(x) + Len(u)
  BY <1>1
<1> QED BY <1>1, <1>5, <1>6, <1>7, <1>8

LEMMA InsertBoundaries ==
  ASSUME NEW t \in Seq(Byte), WellFormed(t), NEW c \in 0..Len(t), OnBoundary(t, c),
         NEW u \in Seq(Byte), WellFormed(Splice(t, c, c, u))
  PROVE  /\ OnBoundary(Splice(t, c, c, u), c + Len(u))
         /\ \A p \in 0..c : OnBoundary(t, p) => OnBoundary(Splice(t, c, c, u), p)
         /\ Len(Splice(t, c, c, u)) = Len(t) + Len(u)
<1> DEFINE x == SubSeq(t, 1, c)
           y == SubSeq(t, c + 1, Len(t))
<1>1. /\ x \in Seq(Byte) /\ Len(x) = c /\ WellFormed(x)
      /\ y \in Seq(Byte) /\ Len(y) = Len(t) - c /\ WellFormed(y)
      /\ \A p \in 0..c : OnBoundary(t, p) => OnBoundary(x, p)
  BY Sides
<1>2. Splice(t, c, c, u) = (x \o u) \o y
  BY DEF Splice
<1>3. c \in Nat /\ Len(t) \in Nat /\ Len(u) \in Nat
  BY LenProperties
<1> HIDE DEF x, y
<1>3a. WellFormed((x \o u) \o y)
  BY <1>2
<1>4. /\ OnBoundary((x \o u) \o y, Len(x) + Len(u))
      /\ \A p \in 0..Len(x) : OnBoundary(x, p) => OnBoundary((x \o u) \o y, p)
      /\ Len((x \o u) \o y) = Len(x) + Len(u) + Len(y)
  <2> HIDE DEF x, y
  <2>1. x \in Seq(Byte) /\ y \in Seq(Byte) /\ WellFormed(x) /\ WellFormed(y)
    BY <1>1
  <2> QED BY ONLY <2>1, <1>3a, u \in Seq(Byte), SeamBoundaries
<1> QED BY <1>1, <1>2, <1>3, <1>4

\* insert_text without a selection, when the new line is well-formed.
LEMMA InsertTextClean ==
  ASSUME NEW s, Good(s), TextClean(s), SelectionClean(s), s.sel_active = FALSE,
         NEW text \in Seq(Byte), WellFormed(InsertText(s, text).line)
  PROVE  TextClean(InsertText(s, text)) /\ SelectionClean(InsertText(s, text))
<1> DEFINE c == s.cursor
           l == s.line
           fit == Lesser(Len(text), (LINE_MAX - 1) - Len(l))
           u == SubSeq(text, 1, fit)
           w == Splice(l, c, c, u)
           past == c + fit
           r == WithLine(s, w, past)
<1>0. /\ l \in Seq(Byte) /\ Len(l) \in Nat /\ c \in 0..Len(l)
      /\ LINE_MAX \in Nat /\ Len(l) < LINE_MAX
  BY GoodParts DEF Good
<1>1. InsertText(s, text) = r
  BY <1>0 DEF InsertText, Lesser, WithLine
<1>2. u \in Seq(Byte) /\ Len(u) = fit /\ fit \in Nat
  <2>1. Len(text) \in Nat
    BY LenProperties
  <2>2. fit \in 0..Len(text)
    BY <1>0, <2>1, InsertRoom
  <2> HIDE DEF fit
  <2> QED BY <2>1, <2>2, PieceType
<1>3. WellFormed(l) /\ OnBoundary(l, c)
  BY DEF TextClean
<1> HIDE DEF fit, u
<1>4. s.sel_anchor_valid =>
         s.sel_anchor \in 0..c /\ OnBoundary(l, s.sel_anchor)
  BY <1>0 DEF SelectionClean, Good, ShellType
<1> HIDE DEF w, past, r
<1>5. /\ r.line = w /\ r.cursor = past /\ SameKept(r, s)
      /\ r.sel_active = FALSE /\ r.sel_anchor = s.sel_anchor
      /\ r.sel_anchor_valid = s.sel_anchor_valid
  BY LineFields DEF r
<1>6. WellFormed(w)
  BY <1>1, <1>5
<1>7. past = c + Len(u)
  BY <1>2 DEF past
<1> HIDE DEF c, l
<1>8. /\ OnBoundary(w, c + Len(u)) /\ Len(w) = Len(l) + Len(u)
      /\ \A p \in 0..c : OnBoundary(l, p) => OnBoundary(w, p)
  BY <1>0, <1>2, <1>3, <1>6, InsertBoundaries DEF w
<1>9. TextClean(r)
  BY <1>5, <1>6, <1>7, <1>8 DEF TextClean, SameKept
<1>10. SelectionClean(r)
  <2>1. ASSUME s.sel_anchor_valid
        PROVE  s.sel_anchor <= Len(w) /\ OnBoundary(w, s.sel_anchor) /\ s.sel_anchor <= past
    BY <1>0, <1>2, <1>4, <1>7, <1>8, <2>1
  <2> QED BY <1>5, <2>1 DEF SelectionClean
<1> QED BY <1>1, <1>9, <1>10

\* insert_text of well-formed text that the line has room for.
LEMMA InsertWholeClean ==
  ASSUME NEW s, Good(s), TextClean(s), NEW text \in Seq(Byte), WellFormed(text),
         Len(InsertText(s, text).line) < LINE_MAX - 1
  PROVE  WellFormed(InsertText(s, text).line)
<1> DEFINE c == s.cursor
           l == s.line
           fit == Lesser(Len(text), (LINE_MAX - 1) - Len(l))
           u == SubSeq(text, 1, fit)
           w == Splice(l, c, c, u)
           past == c + fit
           r == WithLine(s, w, past)
<1>0. /\ l \in Seq(Byte) /\ Len(l) \in Nat /\ c \in 0..Len(l) /\ Len(text) \in Nat
      /\ LINE_MAX \in Nat /\ Len(l) < LINE_MAX
  BY GoodParts, LenProperties DEF Good
<1>1. InsertText(s, text) = r
  BY <1>0 DEF InsertText, Lesser, WithLine
<1>2. fit \in 0..Len(text)
  BY <1>0, InsertRoom
<1>3. fit = Len(text) \/ fit = (LINE_MAX - 1) - Len(l)
  BY <1>0 DEF Lesser
<1> HIDE DEF fit
<1>4. u \in Seq(Byte) /\ Len(u) = fit
  BY <1>0, <1>2, PieceType
<1>5. Len(w) = c + Len(u) + (Len(l) - c)
  <2>1. c \in 0..Len(l) /\ c \in c..Len(l)
    BY <1>0
  <2> HIDE DEF u
  <2> QED BY <1>0, <1>4, <2>1, SpliceType
<1> HIDE DEF u, w, past, r
<1>6. r.line = w
  BY LineFields DEF r
<1>7. fit = Len(text)
  <2>1. Len(w) = Len(l) + fit
    BY <1>0, <1>2, <1>4, <1>5
  <2>2. Len(w) < LINE_MAX - 1
    BY <1>1, <1>6
  <2> QED BY <1>0, <1>2, <1>3, <2>1, <2>2
<1>8. u = text
  BY <1>7, SubSeqFull DEF u
<1>9. WellFormed(l) /\ OnBoundary(l, c)
  BY DEF TextClean
<1>10. WellFormed(w)
  <2>1. c \in c..Len(l)
    BY <1>0
  <2> QED BY <1>0, <1>8, <1>9, <2>1, SpliceClean DEF w
<1> QED BY <1>1, <1>6, <1>10

LEMMA SpaceClean == <<SPACE>> \in Seq(Byte) /\ Len(<<SPACE>>) = 1 /\ WellFormed(<<SPACE>>)
<1>1. <<SPACE>> \in Seq(Byte) /\ Len(<<SPACE>>) = 1 /\ <<SPACE>>[1] = SPACE
  BY DEF SPACE, Byte
<1>2. SPACE \in 0..127
  BY DEF SPACE
<1>3. Utf8LenFromLead(SPACE) = 1 /\ ~Utf8IsCont(SPACE)
  BY <1>2, AsciiByte
<1> DEFINE t == <<SPACE>>
<1>4. Len(t) = 1 /\ t[1] = SPACE /\ t \in Seq(Byte)
  BY <1>1
<1> HIDE DEF t
<1>5. Char(t, 0, 1)
  BY <1>3, <1>4 DEF Char
<1>6. \A p \in 0..(Len(t) - 1) : \E q \in 0..p, n \in 1..4 : Char(t, q, n) /\ q + n > p
  <2> SUFFICES ASSUME NEW p \in 0..(Len(t) - 1)
               PROVE  \E q \in 0..p, n \in 1..4 : Char(t, q, n) /\ q + n > p
    OBVIOUS
  <2>1. p = 0
    BY <1>4
  <2> QED BY <1>5, <2>1
<1>7. WellFormed(t)
  BY <1>4, <1>6, WellFormedChars
<1> QED BY <1>1, <1>7 DEF t

LEMMA CopyRangeClean ==
  ASSUME NEW s, Good(s), TextClean(s), NEW start \in 0..Len(s.line),
         NEW end \in start..Len(s.line), OnBoundary(s.line, start), OnBoundary(s.line, end)
  PROVE  /\ TextClean(CopyRange(s, start, end))
         /\ SelectionClean(s) => SelectionClean(CopyRange(s, start, end))
<1> DEFINE x == SubSeq(s.line, start + 1, end)
           r == [s EXCEPT !.clipboard = x]
<1>1. /\ s.line \in Seq(Byte) /\ Len(s.line) \in Nat /\ LINE_MAX \in Nat
      /\ Len(s.line) < LINE_MAX
  BY GoodParts DEF Good
<1>2. Lesser(end, start + LINE_MAX - 1) = end
  BY <1>1 DEF Lesser
<1>3. CopyRange(s, start, end) = r
  BY <1>2 DEF CopyRange
<1>4. WellFormed(x)
  BY <1>1, CutClean DEF TextClean
<1> HIDE DEF x
<1>5. /\ r.line = s.line /\ r.cursor = s.cursor /\ r.clipboard = x
      /\ r.nav_saved_line = s.nav_saved_line /\ r.nav_saved_cursor = s.nav_saved_cursor
      /\ r.sel_active = s.sel_active /\ r.sel_start = s.sel_start /\ r.sel_end = s.sel_end
      /\ r.sel_anchor = s.sel_anchor /\ r.sel_anchor_valid = s.sel_anchor_valid
  BY DEF Good, ShellType
<1> HIDE DEF r
<1> QED BY <1>3, <1>4, <1>5 DEF TextClean, SelectionClean

LEMMA CutRangeClean ==
  ASSUME NEW s, Good(s), TextClean(s), NEW start \in 0..Len(s.line),
         NEW end \in start..Len(s.line), OnBoundary(s.line, start), OnBoundary(s.line, end)
  PROVE  /\ TextClean(CutRangeToClipboard(s, start, end))
         /\ SelectionClean(CutRangeToClipboard(s, start, end))
<1> DEFINE t == CopyRange(s, start, end)
<1>1. Good(t) /\ TextClean(t) /\ t.line = s.line
  BY CopyRangeGood, CopyRangeClean
<1>2. Len(s.line) \in Nat
  BY GoodParts
<1>3. start \in Nat /\ end \in Nat /\ Lesser(end, Len(s.line)) = end
  BY <1>2 DEF Lesser
<1> HIDE DEF t
<1>4. TextClean(DeleteRange(t, start, end)) /\ Unselected(DeleteRange(t, start, end))
  BY <1>1, <1>3, DeleteRangeClean
<1> QED BY <1>4, UnselectedClean DEF CutRangeToClipboard, t

\* replace_range_raw between two boundaries, when the text is not cut.
LEMMA ReplaceClean ==
  ASSUME NEW s, Good(s), TextClean(s), NEW start \in 0..Len(s.line),
         NEW end \in start..Len(s.line), OnBoundary(s.line, start), OnBoundary(s.line, end),
         NEW text \in Seq(Byte), WellFormed(text),
         Len(ReplaceRangeRaw(s, start, end, text).line) < LINE_MAX - 1
  PROVE  /\ TextClean(ReplaceRangeRaw(s, start, end, text))
         /\ Unselected(ReplaceRangeRaw(s, start, end, text))
<1> DEFINE tail == Len(s.line) - end
           fit  == IF start + Len(text) + tail >= LINE_MAX
                   THEN Greater(0, LINE_MAX - 1 - start - tail)
                   ELSE Len(text)
           u    == SubSeq(text, 1, fit)
           l    == Splice(s.line, start, end, u)
           past == start + fit
           t    == WithLine(s, l, past)
<1>0. /\ s.line \in Seq(Byte) /\ Len(s.line) \in Nat /\ LINE_MAX \in Nat
      /\ Len(s.line) < LINE_MAX /\ Len(text) \in Nat
  BY GoodParts, LenProperties DEF Good
<1>1. tail \in Nat /\ start \in Nat /\ end \in Nat /\ start + tail < LINE_MAX
      /\ start <= end /\ end <= Len(s.line)
  BY <1>0
<1>2. ReplaceRangeRaw(s, start, end, text) = SelectionClear(t)
  BY <1>1 DEF ReplaceRangeRaw, WithLine
<1> HIDE DEF tail
<1>3. fit \in 0..Len(text) /\ start + fit + tail < LINE_MAX
  BY <1>0, <1>1, ReplaceRoom
<1>4. fit = Len(text) \/ start + fit + tail = LINE_MAX - 1
  BY <1>0, <1>1 DEF Greater
<1> HIDE DEF fit
<1>5. u \in Seq(Byte) /\ Len(u) = fit
  BY <1>0, <1>3, PieceType
<1> HIDE DEF u
<1>6. l \in Seq(Byte) /\ Len(l) = start + Len(u) + (Len(s.line) - end)
  BY <1>0, <1>5, SpliceType
<1>7. Len(l) = start + fit + tail /\ Len(l) < LINE_MAX /\ past \in 0..Len(l)
  <2>1. Len(s.line) - end = tail /\ fit \in Nat
    BY <1>0, <1>3 DEF tail
  <2> HIDE DEF l
  <2>2. Len(l) = start + fit + tail
    BY <1>5, <1>6, <2>1
  <2> QED BY <1>0, <1>1, <1>3, <2>1, <2>2
<1> HIDE DEF l, past
<1>8. /\ Good(t) /\ t.line = l /\ t.cursor = past /\ SameKept(t, s)
  <2>1. Good(t)
    BY <1>6, <1>7, SetLineGood DEF WithLine
  <2> HIDE DEF t
  <2>2. t.line = l /\ t.cursor = past /\ SameKept(t, s)
    BY LineFields DEF t
  <2> QED BY <2>1, <2>2
<1> HIDE DEF t
<1>9. fit = Len(text)
  <2>1. Len(l) < LINE_MAX - 1
    BY <1>2, <1>8, SelectionClearGood
  <2> QED BY <1>0, <1>3, <1>4, <1>7, <2>1
<1>10. u = text
  BY <1>9, SubSeqFull DEF u
<1>11. WellFormed(s.line)
  BY DEF TextClean
<1>12. /\ WellFormed(l)
       /\ \A p \in end..Len(s.line) : OnBoundary(s.line, p) =>
              OnBoundary(l, start + Len(text) + (p - end))
  BY <1>0, <1>10, <1>11, SpliceClean DEF l
<1>13. OnBoundary(l, past)
  <2>1. end \in end..Len(s.line) /\ start + Len(text) + (end - end) = past
    BY <1>0, <1>1, <1>9 DEF past
  <2> QED BY <1>12, <2>1
<1>14. TextClean(t)
  BY <1>8, <1>12, <1>13 DEF TextClean, SameKept
<1> QED BY <1>2, <1>8, <1>14, ClearClean, ClearFields

CleanState(s) == TextClean(s) /\ SelectionClean(s)

HistoryClean(s) == \A i \in 1..Len(s.history) : WellFormed(s.history[i])

\* A cursor put on a boundary.
LEMMA CursorClean ==
  ASSUME NEW s, Good(s), TextClean(s), NEW c \in 0..Len(s.line), OnBoundary(s.line, c)
  PROVE  /\ TextClean([s EXCEPT !.cursor = c])
         /\ Unselected(s) => Unselected([s EXCEPT !.cursor = c])
<1> DEFINE r == [s EXCEPT !.cursor = c]
<1>1. /\ r.line = s.line /\ r.cursor = c /\ SameKept(r, s)
      /\ r.sel_active = s.sel_active /\ r.sel_anchor_valid = s.sel_anchor_valid
  BY DEF Good, ShellType, SameKept
<1> HIDE DEF r
<1>2. TextClean(r) /\ (Unselected(s) => Unselected(r))
  BY <1>1 DEF TextClean, SameKept, Unselected
<1> QED BY <1>2 DEF r

LEMMA ResetClean ==
  ASSUME NEW s, Good(s), TextClean(s)
  PROVE  TextClean(ResetLine(s)) /\ Unselected(ResetLine(s))
<1> DEFINE e == <<>>
           t == WithLine(s, e, 0)
<1>1. e \in Seq(Byte) /\ Len(e) = 0 /\ LINE_MAX > 0
  BY EmptySeq, GoodParts
<1>2. ResetLine(s) = SelectionClear(t)
  BY DEF ResetLine, WithLine
<1> HIDE DEF e
<1>3. Good(t)
  <2>1. 0 \in 0..Len(e) /\ Len(e) < LINE_MAX
    BY <1>1
  <2> QED BY <1>1, <2>1, SetLineGood DEF WithLine
<1> HIDE DEF t
<1>4. t.line = e /\ t.cursor = 0 /\ SameKept(t, s)
  BY LineFields DEF t
<1>5. TextClean(t)
  BY <1>1, <1>4, EmptyClean DEF TextClean, SameKept
<1> QED BY <1>2, <1>3, <1>5, ClearClean, ClearFields

LEMMA PushClean ==
  ASSUME NEW s, Good(s), TextClean(s)
  PROVE  TextClean(HistoryPush(s))
<1> DEFINE h == HistoryPushMemory(s.history, CStr(s.line))
           e == <<>>
           none == -1
           t == [s EXCEPT !.history = h]
           r == [t EXCEPT !.history_nav = none, !.nav_saved_line = e, !.nav_saved_cursor = 0]
<1>1. HistoryPush(s) = r
  BY DEF HistoryPush, HistoryCancelNav
<1>2. e \in Seq(Byte) /\ Len(e) = 0
  BY EmptySeq
<1> HIDE DEF e, none, h
<1>3. /\ r.line = s.line /\ r.cursor = s.cursor /\ r.clipboard = s.clipboard
      /\ r.nav_saved_line = e /\ r.nav_saved_cursor = 0
  BY DEF Good, ShellType
<1>4. WellFormed(e) /\ OnBoundary(e, 0)
  BY <1>2, EmptyClean
<1> HIDE DEF t, r
<1> QED BY <1>1, <1>3, <1>4 DEF TextClean

LEMMA SelectAllClean ==
  ASSUME NEW s, Good(s), TextClean(s)
  PROVE  CleanState([SelectionSelectAll(s) EXCEPT !.cursor = Len(s.line)])
<1> DEFINE n == Len(s.line)
           a == [s EXCEPT !.sel_active = TRUE, !.sel_start = 0, !.sel_end = n,
                          !.sel_anchor = 0, !.sel_anchor_valid = TRUE]
           r == [a EXCEPT !.cursor = n]
<1>0. s.line \in Seq(Byte) /\ n \in Nat
  BY GoodParts
<1>1. OnBoundary(s.line, 0) /\ OnBoundary(s.line, n)
  BY <1>0, EndsAreBoundaries DEF TextClean
<1>2. CASE s.line = <<>>
  <2> DEFINE k == SelectionClear(s)
  <2>1. Good(k) /\ TextClean(k) /\ Unselected(k) /\ k.line = s.line
    BY ClearClean, ClearFields, SelectionClearGood
  <2>2. SelectionSelectAll(s) = k
    BY <1>2 DEF SelectionSelectAll
  <2> HIDE DEF k
  <2>3. n \in 0..Len(k.line) /\ OnBoundary(k.line, n)
    BY <1>0, <1>1, <2>1
  <2> HIDE DEF n
  <2>4. TextClean([k EXCEPT !.cursor = n]) /\ Unselected([k EXCEPT !.cursor = n])
    BY <2>1, <2>3, CursorClean
  <2> QED BY <2>2, <2>4, UnselectedClean DEF CleanState, n
<1>3. CASE s.line # <<>>
  <2>1. [SelectionSelectAll(s) EXCEPT !.cursor = n] = r
    BY <1>3 DEF SelectionSelectAll
  <2>2. n > 0
    BY <1>0, <1>3, EmptySeq
  <2> HIDE DEF n
  <2>3. /\ r.line = s.line /\ r.cursor = n /\ SameKept(r, s)
        /\ r.sel_active = TRUE /\ r.sel_start = 0 /\ r.sel_end = n
        /\ r.sel_anchor = 0 /\ r.sel_anchor_valid = TRUE
    BY DEF Good, ShellType, SameKept
  <2> HIDE DEF a, r
  <2>4. TextClean(r)
    BY <1>1, <2>3 DEF TextClean, SameKept
  <2>5. n <= Len(r.line) /\ 0 <= Len(r.line)
    BY <1>0, <2>3 DEF n
  <2>6. SelectionClean(r)
    BY <1>1, <2>2, <2>3, <2>5 DEF SelectionClean
  <2> QED BY <2>1, <2>4, <2>6 DEF CleanState, n
<1> QED BY <1>2, <1>3

\* A shifted move: the selection runs from the anchor to the new cursor.
LEMMA ShiftClean ==
  ASSUME NEW s, Good(s), CleanState(s), NEW target \in 0..Len(s.line),
         OnBoundary(s.line, target),
         NEW t, t = IF s.sel_anchor_valid THEN s
                    ELSE [s EXCEPT !.sel_anchor = s.cursor, !.sel_anchor_valid = TRUE]
  PROVE  CleanState(SelectionUpdateFromAnchor([t EXCEPT !.cursor = target]))
<1> DEFINE u == [t EXCEPT !.cursor = target]
           g == Lesser(u.sel_anchor, Len(u.line))
           on == target # g
           lo == Lesser(target, g)
           hi == Greater(target, g)
           r == [u EXCEPT !.sel_active = on, !.sel_start = lo, !.sel_end = hi]
<1>0. s.line \in Seq(Byte) /\ Len(s.line) \in Nat /\ s.cursor \in 0..Len(s.line)
  BY GoodParts
<1>1. /\ t \in ShellType /\ t.line = s.line /\ t.cursor = s.cursor /\ SameKept(t, s)
      /\ t.sel_anchor \in 0..Len(s.line) /\ OnBoundary(s.line, t.sel_anchor)
      /\ t.sel_anchor_valid
  <2>1. CASE s.sel_anchor_valid
    <3>1. t = s
      BY <2>1
    <3> QED BY <1>0, <2>1, <3>1 DEF CleanState, SelectionClean, Good, ShellType, SameKept
  <2>2. CASE ~s.sel_anchor_valid
    <3>1. t = [s EXCEPT !.sel_anchor = s.cursor, !.sel_anchor_valid = TRUE]
      BY <2>2
    <3>2. /\ t \in ShellType /\ t.line = s.line /\ t.cursor = s.cursor /\ SameKept(t, s)
          /\ t.sel_anchor = s.cursor /\ t.sel_anchor_valid
      BY <1>0, <3>1 DEF Good, ShellType, SameKept
    <3> QED BY <1>0, <3>2 DEF CleanState, TextClean
  <2> QED BY <2>1, <2>2
<1>2. /\ u \in ShellType /\ u.line = s.line /\ u.cursor = target /\ SameKept(u, s)
      /\ u.sel_anchor = t.sel_anchor /\ u.sel_anchor_valid
  <2>1. target \in Nat /\ t \in ShellType
    BY <1>0, <1>1
  <2>2. /\ u \in ShellType /\ u.line = t.line /\ u.cursor = target /\ SameKept(u, t)
        /\ u.sel_anchor = t.sel_anchor /\ u.sel_anchor_valid = t.sel_anchor_valid
    BY ONLY <2>1 DEF ShellType, SameKept
  <2> QED BY <1>1, <2>2 DEF SameKept
<1> HIDE DEF u
<1>3. g = t.sel_anchor /\ g \in 0..Len(s.line) /\ OnBoundary(s.line, g)
  BY <1>0, <1>1, <1>2 DEF Lesser
<1>4. SelectionUpdateFromAnchor(u) = r
  BY <1>2 DEF SelectionUpdateFromAnchor
<1> HIDE DEF g
<1>5. /\ on => lo < hi
      /\ lo \in 0..Len(s.line) /\ hi \in 0..Len(s.line)
      /\ OnBoundary(s.line, lo) /\ OnBoundary(s.line, hi)
      /\ on \in BOOLEAN /\ (~on => g <= target)
  BY <1>0, <1>3 DEF Lesser, Greater
<1> HIDE DEF on, lo, hi
<1>6. /\ r.line = s.line /\ r.cursor = target /\ SameKept(r, s)
      /\ r.sel_active = on /\ r.sel_start = lo /\ r.sel_end = hi
      /\ r.sel_anchor = g /\ r.sel_anchor_valid
  BY <1>2, <1>3, <1>5 DEF ShellType, SameKept
<1> HIDE DEF r
<1>7. TextClean(r)
  BY <1>6 DEF CleanState, TextClean, SameKept
<1>8. SelectionClean(r)
  BY <1>0, <1>3, <1>5, <1>6 DEF SelectionClean
<1> QED BY <1>4, <1>7, <1>8 DEF CleanState, u

\* A history entry or the draft put on the line.
LEMMA LoadClean ==
  ASSUME NEW s, Good(s), TextClean(s), NEW i \in 1..Len(s.history),
         WellFormed(s.history[i])
  PROVE  /\ TextClean(LoadLine(s, s.history[i]))
         /\ Unselected(s) => Unselected(LoadLine(s, s.history[i]))
<1> DEFINE l == CStr(s.history[i])
           n == Len(l)
           r == WithLine(s, l, n)
<1>1. LoadLine(s, s.history[i]) = r
  BY DEF LoadLine, WithLine
<1>2. Good(r) /\ r.line = s.history[i]
  BY <1>1, LoadLineGood
<1> HIDE DEF l, n, r
<1>3. /\ r.line = l /\ r.cursor = n /\ SameKept(r, s)
      /\ r.sel_active = s.sel_active /\ r.sel_anchor_valid = s.sel_anchor_valid
  BY LineFields DEF r
<1>4. WellFormed(r.line) /\ OnBoundary(r.line, n)
  BY <1>2, <1>3, GoodParts, EndsAreBoundaries DEF n
<1> QED BY <1>1, <1>3, <1>4 DEF TextClean, SameKept, Unselected

LEMMA ApplyCurrentClean ==
  ASSUME NEW s, Good(s), TextClean(s), HistoryClean(s), Unselected(s)
  PROVE  TextClean(HistoryApplyCurrent(s)) /\ Unselected(HistoryApplyCurrent(s))
<1>0. /\ s.history_nav \in -1..(Len(s.history) - 1) /\ Len(s.history) \in Nat
      /\ Len(s.nav_saved_line) \in Nat /\ s.nav_saved_cursor \in Nat
      /\ s.nav_saved_cursor <= Len(s.nav_saved_line)
  BY GoodParts DEF Good, ShellType
<1>1. CASE s.history_nav >= 0
  <2>1. s.history_nav + 1 \in 1..Len(s.history)
    BY <1>0, <1>1
  <2>2. HistoryApplyCurrent(s) = LoadLine(s, s.history[s.history_nav + 1])
    BY <1>1 DEF HistoryApplyCurrent
  <2> QED BY <2>1, <2>2, LoadClean DEF HistoryClean
<1>2. CASE ~(s.history_nav >= 0)
  <2> DEFINE r == WithLine(s, s.nav_saved_line, s.nav_saved_cursor)
  <2>1. Lesser(s.nav_saved_cursor, Len(s.nav_saved_line)) = s.nav_saved_cursor
    BY <1>0 DEF Lesser
  <2>2. HistoryApplyCurrent(s) = r
    BY <1>2, <2>1 DEF HistoryApplyCurrent, WithLine
  <2> HIDE DEF r
  <2>3. /\ r.line = s.nav_saved_line /\ r.cursor = s.nav_saved_cursor /\ SameKept(r, s)
        /\ r.sel_active = s.sel_active /\ r.sel_anchor_valid = s.sel_anchor_valid
    BY LineFields DEF r
  <2> QED BY <2>2, <2>3 DEF TextClean, SameKept, Unselected
<1> QED BY <1>1, <1>2

LEMMA HistoryUpClean ==
  ASSUME NEW s, Good(s), TextClean(s), HistoryClean(s), Unselected(s), s.history # <<>>
  PROVE  TextClean(HistoryUp(s)) /\ Unselected(HistoryUp(s))
<1>0. Len(s.history) \in Nat \ {0} /\ s.history_nav \in -1..(Len(s.history) - 1)
  BY GoodParts, EmptySeq DEF Good
<1>1. CASE s.history_nav < 0
  <2> DEFINE n == Len(s.history) - 1
             a == [s EXCEPT !.nav_saved_line = s.line, !.nav_saved_cursor = s.cursor,
                            !.history_nav = n]
  <2>1. n \in Int /\ n \in -1..(Len(s.history) - 1)
    BY <1>0
  <2>2. HistoryUp(s) = HistoryApplyCurrent(a)
    BY <1>1 DEF HistoryUp
  <2> HIDE DEF n
  <2>3. Good(a)
    BY <2>1 DEF Good, ShellType
  <2>4. /\ a.line = s.line /\ a.cursor = s.cursor /\ a.history = s.history
        /\ a.nav_saved_line = s.line /\ a.nav_saved_cursor = s.cursor
        /\ a.clipboard = s.clipboard
        /\ a.sel_active = s.sel_active /\ a.sel_anchor_valid = s.sel_anchor_valid
    BY DEF Good, ShellType
  <2> HIDE DEF a
  <2>5. TextClean(a) /\ HistoryClean(a) /\ Unselected(a)
    BY <2>4 DEF TextClean, HistoryClean, Unselected
  <2> QED BY <2>2, <2>3, <2>5, ApplyCurrentClean
<1>2. CASE ~(s.history_nav < 0)
  <2> DEFINE n == Greater(0, s.history_nav - 1)
             b == [s EXCEPT !.history_nav = n]
  <2>1. n \in Int /\ n \in -1..(Len(s.history) - 1)
    BY <1>0, <1>2 DEF Greater
  <2>2. HistoryUp(s) = HistoryApplyCurrent(b)
    BY <1>2 DEF HistoryUp
  <2> HIDE DEF n
  <2>3. Good(b)
    BY <2>1 DEF Good, ShellType
  <2>4. /\ b.line = s.line /\ b.cursor = s.cursor /\ b.history = s.history
        /\ b.nav_saved_line = s.nav_saved_line /\ b.nav_saved_cursor = s.nav_saved_cursor
        /\ b.clipboard = s.clipboard
        /\ b.sel_active = s.sel_active /\ b.sel_anchor_valid = s.sel_anchor_valid
    BY DEF Good, ShellType
  <2> HIDE DEF b
  <2>5. TextClean(b) /\ HistoryClean(b) /\ Unselected(b)
    BY <2>4 DEF TextClean, HistoryClean, Unselected
  <2> QED BY <2>2, <2>3, <2>5, ApplyCurrentClean
<1> QED BY <1>1, <1>2

LEMMA HistoryDownClean ==
  ASSUME NEW s, Good(s), TextClean(s), HistoryClean(s), Unselected(s)
  PROVE  TextClean(HistoryDown(s)) /\ Unselected(HistoryDown(s))
<1>0. Len(s.history) \in Nat /\ s.history_nav \in -1..(Len(s.history) - 1)
  BY GoodParts DEF Good
<1> DEFINE n == IF s.history_nav + 1 < Len(s.history) THEN s.history_nav + 1 ELSE -1
           b == [s EXCEPT !.history_nav = n]
<1>1. n \in Int /\ n \in -1..(Len(s.history) - 1)
  BY <1>0
<1>2. HistoryDown(s) = HistoryApplyCurrent(b)
  BY DEF HistoryDown
<1> HIDE DEF n
<1>3. Good(b)
  BY <1>1 DEF Good, ShellType
<1>4. /\ b.line = s.line /\ b.cursor = s.cursor /\ b.history = s.history
      /\ b.nav_saved_line = s.nav_saved_line /\ b.nav_saved_cursor = s.nav_saved_cursor
      /\ b.clipboard = s.clipboard
      /\ b.sel_active = s.sel_active /\ b.sel_anchor_valid = s.sel_anchor_valid
  BY DEF Good, ShellType
<1> HIDE DEF b
<1>5. TextClean(b) /\ HistoryClean(b) /\ Unselected(b)
  BY <1>4 DEF TextClean, HistoryClean, Unselected
<1> QED BY <1>2, <1>3, <1>5, ApplyCurrentClean

\* The mark of a continued line is one character, the last that is no space.
LEMMA MarkerRemovedClean ==
  ASSUME NEW s, Good(s), TextClean(s), LineNeedsContinuation(s.line)
  PROVE  /\ Good(RemoveContinuationMarker(s))
         /\ TextClean(RemoveContinuationMarker(s))
         /\ Unselected(RemoveContinuationMarker(s))
<1> DEFINE n == TrimmedLen(s.line)
           t == DeleteRange(s, n - 1, n)
           m == Len(t.line)
           r == [t EXCEPT !.cursor = m]
<1>0. s.line \in Seq(Byte) /\ Len(s.line) \in Nat
  BY GoodParts
<1>1. /\ n \in 1..Len(s.line) /\ OnBoundary(s.line, n - 1) /\ OnBoundary(s.line, n)
  BY <1>0, MarkerClean DEF TextClean
<1>2. n \in Nat /\ n - 1 \in Nat /\ Lesser(n, Len(s.line)) = n
  BY <1>0, <1>1 DEF Lesser
<1>3. RemoveContinuationMarker(s) = r
  BY DEF RemoveContinuationMarker
<1> HIDE DEF n
<1>4. Good(t)
  BY <1>2, DeleteRangeGood
<1>5. TextClean(t) /\ Unselected(t)
  BY <1>1, <1>2, DeleteRangeClean
<1> HIDE DEF t
<1>6. m \in 0..Len(t.line) /\ OnBoundary(t.line, m)
  BY <1>4, <1>5, GoodParts, EndsAreBoundaries DEF TextClean
<1> HIDE DEF m
<1>7. Good(r) /\ TextClean(r) /\ Unselected(r)
  BY <1>4, <1>5, <1>6, SetCursorGood, CursorClean
<1> QED BY <1>3, <1>7

\* The longest common prefix of one word is the word.
LEMMA OneWordPrefix ==
  ASSUME NEW matches \in SUBSET Seq(Byte), matches # {},
         \A v, w \in matches : v = w
  PROVE  CommonPrefix(matches) = CHOOSE m \in matches : TRUE
<1> DEFINE w == CHOOSE m \in matches : TRUE
           S == {n \in 0..Len(w) :
                    \A m \in matches : n <= Len(m) /\ \A i \in 1..n : m[i] = w[i]}
<1>1. w \in matches /\ w \in Seq(Byte)
  OBVIOUS
<1>2. CommonPrefix(matches) = SubSeq(w, 1, Max(S))
  BY DEF CommonPrefix
<1> HIDE DEF w
<1>3. Len(w) \in Nat
  BY <1>1, LenProperties
<1>4. \A m \in matches : m = w
  BY <1>1
<1>5. Len(w) \in S
  <2>1. \A m \in matches : Len(w) <= Len(m) /\ \A i \in 1..Len(w) : m[i] = w[i]
    BY <1>3, <1>4
  <2> QED BY <1>3, <2>1
<1>6. S \subseteq 0..Len(w) /\ S # {}
  BY <1>5
<1> HIDE DEF S
<1>7. Max(S) \in S /\ \A y \in S : Max(S) >= y
  BY <1>3, <1>6, MaxExists
<1>8. Max(S) = Len(w)
  <2>1. Max(S) \in 0..Len(w) /\ Max(S) >= Len(w)
    BY <1>5, <1>6, <1>7
  <2> QED BY <1>3, <2>1
<1>9. SubSeq(w, 1, Len(w)) = w
  BY <1>1, SubSeqFull
<1> QED BY <1>2, <1>8, <1>9 DEF w

LEMMA CompleteSingleClean ==
  ASSUME NEW s, Good(s), TextClean(s), NEW m \in Seq(Byte), WellFormed(m),
         Len(CompleteSingle(s, m).line) < LINE_MAX - 1
  PROVE  TextClean(CompleteSingle(s, m)) /\ Unselected(CompleteSingle(s, m))
<1> DEFINE start == TokenStart(s.line, s.cursor)
           t == ReplaceRangeRaw(s, start, s.cursor, m)
           c == t.cursor
           r == ReplaceRangeRaw(t, c, c, <<SPACE>>)
<1>0. /\ s.line \in Seq(Byte) /\ Len(s.line) \in Nat /\ s.cursor \in 0..Len(s.line)
      /\ LINE_MAX \in Nat /\ WellFormed(s.line) /\ OnBoundary(s.line, s.cursor)
  BY GoodParts DEF TextClean
<1>1. start \in 0..s.cursor /\ OnBoundary(s.line, start)
  BY <1>0, TokenStartRange, TokenStartClean
<1>2. CompleteSingle(s, m) = IF m[Len(m)] # SLASH /\ Len(t.line) + 1 < LINE_MAX THEN r ELSE t
  BY DEF CompleteSingle
<1> HIDE DEF start
<1>3. start \in Nat /\ s.cursor \in Nat /\ start \in 0..Len(s.line)
      /\ s.cursor \in start..Len(s.line)
  BY <1>0, <1>1
<1>4. Good(t)
  BY <1>3, ReplaceRangeGood
<1>5. Len(t.line) < LINE_MAX - 1 => TextClean(t) /\ Unselected(t)
  BY <1>0, <1>1, <1>3, ReplaceClean
<1> HIDE DEF t
<1>6. /\ t.line \in Seq(Byte) /\ Len(t.line) \in Nat /\ c \in 0..Len(t.line)
  BY <1>4, GoodParts
<1>7. CASE m[Len(m)] # SLASH /\ Len(t.line) + 1 < LINE_MAX
  <2>1. CompleteSingle(s, m) = r
    BY <1>2, <1>7
  <2>2. TextClean(t)
    BY <1>0, <1>5, <1>6, <1>7
  <2>3. OnBoundary(t.line, c) /\ c \in c..Len(t.line) /\ c \in Nat
    BY <1>6, <2>2 DEF TextClean
  <2> HIDE DEF c
  <2>4. Len(r.line) < LINE_MAX - 1
    BY <2>1
  <2>5. TextClean(r) /\ Unselected(r)
    BY <1>4, <1>6, <2>2, <2>3, <2>4, SpaceClean, ReplaceClean
  <2> QED BY <2>1, <2>5
<1>8. CASE ~(m[Len(m)] # SLASH /\ Len(t.line) + 1 < LINE_MAX)
  BY <1>2, <1>4, <1>5, <1>8
<1> QED BY <1>7, <1>8

LEMMA CompleteClean ==
  ASSUME NEW s, Good(s), CleanState(s), NEW matches \in MatchLists(s),
         WellFormed(CommonPrefix(matches)),
         Len(LinenoiseComplete(s, matches).line) < LINE_MAX - 1
  PROVE  CleanState(LinenoiseComplete(s, matches))
<1> DEFINE start == TokenStart(s.line, s.cursor)
           m == CHOOSE x \in matches : TRUE
           p == CommonPrefix(matches)
           a == CompleteSingle(s, m)
           b == ReplaceRangeRaw(s, start, s.cursor, p)
           r == IF \A v, w \in matches : v = w THEN a
                ELSE IF Len(p) > Len(Token(s)) THEN b ELSE s
<1>0. /\ s.line \in Seq(Byte) /\ Len(s.line) \in Nat /\ s.cursor \in 0..Len(s.line)
      /\ LINE_MAX \in Nat /\ WellFormed(s.line) /\ OnBoundary(s.line, s.cursor)
      /\ TextClean(s)
  BY GoodParts DEF CleanState, TextClean
<1>1. matches # {} /\ matches \in SUBSET Seq(Byte)
  BY ClipAndWordsType
<1>2. p \in Seq(Byte) /\ m \in Seq(Byte)
  BY <1>1, CommonPrefixType
<1>3. (\A v, w \in matches : v = w) => WellFormed(m)
  BY <1>1, OneWordPrefix
<1>4. LinenoiseComplete(s, matches) = HistoryCancelNav(r)
  BY DEF LinenoiseComplete
<1>5. start \in 0..s.cursor /\ OnBoundary(s.line, start)
  BY <1>0, TokenStartRange, TokenStartClean
<1> HIDE DEF start, m, p
<1>6. start \in Nat /\ s.cursor \in Nat /\ start \in 0..Len(s.line)
      /\ s.cursor \in start..Len(s.line)
  BY <1>0, <1>5
<1>7. Good(b) /\ WellFormed(p)
  BY <1>2, <1>6, ReplaceRangeGood DEF p
<1>8. Len(b.line) < LINE_MAX - 1 => TextClean(b) /\ Unselected(b)
  BY <1>0, <1>2, <1>5, <1>6, <1>7, ReplaceClean
<1>9. WellFormed(m) /\ Len(a.line) < LINE_MAX - 1 =>
         TextClean(a) /\ Unselected(a)
  BY <1>0, <1>2, CompleteSingleClean
<1>9a. Good(a)
  BY <1>2, CompleteSingleGood
<1>10. Good(r)
  BY <1>7, <1>9a
<1>11. CleanState(r)
  <2>1. Len(r.line) < LINE_MAX - 1
    BY <1>4, <1>10, CancelNavGood
  <2>2. CASE \A v, w \in matches : v = w
    <3>1. r = a
      BY <2>2
    <3>2. TextClean(a) /\ Unselected(a)
      BY <1>3, <1>9, <2>1, <2>2, <3>1
    <3> QED BY <3>1, <3>2, UnselectedClean DEF CleanState
  <2>3. CASE ~(\A v, w \in matches : v = w) /\ Len(p) > Len(Token(s))
    <3>1. r = b
      BY <2>3
    <3> QED BY <1>8, <2>1, <3>1, UnselectedClean DEF CleanState
  <2>4. CASE ~(\A v, w \in matches : v = w) /\ ~(Len(p) > Len(Token(s)))
    <3>1. r = s
      BY <2>4
    <3> QED BY <3>1
  <2> QED BY <2>2, <2>3, <2>4
<1> HIDE DEF r
<1> QED BY <1>4, <1>10, <1>11, CancelNavClean DEF CleanState

\* What a key leaves of the text: clean, or one of the two stated exceptions.
LEMMA EveryCharacterStep ==
  ASSUME EditorInv, [Next]_vars, TextClean(sh), SelectionClean(sh), HistoryClean(sh),
         Len(sh'.line) < LINE_MAX - 1
  PROVE  \/ TextClean(sh') /\ (SelectionClean(sh') \/ mode = "search")
         \/ TypeChar /\ ~WellFormed(sh'.line)
         \/ Tab /\ \E matches \in MatchLists(sh) : ~WellFormed(CommonPrefix(matches))
<1> DEFINE c == HistoryCancelNav(sh)
           d == DeleteSelection(c)
           k == SelectionClear(sh)
           Goal == TextClean(sh') /\ SelectionClean(sh')
<1>0. Good(sh) /\ CleanState(sh)
  BY InvIsGood DEF CleanState
<1>1. /\ sh.line \in Seq(Byte) /\ Len(sh.line) \in Nat /\ sh.cursor \in 0..Len(sh.line)
      /\ LINE_MAX \in Nat /\ WellFormed(sh.line) /\ OnBoundary(sh.line, sh.cursor)
      /\ sh.clipboard \in Seq(Byte) /\ WellFormed(sh.clipboard)
      /\ OnBoundary(sh.line, 0) /\ OnBoundary(sh.line, Len(sh.line))
  BY <1>0, GoodParts, EndsAreBoundaries DEF TextClean
<1>2. /\ Good(c) /\ CleanState(c) /\ c.line = sh.line /\ c.cursor = sh.cursor
      /\ c.clipboard = sh.clipboard
      /\ HasSelection(c) <=> HasSelection(sh)
  BY <1>0, CancelNavGood, CancelNavClean, CancelNavKeepsSelection, SameSelectionRange
     DEF CleanState
<1>3. /\ Good(d) /\ CleanState(d) /\ d.sel_active = FALSE
  BY <1>2, DeleteSelectionGood, DeleteSelectionClean DEF CleanState
<1>4. /\ Good(k) /\ TextClean(k) /\ Unselected(k) /\ k.line = sh.line /\ k.cursor = sh.cursor
      /\ k.history = sh.history
  BY <1>0, SelectionClearGood, ClearClean, ClearFields DEF CleanState, SameNav
<1>4a. HistoryClean(k)
  BY <1>4 DEF HistoryClean
<1> HIDE DEF c, d, k
<1>5. ASSUME NEW s, CleanState(s), Drawn(s) \/ Undrawn(s) \/ sh' = s PROVE Goal
  BY <1>5 DEF Drawn, Undrawn, CleanState
<1>6. ASSUME NEW s, TextClean(s), Unselected(s), Drawn(s) \/ Undrawn(s) \/ sh' = s PROVE Goal
  BY <1>5, <1>6, UnselectedClean DEF CleanState
<1>7. CASE EnterContinues
  <2> DEFINE a == SelectionClear(c)
             b == RemoveContinuationMarker(a)
             r == InsertText(b, <<SPACE>>)
  <2>1. Good(a) /\ TextClean(a) /\ a.line = sh.line
    BY <1>2, SelectionClearGood, ClearClean DEF CleanState
  <2>2. LineNeedsContinuation(sh.line)
    BY <1>7 DEF EnterContinues
  <2> HIDE DEF a
  <2>3. Good(b) /\ TextClean(b) /\ Unselected(b)
    BY <2>1, <2>2, MarkerRemovedClean
  <2>4. sh' = b \/ sh' = r
    BY <1>7 DEF EnterContinues, a, c
  <2> HIDE DEF b
  <2>5. CASE sh' = r
    <3>1. WellFormed(r.line)
      BY <2>3, <2>5, SpaceClean, InsertWholeClean
    <3>2. TextClean(r) /\ SelectionClean(r)
      BY <2>3, <3>1, SpaceClean, UnselectedClean, InsertTextClean DEF Unselected
    <3> HIDE DEF r
    <3> QED BY <1>5, <2>5, <3>2 DEF CleanState
  <2> QED BY <1>6, <2>3, <2>4, <2>5
<1>8. CASE EnterReturns
  <2> DEFINE s == HistoryPush(sh)
  <2>1. Good(s) /\ TextClean(s)
    BY <1>0, HistoryPushGood, PushClean
  <2>2. sh' = ResetLine(s)
    BY <1>8 DEF EnterReturns
  <2> HIDE DEF s
  <2> QED BY <1>6, <2>1, <2>2, ResetClean
<1>9. CASE EofOnEmptyLine
  BY <1>0, <1>6, <1>9, ResetClean DEF EofOnEmptyLine
<1>10. CASE ReadInteractiveLine
  <2> DEFINE p == ResetLine(sh)
  <2>1. Good(p) /\ TextClean(p) /\ Unselected(p)
    BY <1>0, ResetLineGood, ResetClean
  <2>2. sh' = HistoryCancelNav(p)
    BY <1>10 DEF ReadInteractiveLine
  <2> HIDE DEF p
  <2>3. CleanState(HistoryCancelNav(p))
    BY <2>1, UnselectedClean, CancelNavClean DEF CleanState
  <2> QED BY <1>5, <2>2, <2>3
<1>11. CASE ExitRequested \/ SearchStart \/ SearchType \/ SearchErase \/ SearchCancel
  <2>1. sh' = sh
    BY <1>11 DEF ExitRequested, SearchStart, SearchType, SearchErase, SearchCancel
  <2> QED BY <1>0, <1>5, <2>1
<1>12. CASE SelectAll
  <2>1. CleanState([SelectionSelectAll(sh) EXCEPT !.cursor = Len(sh.line)])
    BY <1>0, SelectAllClean
  <2> QED BY <1>5, <1>12, <2>1 DEF SelectAll
<1>13. CASE Copy
  <2> DEFINE r == CopySelection(sh)
  <2>1. CleanState(r)
    <3>1. CASE HasSelection(sh)
      <4>1. /\ SelectionRange(sh) = <<sh.sel_start, sh.sel_end>>
            /\ sh.sel_start \in 0..Len(sh.line) /\ sh.sel_end \in sh.sel_start..Len(sh.line)
            /\ sh.sel_active
        BY <1>0, <3>1, CleanSelection
      <4>2. r = CopyRange(sh, sh.sel_start, sh.sel_end)
        BY <3>1, <4>1 DEF CopySelection
      <4>3. OnBoundary(sh.line, sh.sel_start) /\ OnBoundary(sh.line, sh.sel_end)
        BY <4>1 DEF SelectionClean
      <4> HIDE DEF r
      <4> QED BY <1>0, <4>1, <4>2, <4>3, CopyRangeClean DEF CleanState
    <3>2. CASE ~HasSelection(sh)
      BY <1>0, <3>2 DEF CopySelection
    <3> QED BY <3>1, <3>2
  <2> QED BY <1>5, <1>13, <2>1 DEF Copy
<1>14. CASE Paste
  <2> DEFINE r == InsertText(d, sh.clipboard)
  <2>1. sh' = r
    BY <1>14 DEF Paste, Drawn, d, c
  <2>2. WellFormed(r.line)
    BY <1>1, <1>3, <2>1, InsertWholeClean DEF CleanState
  <2>3. TextClean(r) /\ SelectionClean(r)
    BY <1>1, <1>3, <2>2, InsertTextClean DEF CleanState
  <2> HIDE DEF r
  <2> QED BY <1>5, <2>1, <2>3 DEF CleanState
<1>15. ASSUME NEW key, NEW target \in 0..Len(sh.line), OnBoundary(sh.line, target),
              ShiftMove(key, target)
       PROVE  Goal
  <2> DEFINE t == IF sh.sel_anchor_valid THEN sh
                  ELSE [sh EXCEPT !.sel_anchor = sh.cursor, !.sel_anchor_valid = TRUE]
             r == SelectionUpdateFromAnchor([t EXCEPT !.cursor = target])
  <2>1. Drawn(r)
    BY <1>15 DEF ShiftMove
  <2>2. CleanState(r)
    BY <1>0, <1>15, ShiftClean
  <2> HIDE DEF r
  <2> QED BY <1>5, <2>1, <2>2
<1>16. ASSUME NEW key, NEW target \in 0..Len(sh.line), OnBoundary(sh.line, target),
              Move(key, target)
       PROVE  Goal
  <2> DEFINE r == [k EXCEPT !.cursor = target]
  <2>1. Drawn(r) \/ Undrawn(r)
    BY <1>16 DEF Move, k
  <2>2. TextClean(r) /\ Unselected(r)
    BY <1>4, <1>16, CursorClean
  <2> HIDE DEF r
  <2> QED BY <1>6, <2>1, <2>2
<1>17. ASSUME NEW key, NEW start \in 0..Len(sh.line), NEW end \in start..Len(sh.line),
              OnBoundary(sh.line, start), OnBoundary(sh.line, end), Kill(key, start, end)
       PROVE  Goal
  <2> DEFINE r == CutRangeToClipboard(c, start, end)
  <2>1. Drawn(r)
    BY <1>17 DEF Kill, c
  <2>2. CleanState(r)
    BY <1>2, <1>17, CutRangeClean DEF CleanState
  <2> HIDE DEF r
  <2> QED BY <1>5, <2>1, <2>2
<1>18. CASE ClearScreen
  BY <1>0, <1>5, <1>18 DEF ClearScreen
<1>19. ASSUME NEW s, Good(s), TextClean(s), s.line = sh.line, NEW start \in 0..Len(sh.line),
              NEW end \in start..Len(sh.line),
              OnBoundary(sh.line, start), OnBoundary(sh.line, end),
              sh' = DeleteRange(s, start, end)
       PROVE  Goal
  <2>1. start \in Nat /\ end \in Nat /\ Lesser(end, Len(s.line)) = end
    BY <1>1, <1>19 DEF Lesser
  <2>2. TextClean(DeleteRange(s, start, end)) /\ Unselected(DeleteRange(s, start, end))
    BY <1>19, <2>1, DeleteRangeClean
  <2> QED BY <1>6, <1>19, <2>2
<1>20. CASE EofDeletes
  <2> DEFINE end == Utf8NextBoundary(sh.line, sh.cursor)
  <2>1. end \in sh.cursor..Len(sh.line) /\ OnBoundary(sh.line, end)
    BY <1>1, NextBoundaryRange, NextBoundaryClean
  <2>2. sh' = DeleteRange(c, sh.cursor, end)
    BY <1>20 DEF EofDeletes, Drawn, c
  <2> HIDE DEF end
  <2> QED BY <1>1, <1>2, <1>19, <2>1, <2>2 DEF CleanState
<1>21. CASE Up
  <2>1. Undrawn(k) \/ (sh.history # <<>> /\ Drawn(HistoryUp(k)))
    BY <1>21 DEF Up, k
  <2>2. sh.history # <<>> => TextClean(HistoryUp(k)) /\ Unselected(HistoryUp(k))
    BY <1>4, <1>4a, HistoryUpClean
  <2> QED BY <1>4, <1>6, <2>1, <2>2
<1>22. CASE Down
  <2>1. Undrawn(k) \/ Drawn(HistoryDown(k))
    BY <1>22 DEF Down, k
  <2>2. TextClean(HistoryDown(k)) /\ Unselected(HistoryDown(k))
    BY <1>4, <1>4a, HistoryDownClean
  <2> QED BY <1>4, <1>6, <2>1, <2>2
<1>23. CASE Tab
  <2>1. PICK matches \in MatchLists(sh) : Drawn(LinenoiseComplete(sh, matches))
    BY <1>23 DEF Tab
  <2>2. CASE WellFormed(CommonPrefix(matches))
    <3>1. sh' = LinenoiseComplete(sh, matches)
      BY <2>1 DEF Drawn
    <3>2. CleanState(LinenoiseComplete(sh, matches))
      BY <1>0, <2>2, <3>1, CompleteClean
    <3> QED BY <1>5, <3>1, <3>2
  <2> QED BY <1>23, <2>2
<1>24. CASE EraseSelection
  <2> DEFINE r == DeleteSelection(sh)
  <2>1. Good(r) /\ CleanState(r)
    BY <1>0, DeleteSelectionGood, DeleteSelectionClean DEF CleanState
  <2>2. sh' = HistoryCancelNav(r)
    BY <1>24 DEF EraseSelection, Drawn
  <2> HIDE DEF r
  <2>3. CleanState(HistoryCancelNav(r))
    BY <2>1, CancelNavClean DEF CleanState
  <2> QED BY <1>5, <2>2, <2>3
<1>25. ASSUME NEW key, NEW start \in 0..Len(sh.line), NEW end \in start..Len(sh.line),
              OnBoundary(sh.line, start), OnBoundary(sh.line, end), EraseChar(key, start, end)
       PROVE  Goal
  <2> DEFINE s == SelectionClear(c)
  <2>1. Good(s) /\ TextClean(s) /\ s.line = sh.line
    BY <1>2, SelectionClearGood, ClearClean DEF CleanState
  <2>2. sh' = DeleteRange(s, start, end)
    BY <1>25 DEF EraseChar, Drawn, c
  <2> HIDE DEF s
  <2> QED BY <1>19, <1>25, <2>1, <2>2
<1>26. CASE TypeChar
  <2>1. PICK first \in InputBytes :
           IF Len(d.line) + 1 >= LINE_MAX THEN Undrawn(d)
           ELSE \E buf \in CollectUtf8(first, InputBytes) :
                  IF Len(d.line) + Len(buf) >= LINE_MAX THEN Undrawn(d)
                  ELSE Drawn(InsertText(d, buf))
    BY <1>26 DEF TypeChar, d, c
  <2>2. CASE Undrawn(d)
    BY <1>3, <1>5, <2>2
  <2>3. CASE ~Undrawn(d)
    <3>1. PICK buf \in CollectUtf8(first, InputBytes) : Drawn(InsertText(d, buf))
      BY <2>1, <2>3
    <3>2. buf \in Seq(Byte) /\ sh' = InsertText(d, buf)
      BY <3>1, CharLength DEF Drawn
    <3>3. CASE WellFormed(sh'.line)
      <4>1. CleanState(InsertText(d, buf))
        BY <1>3, <3>2, <3>3, InsertTextClean DEF CleanState
      <4> QED BY <1>5, <3>2, <4>1
    <3> QED BY <1>26, <3>3
  <2> QED BY <2>2, <2>3
<1>27. CASE SearchAccept
  <2>1. mode = "search"
    BY <1>27 DEF SearchAccept
  <2> DEFINE hits == SearchHits(sh, query)
  <2>2. CASE query # <<>> /\ hits # {}
    <3>1. hits \subseteq 1..Len(sh.history) /\ Len(sh.history) \in Nat
      BY <1>0, GoodParts DEF SearchHits
    <3> HIDE DEF hits
    <3>2. Max(hits) \in 1..Len(sh.history)
      <4>1. hits \subseteq 0..Len(sh.history)
        BY <3>1
      <4> QED BY <2>2, <3>1, <4>1, MaxExists
    <3>3. sh' = LoadLine(sh, sh.history[Max(hits)])
      BY <1>27, <2>2 DEF SearchAccept, hits
    <3>4. WellFormed(sh.history[Max(hits)])
      BY <3>2 DEF HistoryClean
    <3> QED BY <1>0, <2>1, <3>2, <3>3, <3>4, LoadClean DEF CleanState
  <2>3. CASE ~(query # <<>> /\ hits # {})
    <3>1. sh' = sh
      BY <1>27, <2>3 DEF SearchAccept
    <3> QED BY <1>0, <1>5, <3>1
  <2> QED BY <2>2, <2>3
<1>28. CASE UNCHANGED vars
  <2>1. sh' = sh
    BY <1>28 DEF vars
  <2> QED BY <1>0, <1>5, <2>1
<1>29. /\ Utf8PrevBoundary(sh.line, sh.cursor) \in 0..Len(sh.line)
       /\ sh.cursor \in Utf8PrevBoundary(sh.line, sh.cursor)..Len(sh.line)
       /\ OnBoundary(sh.line, Utf8PrevBoundary(sh.line, sh.cursor))
       /\ Utf8NextBoundary(sh.line, sh.cursor) \in 0..Len(sh.line)
       /\ Utf8NextBoundary(sh.line, sh.cursor) \in sh.cursor..Len(sh.line)
       /\ OnBoundary(sh.line, Utf8NextBoundary(sh.line, sh.cursor))
  <2>1. /\ Utf8PrevBoundary(sh.line, sh.cursor) \in 0..sh.cursor
        /\ Utf8NextBoundary(sh.line, sh.cursor) \in sh.cursor..Len(sh.line)
    BY <1>1, PrevBoundaryRange, NextBoundaryRange
  <2>2. /\ OnBoundary(sh.line, Utf8PrevBoundary(sh.line, sh.cursor))
        /\ OnBoundary(sh.line, Utf8NextBoundary(sh.line, sh.cursor))
    BY <1>1, PrevBoundaryClean, NextBoundaryClean
  <2> QED BY <1>1, <2>1, <2>2
<1>30. 0 \in 0..Len(sh.line) /\ Len(sh.line) \in 0..Len(sh.line)
       /\ Len(sh.line) \in sh.cursor..Len(sh.line) /\ sh.cursor \in 0..sh.cursor
       /\ sh.cursor \in 0..Len(sh.line)
  BY <1>1
<1>31. CASE ShiftLeft
  BY <1>15, <1>29, <1>31 DEF ShiftLeft
<1>32. CASE ShiftRight
  BY <1>15, <1>29, <1>32 DEF ShiftRight
<1>33. CASE ShiftHome
  BY <1>1, <1>15, <1>30, <1>33 DEF ShiftHome
<1>34. CASE ShiftEnd
  BY <1>1, <1>15, <1>30, <1>34 DEF ShiftEnd
<1>35. CASE Left
  BY <1>16, <1>29, <1>35 DEF Left
<1>36. CASE Right
  BY <1>16, <1>29, <1>36 DEF Right
<1>37. CASE Home
  BY <1>1, <1>16, <1>30, <1>37 DEF Home
<1>38. CASE End
  BY <1>1, <1>16, <1>30, <1>38 DEF End
<1>39. CASE KillBefore
  BY <1>1, <1>17, <1>30, <1>39 DEF KillBefore
<1>40. CASE KillAfter
  BY <1>1, <1>17, <1>30, <1>40 DEF KillAfter
<1>41. CASE KillWordBefore
  <2>1. /\ PrevWordBoundary(sh.line, sh.cursor) \in 0..sh.cursor
        /\ OnBoundary(sh.line, PrevWordBoundary(sh.line, sh.cursor))
    BY <1>1, PrevWordBoundaryRange, PrevWordClean
  <2>2. /\ PrevWordBoundary(sh.line, sh.cursor) \in 0..Len(sh.line)
        /\ sh.cursor \in PrevWordBoundary(sh.line, sh.cursor)..Len(sh.line)
    BY <1>1, <2>1
  <2> QED BY <1>1, <1>17, <1>41, <2>1, <2>2 DEF KillWordBefore
<1>42. CASE Backspace
  BY <1>1, <1>25, <1>29, <1>42 DEF Backspace
<1>43. CASE Delete
  BY <1>1, <1>25, <1>29, <1>30, <1>43 DEF Delete
<1> QED BY <1>7, <1>8, <1>9, <1>10, <1>11, <1>12, <1>13, <1>14, <1>18, <1>20, <1>21, <1>22,
           <1>23, <1>24, <1>26, <1>27, <1>28, <1>31, <1>32, <1>33, <1>34, <1>35, <1>36,
           <1>37, <1>38, <1>39, <1>40, <1>41, <1>42, <1>43
       DEF Next, EditKey

\* Every key leaves whole characters, from whole characters, but for the two
\* exceptions of input.rs and completion.rs.
THEOREM EditorKeepsCharacters == Spec => EditsKeepCharacters
<1>1. EditorInv /\ [Next]_vars =>
       [/\ TextClean(sh) /\ SelectionClean(sh)
        /\ \A i \in 1..Len(sh.history) : WellFormed(sh.history[i])
        /\ Len(sh'.line) < LINE_MAX - 1
        => \/ TextClean(sh') /\ (SelectionClean(sh') \/ mode = "search")
           \/ TypeChar /\ ~WellFormed(sh'.line)
           \/ Tab /\ \E matches \in MatchLists(sh) : ~WellFormed(CommonPrefix(matches))]_vars
  BY EveryCharacterStep DEF HistoryClean
<1> QED BY <1>1, EditorInitInv, EditorStepInv, PTL DEF Spec, EditsKeepCharacters
=============================================================================
