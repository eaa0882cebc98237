-------------------------------- MODULE Calc ---------------------------------
(***************************************************************************)
(* The calculator (calc_main.c): the line the user types and its picture on *)
(* the terminal, the recursive descent evaluator, the ranges a plot command *)
(* takes from its own text, and the lines of the plot.                      *)
(*                                                                          *)
(* A character is a lexical atom: a digit, an operator, a blank, or a name  *)
(* written whole.  A double is an exact fraction <<n, d>>, with d = 0 for   *)
(* NaN; beyond CalcLimit it is NaN too.  sin, exp, ln and the other series  *)
(* are not modelled, so no input uses them or a fractional exponent.        *)
(***************************************************************************)
EXTENDS Integers, Sequences, SequencesExt, FiniteSets, FiniteSetsExt

CONSTANTS
    CalcKeys,          \* what may be typed in an expression
    PlotKeys,          \* what may be typed after plot
    CALC_EXPR_MAX,     \* size of the line buffer, with its NUL
    CalcMax,           \* bound: characters of an expression; a plot may fill the buffer
    CalcLimit,         \* bound: greatest numerator and denominator
    CalcScale,         \* 10^digits that a result is printed with
    CalcEdge           \* bound: coordinates of a plotted segment

VARIABLES
    calcLine,          \* out[0 .. pos - 1] of calc_read_line
    calcRendered,      \* rendered_len
    calcRow,           \* the terminal's row after the prompt
    calcOut,           \* what the last line gave: "", "error", "plot" or "value"
    calcSeg            \* a segment of a plot: <<x0, y0, x1, y1>>, or <<>>
calcVars == <<calcLine, calcRendered, calcRow, calcOut, calcSeg>>

-----------------------------------------------------------------------------
(* Numbers.                                                                *)

NaN == <<0, 0>>
Error == <<1, 0>>        \* reference only: a division by zero
Zero == <<0, 1>>
IsNan(v) == v[2] = 0
Size(n) == IF n < 0 THEN -n ELSE n
RECURSIVE Gcd(_, _)
Gcd(a, b) == IF b = 0 THEN a ELSE Gcd(b, a % b)
Fraction(n, d) ==
    LET g == Gcd(Size(n), Size(d))
        s == IF d < 0 THEN -1 ELSE 1
    IN  IF d = 0 \/ Size(n) \div g > CalcLimit \/ Size(d) \div g > CalcLimit THEN NaN
        ELSE <<s * (n \div g), Size(d) \div g>>

Plus(a, b) == Fraction(a[1] * b[2] + b[1] * a[2], a[2] * b[2])
Times(a, b) == Fraction(a[1] * b[1], a[2] * b[2])
Over(a, b) == IF IsNan(b) THEN NaN ELSE Fraction(a[1] * b[2], a[2] * b[1])
Negative(a) == <<-a[1], a[2]>>
Less(a, b) == ~IsNan(a) /\ ~IsNan(b) /\ a[1] * b[2] < b[1] * a[2]
\* The conversion to long long, towards zero.
Whole(a) == IF a[1] < 0 THEN -((-a[1]) \div a[2]) ELSE a[1] \div a[2]

calc_floor(a) == IF IsNan(a) THEN NaN ELSE <<a[1] \div a[2], 1>>
calc_ceil(a) == IF IsNan(a) THEN NaN ELSE <<-((-a[1]) \div a[2]), 1>>
calc_round(a) == IF Less(a, Zero) THEN calc_ceil(Plus(a, <<-1, 2>>)) ELSE calc_floor(Plus(a, <<1, 2>>))
calc_mod(a, b) ==
    IF IsNan(a) \/ IsNan(b) \/ b = Zero THEN NaN
    ELSE Plus(a, Negative(Times(<<Whole(Over(a, b)), 1>>, b)))

RECURSIVE PowLoop(_, _, _)
PowLoop(result, factor, n) ==
    IF n = 0 THEN result
    ELSE PowLoop(IF n % 2 = 1 THEN Times(result, factor) ELSE result, Times(factor, factor), n \div 2)
calc_pow(base, exponent) ==
    IF IsNan(base) \/ IsNan(exponent) \/ exponent[2] # 1 \/ Size(exponent[1]) > 63 THEN NaN
    ELSE LET result == PowLoop(<<1, 1>>, base, Size(exponent[1]))
         IN  IF exponent[1] >= 0 THEN result ELSE IF result = Zero THEN NaN ELSE Over(<<1, 1>>, result)

\* The functions by name and number of arguments; none is an error.
Functions == {<<"abs", 1>>, <<"floor", 1>>, <<"ceil", 1>>, <<"round", 1>>, <<"sign", 1>>,
              <<"min", 2>>, <<"max", 2>>, <<"pow", 2>>, <<"clamp", 3>>}
calc_call_func(name, a) ==
    CASE name = "abs"   -> IF Less(a[1], Zero) THEN Negative(a[1]) ELSE a[1]
      [] name = "floor" -> calc_floor(a[1])
      [] name = "ceil"  -> calc_ceil(a[1])
      [] name = "round" -> calc_round(a[1])
      [] name = "sign"  -> IF Less(Zero, a[1]) THEN <<1, 1>> ELSE IF Less(a[1], Zero) THEN <<-1, 1>> ELSE Zero
      [] name = "min"   -> IF Less(a[1], a[2]) THEN a[1] ELSE a[2]
      [] name = "max"   -> IF Less(a[2], a[1]) THEN a[1] ELSE a[2]
      [] name = "pow"   -> calc_pow(a[1], a[2])
      [] name = "clamp" -> IF Less(a[1], a[2]) THEN a[2] ELSE IF Less(a[3], a[1]) THEN a[3] ELSE a[1]

-----------------------------------------------------------------------------
(* The parser.  A parse is [v, at, ok]: the value, the position after it    *)
(* and whether failed is still 0, which no later step resets.               *)

Digit == {"0", "1", "2"}
Value(c) == CASE c = "0" -> 0 [] c = "1" -> 1 [] c = "2" -> 2
Names == {"x", "abs", "floor", "ceil", "round", "sign", "min", "max", "pow", "clamp"}
At(text, i) == IF i <= Len(text) THEN text[i] ELSE "end"

RECURSIVE calc_skip_ws(_, _)
calc_skip_ws(text, i) == IF At(text, i) = " " THEN calc_skip_ws(text, i + 1) ELSE i
\* calc_match: the position after c, or 0.
calc_match(text, i, c) == LET j == calc_skip_ws(text, i) IN IF At(text, j) = c THEN j + 1 ELSE 0

RECURSIVE RunEnd(_, _, _)
RunEnd(text, i, set) == IF At(text, i) \in set THEN RunEnd(text, i + 1, set) ELSE i
Number(text, i) == FoldLeft(LAMBDA n, c : 10 * n + Value(c), 0, SubSeq(text, i, RunEnd(text, i, Digit) - 1))
Fails(i) == [v |-> NaN, at |-> i, ok |-> FALSE]

RECURSIVE calc_parse_expr(_, _, _)
RECURSIVE Arguments(_, _, _, _)
\* At most three; a comma after the third is skipped too.
ArgumentsAfter(text, p, x, args) ==
    LET next == calc_match(text, p.at, ",")
        all == Append(args, p.v)
    IN  IF ~p.ok THEN [args |-> all, at |-> p.at, ok |-> FALSE]
        ELSE IF next = 0 \/ Len(all) = 3 THEN [args |-> all, at |-> IF next = 0 THEN p.at ELSE next, ok |-> TRUE]
        ELSE Arguments(text, next, x, all)
Arguments(text, i, x, args) == ArgumentsAfter(text, calc_parse_expr(text, i, x), x, args)

\* The end of a parenthesis and of a call, with what was parsed inside.
Closed(text, inner) ==
    LET shut == calc_match(text, inner.at, ")")
    IN  [v |-> inner.v, at |-> IF shut = 0 THEN inner.at ELSE shut, ok |-> inner.ok /\ shut # 0]
Call(text, i, name, list) ==
    LET close == calc_match(text, list.at, ")")
    IN  IF ~list.ok \/ close = 0 \/ <<name, Len(list.args)>> \notin Functions THEN Fails(i)
        ELSE [v |-> calc_call_func(name, list.args), at |-> close, ok |-> TRUE]

calc_parse_primary(text, start, x) ==
    LET i == calc_skip_ws(text, start)
        c == At(text, i)
        end == RunEnd(text, i, Names \cup Digit)
        open == calc_match(text, end, "(")
        list == IF At(text, calc_skip_ws(text, open)) = ")" THEN [args |-> <<>>, at |-> open, ok |-> TRUE]
                ELSE Arguments(text, open, x, <<>>)
    IN  IF c = "(" THEN Closed(text, calc_parse_expr(text, i + 1, x))
        ELSE IF c \in Digit THEN [v |-> Fraction(Number(text, i), 1), at |-> RunEnd(text, i, Digit), ok |-> TRUE]
        ELSE IF c \notin Names THEN Fails(i)
        ELSE IF c = "x" /\ end = i + 1 THEN [v |-> x, at |-> end, ok |-> TRUE]
        ELSE IF end # i + 1 \/ open = 0 THEN Fails(i)
        ELSE Call(text, i, c, list)

With(p, v) == [p EXCEPT !.v = v]
Negated(p) == With(p, Negative(p.v))
RECURSIVE calc_parse_unary(_, _, _)
calc_parse_unary(text, i, x) ==
    LET plus == calc_match(text, i, "+")
        minus == calc_match(text, i, "-")
    IN  IF plus # 0 THEN calc_parse_unary(text, plus, x)
        ELSE IF minus # 0 THEN Negated(calc_parse_unary(text, minus, x))
        ELSE calc_parse_primary(text, i, x)

Raised(left, right) == With(right, calc_pow(left.v, right.v))
RECURSIVE PowersLeft(_, _, _)
PowersLeft(text, left, x) ==
    LET next == calc_match(text, left.at, "^")
    IN  IF ~left.ok \/ next = 0 THEN left
        ELSE PowersLeft(text, Raised(left, calc_parse_unary(text, next, x)), x)
\* Mutant: ^ associates to the left like the other operators.
ParsePowerLeft(text, i, x) == PowersLeft(text, calc_parse_unary(text, i, x), x)

RECURSIVE calc_parse_power(_, _, _)
PowerAfter(text, left, x) ==
    LET next == calc_match(text, left.at, "^")
    IN  IF ~left.ok \/ next = 0 THEN left ELSE Raised(left, calc_parse_power(text, next, x))
calc_parse_power(text, i, x) == PowerAfter(text, calc_parse_unary(text, i, x), x)

Multiplied(left, op, right) ==
    IF op = "/" /\ right.v = Zero THEN Fails(right.at)
    ELSE With(right, CASE op = "*" -> Times(left.v, right.v) [] op = "/" -> Over(left.v, right.v)
                       [] op = "%" -> calc_mod(left.v, right.v))
RECURSIVE MulLoop(_, _, _)
MulLoop(text, left, x) ==
    LET times == calc_match(text, left.at, "*")
        over == calc_match(text, left.at, "/")
        mod == calc_match(text, left.at, "%")
        op == IF times # 0 THEN "*" ELSE IF over # 0 THEN "/" ELSE "%"
    IN  IF ~left.ok \/ times + over + mod = 0 THEN left
        ELSE MulLoop(text, Multiplied(left, op, calc_parse_power(text, times + over + mod, x)), x)
calc_parse_mul(text, i, x) == MulLoop(text, calc_parse_power(text, i, x), x)

Added(left, sign, right) == With(right, Plus(left.v, IF sign = "+" THEN right.v ELSE Negative(right.v)))
RECURSIVE ExprLoop(_, _, _)
ExprLoop(text, left, x) ==
    LET plus == calc_match(text, left.at, "+")
        minus == calc_match(text, left.at, "-")
        sign == IF plus # 0 THEN "+" ELSE "-"
    IN  IF ~left.ok \/ plus + minus = 0 THEN left
        ELSE ExprLoop(text, Added(left, sign, calc_parse_mul(text, plus + minus, x)), x)
calc_parse_expr(text, i, x) == ExprLoop(text, calc_parse_mul(text, i, x), x)

\* The value of the whole text, or NaN where calc_eval returns 0.
Accepted(text, p) == IF p.ok /\ calc_skip_ws(text, p.at) > Len(text) THEN p.v ELSE NaN
calc_eval(text, x) == Accepted(text, calc_parse_expr(text, 1, x))

\* calc_print_double of |v|: the whole part and the digits after the point.
calc_print_double(v) ==
    LET n == Size(v[1])
        whole == n \div v[2]
        frac == ((n - whole * v[2]) * CalcScale * 2 + v[2]) \div (2 * v[2])
    IN  IF frac >= CalcScale THEN <<whole + 1, frac - CalcScale>> ELSE <<whole, frac>>

-----------------------------------------------------------------------------
(* The ranges at the end of a plot command.                                *)

\* The words of a text, as the blanks cut it, with their positions.
WordStarts(text) == {i \in 1 .. Len(text) : text[i] # " " /\ (i = 1 \/ text[i - 1] = " ")}
Word(text, i) == SubSeq(text, i, RunEnd(text, i, {text[j] : j \in 1 .. Len(text)} \ {" "}) - 1)
Unsigned(w) == w # <<>> /\ \A i \in 1 .. Len(w) : w[i] \in Digit
calc_parse_full_double(w) == Unsigned(w) \/ (Len(w) > 1 /\ w[1] \in {"+", "-"} /\ Unsigned(Tail(w)))
DoubleOf(w) ==
    IF Unsigned(w) THEN Fraction(Number(w, 1), 1)
    ELSE IF w[1] = "-" THEN Negative(Fraction(Number(w, 2), 1)) ELSE Fraction(Number(w, 2), 1)

DefaultRange == <<<<-10, 1>>, <<10, 1>>, <<-5, 1>>, <<5, 1>>>>
\* Mutant: four numbers are taken although nothing is left to plot.
TakeRangesOfAll(text) ==
    LET starts == SetToSortSeq(WordStarts(text), <)
        last == [k \in 1 .. 4 |-> Word(text, starts[Len(starts) - 4 + k])]
    IN  IF Len(starts) < 4 THEN [text |-> text, range |-> DefaultRange, taken |-> FALSE]
        ELSE IF \A k \in 1 .. 4 : calc_parse_full_double(last[k])
        THEN [text |-> SubSeq(text, 1, starts[Len(starts) - 3] - 1), range |-> [k \in 1 .. 4 |-> DoubleOf(last[k])], taken |-> TRUE]
        ELSE [text |-> text, range |-> DefaultRange, taken |-> FALSE]

\* calc_try_take_plot_ranges: the last four words when all four are numbers and
\* something is left before them.  The numbers before the first word that is
\* none are stored all the same.
calc_try_take_plot_ranges(text) ==
    LET starts == SetToSortSeq(WordStarts(text), <)
        last == [k \in 1 .. 4 |-> Word(text, starts[Len(starts) - 4 + k])]
        read == CHOOSE n \in 0 .. 4 : (\A k \in 1 .. n : calc_parse_full_double(last[k]))
                                      /\ (n = 4 \/ ~calc_parse_full_double(last[n + 1]))
        rest == SubSeq(text, 1, IF Len(starts) <= 4 THEN 0
                                ELSE starts[Len(starts) - 4] + Len(Word(text, starts[Len(starts) - 4])) - 1)
        ranges == [k \in 1 .. 4 |-> IF k <= read THEN DoubleOf(last[k]) ELSE DefaultRange[k]]
    IN  IF Len(starts) < 4 THEN [text |-> text, range |-> DefaultRange, taken |-> FALSE]
        ELSE [text |-> IF read = 4 /\ rest # <<>> THEN rest ELSE text, range |-> ranges,
              taken |-> read = 4 /\ rest # <<>>]

\* calc_interactive_plot up to the drawing: ranges after ";" are four strtods.
RECURSIVE Strtods(_, _)
Strtods(text, n) ==
    LET i == calc_skip_ws(text, 1)
        sign == IF At(text, i) \in {"+", "-"} THEN 1 ELSE 0
        end == RunEnd(text, i + sign, Digit)
        got == end > i + sign
        v == Fraction(Number(text, i + sign), 1)
    IN  IF n = 0 THEN <<>>
        ELSE <<IF ~got THEN Zero ELSE IF At(text, i) = "-" THEN Negative(v) ELSE v>>
             \o Strtods(IF got THEN SubSeq(text, end, Len(text)) ELSE text, n - 1)
calc_interactive_plot(line) ==
    LET text == SubSeq(line, calc_skip_ws(line, 2), Len(line))
        cut == {i \in 1 .. Len(text) : text[i] = ";"}
    IN  IF cut = {} THEN calc_try_take_plot_ranges(text)
        ELSE [text |-> SubSeq(text, 1, Min(cut) - 1), taken |-> TRUE,
              range |-> Strtods(SubSeq(text, Min(cut) + 1, Len(text)), 4)]

-----------------------------------------------------------------------------
(* The plot.                                                               *)

\* Row and column of a point, rounded to the nearest.
calc_plot_pixel_to_y(y, ymin, ymax, height) == ((ymax - y) * (height - 1) * 2 + (ymax - ymin)) \div (2 * (ymax - ymin))
calc_plot_pixel_to_x(x, xmin, xmax, width) == ((x - xmin) * (width - 1) * 2 + (xmax - xmin)) \div (2 * (xmax - xmin))

\* The loop of calc_plot_draw_line: the pixels in the order they are set
\* (the pixel itself; the copies right of it and below thicken the line).
RECURSIVE LineFrom(_, _, _, _, _)
LineFrom(x, y, err, s, fuel) ==
    LET dx == Size(s[3] - s[1])
        dy == Size(s[4] - s[2])
        right == 2 * err > -dy
        down == 2 * err < dx
    IN  IF fuel = 0 \/ (x = s[3] /\ y = s[4]) THEN <<<<x, y>>>>
        ELSE <<<<x, y>>>> \o
             LineFrom(IF right THEN x + (IF s[1] < s[3] THEN 1 ELSE -1) ELSE x,
                      IF down THEN y + (IF s[2] < s[4] THEN 1 ELSE -1) ELSE y,
                      err - (IF right THEN dy ELSE 0) + (IF down THEN dx ELSE 0), s, fuel - 1)
calc_plot_draw_line(s) == LineFrom(s[1], s[2], Size(s[3] - s[1]) - Size(s[4] - s[2]), s, 4 * CalcEdge + 4)

-----------------------------------------------------------------------------
(* The line and its picture.                                               *)

\* The row after the prompt once text has been written from its start.
Written(row, text) == text \o SubSeq(row, Len(text) + 1, Len(row))
Blanks(n) == [i \in 1 .. n |-> " "]

\* Mutant: one blank too few after a character was deleted.
RenderShort(line, rendered, row) == Written(row, Append(line, "_"))

calc_render_input_line(line, rendered, row) ==
    Written(row, Append(line, "_") \o Blanks(IF rendered > Len(line) THEN rendered - Len(line) ELSE 0))
calc_finish_input_line(line, rendered, row) ==
    Written(row, line \o Blanks(IF rendered >= Len(line) THEN rendered - Len(line) + 1 ELSE 0))

IsPlot(line) == line # <<>> /\ Head(line) = "plot"
\* calc_interactive on a line: help and quit say nothing about the state.
Result(line) ==
    IF IsPlot(line) THEN "plot" ELSE IF line = <<>> THEN "" ELSE IF IsNan(calc_eval(line, Zero)) THEN "error" ELSE "value"

CalcInit ==
    /\ calcLine = <<>> /\ calcRendered = 0 /\ calcRow = <<"_">> /\ calcOut = ""
    /\ calcSeg \in {<<>>} \cup ((0 .. CalcEdge) \X (0 .. CalcEdge) \X (0 .. CalcEdge) \X (0 .. CalcEdge))

Show(line) ==
    /\ calcLine' = line
    /\ calcRow' = calc_render_input_line(line, calcRendered, calcRow)
    /\ calcRendered' = Len(line)
    /\ UNCHANGED <<calcOut, calcSeg>>

\* A printable character; the loop stays while one more fits.
Type(c) ==
    /\ Len(calcLine) + 1 < CALC_EXPR_MAX
    /\ IF IsPlot(calcLine) THEN c \in PlotKeys
       ELSE (c \in CalcKeys /\ Len(calcLine) < CalcMax) \/ (calcLine = <<>> /\ c = "plot")
    /\ Show(Append(calcLine, c))

Backspace == calcLine # <<>> /\ Len(calcLine) + 1 < CALC_EXPR_MAX /\ Show(Front(calcLine))

\* The end of a line: newline, or a buffer that is full, which leaves the
\* cursor's cell and goes on in the same row; the answer ends the row.
Return ==
    /\ calcSeg = <<>>
    /\ calcOut' = Result(calcLine)
    /\ calcLine' = <<>> /\ calcRendered' = 0 /\ calcRow' = <<"_">>
    /\ UNCHANGED calcSeg

CalcNext == (calcSeg = <<>> /\ (Backspace \/ \E c \in CalcKeys \cup PlotKeys \cup {"plot"} : Type(c))) \/ Return
CalcSpec == CalcInit /\ [][CalcNext]_calcVars

-----------------------------------------------------------------------------
(* Reference: the grammar, as the values a text can be derived with.       *)

\* The lexemes of a text: numbers, names and operators, without the blanks.
RECURSIVE Lexemes(_, _)
Lexemes(text, i) ==
    LET c == At(text, i)
        end == RunEnd(text, i, IF c \in Digit THEN Digit ELSE Names \cup Digit)
    IN  IF c = "end" THEN <<>>
        ELSE IF c = " " THEN Lexemes(text, i + 1)
        ELSE IF c \in Digit THEN <<<<"num", Number(text, i)>>>> \o Lexemes(text, end)
        ELSE IF c \in Names THEN <<<<"name", IF end = i + 1 THEN c ELSE "?">>>> \o Lexemes(text, end)
        ELSE <<<<"op", c>>>> \o Lexemes(text, i + 1)

Before(s, i) == SubSeq(s, 1, i - 1)
After(s, i) == SubSeq(s, i + 1, Len(s))
Places(s, ops) == {i \in 1 .. Len(s) : s[i][1] = "op" /\ s[i][2] \in ops}
Poisoned(a, b, v) == IF a = Error \/ b = Error THEN Error ELSE v
Apply(op, a, b) ==
    Poisoned(a, b, CASE op = "+" -> Plus(a, b) [] op = "-" -> Plus(a, Negative(b)) [] op = "*" -> Times(a, b)
                     [] op = "/" -> IF b = Zero THEN Error ELSE Over(a, b) [] op = "%" -> calc_mod(a, b)
                     [] op = "^" -> calc_pow(a, b))
Joined(s, ops, left(_), right(_)) ==
    UNION {{Apply(s[i][2], a, b) : a \in left(Before(s, i)), b \in right(After(s, i))} : i \in Places(s, ops)}

RECURSIVE Sums(_)
RECURSIVE Lists(_)
Lists(s) == {<<v>> : v \in Sums(s)} \cup UNION {{<<v>> \o l : v \in Sums(Before(s, i)), l \in Lists(After(s, i))} : i \in Places(s, {","})}
Called(name, s) ==
    LET lists == IF s = <<>> THEN {<<>>} ELSE Lists(s)
    IN  {IF \E i \in 1 .. Len(l) : l[i] = Error THEN Error ELSE calc_call_func(name, l) :
         l \in {m \in lists : <<name, Len(m)>> \in Functions}}
Is(l, c) == l = <<"op", c>>
Atoms(s) ==
    LET n == Len(s)
    IN  IF n = 0 THEN {}
        ELSE IF n = 1 THEN IF s[1][1] = "num" THEN {Fraction(s[1][2], 1)} ELSE IF s[1] = <<"name", "x">> THEN {Zero} ELSE {}
        ELSE IF s[n][1] # "op" THEN {}
        ELSE IF ~Is(s[n], ")") THEN {}
        ELSE IF s[1][1] = "op" THEN IF Is(s[1], "(") THEN Sums(SubSeq(s, 2, n - 1)) ELSE {}
        ELSE IF n >= 3 /\ s[1][1] = "name" /\ s[2][1] = "op" THEN IF Is(s[2], "(") THEN Called(s[1][2], SubSeq(s, 3, n - 1)) ELSE {}
        ELSE {}
RECURSIVE Signed(_)
Signed(s) ==
    Atoms(s) \cup IF s # <<>> /\ 1 \in Places(s, {"+", "-"})
                  THEN {IF Is(s[1], "-") /\ v # Error THEN Negative(v) ELSE v : v \in Signed(Tail(s))} ELSE {}
RECURSIVE Powers(_)
Powers(s) == Signed(s) \cup Joined(s, {"^"}, Signed, Powers)
RECURSIVE Products(_)
Products(s) == Powers(s) \cup Joined(s, {"*", "/", "%"}, Products, Powers)
Sums(s) == Products(s) \cup Joined(s, {"+", "-"}, Sums, Products)

\* What calc_eval accepts is what the grammar derives, with the value the
\* grammar gives it, and a printed result is the nearest of its digits: no
\* text is accepted with a part of it unread, no error is lost on the way up,
\* and a power raised again is raised from the right.
IsEvaluated(text) ==
    LET v == calc_eval(text, Zero)
        meant == Sums(Lexemes(text, 1))
        shown == calc_print_double(v)
        off == 2 * (Size(v[1]) * CalcScale - (shown[1] * CalcScale + shown[2]) * v[2])
    IN  /\ Cardinality(meant) <= 1
        /\ meant \subseteq {NaN, Error} <=> IsNan(v)
        /\ ~IsNan(v) => meant = {v} /\ Size(off) <= v[2] /\ shown[2] < CalcScale
EvaluatesGrammar ==
    ~IsPlot(calcLine) /\ calcLine # <<>> =>
        IsEvaluated(calcLine) /\ IsEvaluated(calcLine \o <<"^", "2">>)

\* The row shows the line and the cursor and nothing of an earlier, longer one;
\* the row Enter leaves behind shows the line alone.
LineIsShown ==
    /\ calcRow = Append(calcLine, "_") \o Blanks(Len(calcRow) - Len(calcLine) - 1)
    /\ calc_finish_input_line(calcLine, calcRendered, calcRow) = calcLine \o Blanks(Len(calcRow) - Len(calcLine))

\* A plot's text is cut exactly when it has five words or more and the last four
\* are numbers: these become the ranges, in their order, and what is left are
\* the words before them.  Otherwise the text stays whole; a range is then its
\* default, or one of the numbers with which the last four words begin, which
\* the code has stored when it meets the word that is none.
RangesAreTheTail ==
    LET text == SubSeq(calcLine, calc_skip_ws(calcLine, 2), Len(calcLine))
        p == calc_try_take_plot_ranges(text)
        n == Cardinality(WordStarts(text))
        at(k) == CHOOSE i \in WordStarts(text) : Cardinality({j \in WordStarts(text) : j <= i}) = n - 4 + k
        number(k) == calc_parse_full_double(Word(text, at(k)))
    IN  IsPlot(calcLine) =>
            /\ p.taken <=> n >= 5 /\ \A k \in 1 .. 4 : number(k)
            /\ IF p.taken
               THEN /\ p.text = SubSeq(text, 1, Len(p.text)) /\ Last(p.text) # " "
                    /\ Len(p.text) < at(1) /\ Cardinality(WordStarts(p.text)) = n - 4
                    /\ \A k \in 1 .. 4 : p.range[k] = DoubleOf(Word(text, at(k)))
               ELSE /\ p.text = text
                    /\ \A k \in 1 .. 4 :
                          \/ p.range[k] = DefaultRange[k]
                          \/ n >= 4 /\ (\A m \in 1 .. k : number(m)) /\ p.range[k] = DoubleOf(Word(text, at(k)))

\* A plotted segment reaches its end, leaves no gap and stays between its ends;
\* a value within the range has a row of the plot, the ends the first and last.
SegmentIsLine ==
    LET pixels == calc_plot_draw_line(calcSeg)
        row(y) == calc_plot_pixel_to_y(y, calcSeg[2], calcSeg[4], CalcEdge)
        column(x) == calc_plot_pixel_to_x(x, calcSeg[2], calcSeg[4], CalcEdge)
    IN  calcSeg # <<>> =>
            /\ calcSeg[2] < calcSeg[4] =>
                   /\ row(calcSeg[4]) = 0 /\ row(calcSeg[2]) = CalcEdge - 1
                   /\ \A y \in calcSeg[2] .. calcSeg[4] - 1 : row(y + 1) <= row(y) /\ column(y) <= column(y + 1)
            /\ Last(pixels) = <<calcSeg[3], calcSeg[4]>>
            /\ \A i \in 1 .. Len(pixels) - 1 : \A c \in 1 .. 2 : Size(pixels[i + 1][c] - pixels[i][c]) <= 1
            /\ \A i \in 1 .. Len(pixels) : \A c \in 1 .. 2 :
                   pixels[i][c] \in Min({calcSeg[c], calcSeg[c + 2]}) .. Max({calcSeg[c], calcSeg[c + 2]})

CalcIsRight == EvaluatesGrammar /\ LineIsShown /\ RangesAreTheTail /\ SegmentIsLine
=============================================================================
