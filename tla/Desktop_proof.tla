---------------------------- MODULE Desktop_proof ----------------------------
(***************************************************************************)
(* The remote shell, the window manager, the package window, the file        *)
(* explorer, the task manager and the job commands, each alone as TLC runs   *)
(* it, for all values of their constants, and the composition of Desktop.    *)
(***************************************************************************)
EXTENDS Desktop, Terminal_proof, FiniteSetTheorems, SequenceTheorems, WellFoundedInduction,
        TLAPS

(***************************************************************************)
(* The remote shell, for any users, any number of clients, any lines typed  *)
(* and any pieces a command prints, in chunks cut anywhere: lines are taken  *)
(* at the prompts they were typed for, neither side waits for nothing, and   *)
(* commands run after a login.                                              *)
(***************************************************************************)

(***************************************************************************)
(* The two streams.                                                        *)
(***************************************************************************)

RsWords ==
    {"log", "in: ", "pass", "word: ", "$", " "} \cup RsOutput
      \cup {"banner", "login ok", "login failed", "bye", "/", "truncated"}

RsLine == [text : RsLines, prompt : Prompts]

\* A prompt starts with one of these pieces.
Firsts == {"log", "pass", "$"}

\* Only the last but one word on the way may start a prompt, and it is this one.
LastAsks(words, prompt) ==
    \A i \in 1..Len(words) :
        words[i] \in Firsts => words[i] = Halves[prompt][1] /\ i = Len(words) - 1

AsksNothing(words) == \A i \in 1..Len(words) : words[i] \notin Firsts

\* No word on the way starts a prompt but the shell's.
OnlyShellAsks(words) == \A i \in 1..Len(words) : words[i] \in Firsts => words[i] = "$"

\* The whole prompt ends what is on the way.
DueAt(words, prompt) ==
    /\ Len(words) >= 2
    /\ words[Len(words) - 1] = Halves[prompt][1] /\ words[Len(words)] = Halves[prompt][2]

TypedAt(lines, prompt) == \A i \in 1..Len(lines) : lines[i].prompt = prompt

NoLoginText == RsOutput \cap LoginPieces = {}

\* What rsh has still to look at: what it kept of the last chunk comes first.
Coming == rsh.tail \o toClient

(***************************************************************************)
(* The inductive invariant.                                                *)
(***************************************************************************)

RshdAt == Prompts \cup {"accept", "exec", "close"}

RshdStates ==
    [at : RshdAt, attempt : Int,
     name : RsLines, user : RsLines, left : Int, cmd : RsLines, own : BOOLEAN]

RshStates ==
    [at : {"off", "connect", "wait", "typing", "leaving"}, prompt : Prompts \cup {""},
     tail : Seq(RsWords), typed : Int]

RsTypeOK ==
    /\ rsd \in RshdStates
    /\ rsh \in RshStates
    /\ toServer \in Seq(RsLine)
    /\ toClient \in Seq(RsWords)
    /\ rsh.at = "typing" => rsh.prompt \in Prompts
    /\ Len(rsh.tail) <= 1 /\ (rsh.at \notin {"wait", "leaving"} => rsh.tail = <<>>)

\* A new connection starts with empty streams.
FreshConnection ==
    rsh.at = "connect" => rsd.at = "accept" /\ toServer = <<>> /\ toClient = <<>>

\* While rshd waits for a name or a password the two sides take turns: the
\* prompt is on its way, or the user is typing at it, or the line is on its way.
LoginTurn ==
    rsd.at \in {"login: ", "password: "} =>
      /\ Len(toServer) <= 1 /\ TypedAt(toServer, rsd.at)
      /\ LastAsks(Coming, rsd.at)
      /\ toServer # <<>> \/ rsh.at = "typing" => AsksNothing(Coming)
      /\ rsh.at = "typing" => rsh.prompt = rsd.at /\ toServer = <<>>

\* After the login the streams may run ahead of each other, but there is one
\* prompt only.
ShellTurn ==
    NoLoginText /\ rsd.at \in {"$ ", "exec"} =>
      /\ TypedAt(toServer, "$ ")
      /\ OnlyShellAsks(Coming)
      /\ rsh.at = "typing" => rsh.prompt = "$ "

\* When rshd waits with no line on the way, the client has its prompt to come.
PromptDue ==
    rsd.at \in Prompts /\ rsh.at = "wait" /\ toServer = <<>> => DueAt(Coming, rsd.at)

RsInv ==
    /\ RsTypeOK /\ FreshConnection /\ LoginTurn /\ ShellTurn /\ PromptDue
    /\ PromptsAgree /\ CommandsAreAuthorised

(***************************************************************************)
(* Streams: what a send adds and what a chunk takes away.                  *)
(***************************************************************************)

\* An empty stream.
LEMMA EmptyStream ==
  ASSUME NEW e, e = <<>>
  PROVE  /\ e \in Seq(RsLine) /\ e \in Seq(RsWords) /\ Len(e) <= 1
         /\ AsksNothing(e) /\ OnlyShellAsks(e)
         /\ \A p : TypedAt(e, p) /\ LastAsks(e, p)
<1>1. e \in Seq(RsLine) /\ e \in Seq(RsWords)
  OBVIOUS
<1>2. Len(e) = 0
  BY <1>1, EmptySeq
<1> QED BY <1>1, <1>2 DEF AsksNothing, OnlyShellAsks, TypedAt, LastAsks

\* The two halves of a prompt: the first tells which it is.
LEMMA TwoWords ==
  ASSUME NEW a \in RsWords, NEW b \in RsWords
  PROVE  <<a, b>> \in Seq(RsWords) /\ Len(<<a, b>>) = 2 /\ <<a, b>>[1] = a /\ <<a, b>>[2] = b
  OBVIOUS

LEMMA PromptHalves ==
  ASSUME NEW p \in Prompts
  PROVE  /\ Halves[p] \in Seq(RsWords) /\ Len(Halves[p]) = 2
         /\ Halves[p][1] \in Firsts /\ Halves[p][2] \notin Firsts
         /\ Halves[p] = <<Halves[p][1], Halves[p][2]>>
         /\ \A q \in Prompts : Halves[q][1] = Halves[p][1] => q = p
<1>1. /\ Halves["login: "] = <<"log", "in: ">> /\ Halves["password: "] = <<"pass", "word: ">>
      /\ Halves["$ "] = <<"$", " ">>
  BY DEF Halves, Prompts
<1>2. /\ "log" \in RsWords /\ "in: " \in RsWords /\ "pass" \in RsWords /\ "word: " \in RsWords
      /\ "$" \in RsWords /\ " " \in RsWords
  BY DEF RsWords
<1>3. /\ Halves["login: "] \in Seq(RsWords) /\ Len(Halves["login: "]) = 2
      /\ Halves["login: "][1] = "log" /\ Halves["login: "][2] = "in: "
  <2>1. <<"log", "in: ">> \in Seq(RsWords) /\ Len(<<"log", "in: ">>) = 2 /\ <<"log", "in: ">>[1] = "log" /\ <<"log", "in: ">>[2] = "in: "
    BY <1>2, TwoWords
  <2> QED BY <1>1, <2>1
<1>4. /\ Halves["password: "] \in Seq(RsWords) /\ Len(Halves["password: "]) = 2
      /\ Halves["password: "][1] = "pass" /\ Halves["password: "][2] = "word: "
  <2>1. <<"pass", "word: ">> \in Seq(RsWords) /\ Len(<<"pass", "word: ">>) = 2 /\ <<"pass", "word: ">>[1] = "pass" /\ <<"pass", "word: ">>[2] = "word: "
    BY <1>2, TwoWords
  <2> QED BY <1>1, <2>1
<1>5. /\ Halves["$ "] \in Seq(RsWords) /\ Len(Halves["$ "]) = 2
      /\ Halves["$ "][1] = "$" /\ Halves["$ "][2] = " "
  <2>1. <<"$", " ">> \in Seq(RsWords) /\ Len(<<"$", " ">>) = 2 /\ <<"$", " ">>[1] = "$" /\ <<"$", " ">>[2] = " "
    BY <1>2, TwoWords
  <2> QED BY <1>1, <2>1
<1>6. Halves[p] = <<Halves[p][1], Halves[p][2]>>
  BY <1>1, <1>3, <1>4, <1>5 DEF Prompts
<1>7. /\ Halves[p] \in Seq(RsWords) /\ Len(Halves[p]) = 2
      /\ Halves[p][1] \in Firsts /\ Halves[p][2] \notin Firsts
  BY <1>3, <1>4, <1>5 DEF Prompts, Firsts
<1>8. \A q \in Prompts : Halves[q][1] = Halves[p][1] => q = p
  BY <1>3, <1>4, <1>5 DEF Prompts
<1> QED BY <1>6, <1>7, <1>8

\* The words of two streams, one after the other.
LEMMA Joined ==
  ASSUME NEW w \in Seq(RsWords), NEW m \in Seq(RsWords)
  PROVE  /\ w \o m \in Seq(RsWords) /\ Len(w \o m) = Len(w) + Len(m)
         /\ Len(w) \in Nat /\ Len(m) \in Nat
         /\ \A i \in 1..Len(w) : (w \o m)[i] = w[i]
         /\ \A i \in 1..Len(m) : (w \o m)[Len(w) + i] = m[i]
         /\ \A i \in 1..Len(w \o m) : i \in 1..Len(w) \/ \E j \in 1..Len(m) : i = Len(w) + j
<1>1. Len(w) \in Nat /\ Len(m) \in Nat
  BY LenProperties
<1> DEFINE r == w \o m
<1>2. /\ r \in Seq(RsWords) /\ Len(r) = Len(w) + Len(m)
      /\ \A i \in 1..Len(w) + Len(m) : r[i] = IF i <= Len(w) THEN w[i] ELSE m[i - Len(w)]
  BY ConcatProperties
<1> HIDE DEF r
<1>3. ASSUME NEW i \in 1..Len(m) PROVE r[Len(w) + i] = m[i]
  <2>1. Len(w) + i \in 1..Len(w) + Len(m) /\ ~(Len(w) + i <= Len(w)) /\ (Len(w) + i) - Len(w) = i
    BY <1>1
  <2> QED BY <1>2, <2>1
<1>4. \A i \in 1..Len(w) : r[i] = w[i]
  BY <1>1, <1>2
<1>5. ASSUME NEW i \in 1..Len(r), i \notin 1..Len(w) PROVE \E j \in 1..Len(m) : i = Len(w) + j
  <2>1. i - Len(w) \in 1..Len(m) /\ i = Len(w) + (i - Len(w))
    BY <1>1, <1>2, <1>5
  <2> QED BY <2>1
<1> QED BY <1>1, <1>2, <1>3, <1>4, <1>5 DEF r

\* Text sent.
LEMMA TextSent ==
  ASSUME NEW w \in Seq(RsWords), NEW m \in Seq(RsWords)
  PROVE  /\ w \o m \in Seq(RsWords)
         /\ AsksNothing(w) /\ AsksNothing(m) => AsksNothing(w \o m)
         /\ OnlyShellAsks(w) /\ OnlyShellAsks(m) => OnlyShellAsks(w \o m)
         /\ \A p : AsksNothing(w) /\ LastAsks(m, p) => LastAsks(w \o m, p)
         /\ \A p : DueAt(m, p) => DueAt(w \o m, p)
<1> DEFINE r == w \o m
<1>1. /\ r \in Seq(RsWords) /\ Len(r) = Len(w) + Len(m)
      /\ Len(w) \in Nat /\ Len(m) \in Nat
      /\ \A i \in 1..Len(w) : r[i] = w[i]
      /\ \A i \in 1..Len(m) : r[Len(w) + i] = m[i]
      /\ \A i \in 1..Len(r) : i \in 1..Len(w) \/ \E j \in 1..Len(m) : i = Len(w) + j
  BY Joined
<1> HIDE DEF r
<1>2. AsksNothing(w) /\ AsksNothing(m) => AsksNothing(r)
  BY <1>1 DEF AsksNothing
<1>3. OnlyShellAsks(w) /\ OnlyShellAsks(m) => OnlyShellAsks(r)
  BY <1>1 DEF OnlyShellAsks
<1>4. ASSUME NEW p, AsksNothing(w), LastAsks(m, p) PROVE LastAsks(r, p)
  <2> SUFFICES ASSUME NEW i \in 1..Len(r), r[i] \in Firsts
               PROVE r[i] = Halves[p][1] /\ i = Len(r) - 1
    BY DEF LastAsks
  <2>1. i \notin 1..Len(w)
    BY <1>1, <1>4 DEF AsksNothing
  <2>2. PICK j \in 1..Len(m) : i = Len(w) + j
    BY <1>1, <2>1
  <2>3. r[i] = m[j]
    BY <1>1, <2>2
  <2>4. m[j] = Halves[p][1] /\ j = Len(m) - 1
    BY <1>4, <2>3 DEF LastAsks
  <2>5. i = Len(r) - 1
    BY <1>1, <2>2, <2>4
  <2> QED BY <2>3, <2>4, <2>5
<1>5. ASSUME NEW p, DueAt(m, p) PROVE DueAt(r, p)
  <2>1. Len(m) >= 2 /\ m[Len(m) - 1] = Halves[p][1] /\ m[Len(m)] = Halves[p][2]
    BY <1>5 DEF DueAt
  <2>2. /\ Len(m) - 1 \in 1..Len(m) /\ Len(m) \in 1..Len(m) /\ Len(r) >= 2
        /\ Len(r) - 1 = Len(w) + (Len(m) - 1) /\ Len(r) = Len(w) + Len(m)
    BY <1>1, <2>1
  <2>3. r[Len(r) - 1] = m[Len(m) - 1] /\ r[Len(r)] = m[Len(m)]
    BY <1>1, <2>2
  <2> QED BY <2>1, <2>2, <2>3 DEF DueAt
<1> QED BY <1>1, <1>2, <1>3, <1>4, <1>5 DEF r

\* A message that ends in a prompt.
LEMMA PromptMessage ==
  ASSUME NEW words \in Seq(RsWords), AsksNothing(words), NEW p \in Prompts
  PROVE  LET m == words \o Halves[p]
         IN  m \in Seq(RsWords) /\ LastAsks(m, p) /\ DueAt(m, p) /\ (p = "$ " => OnlyShellAsks(m))
<1>1. /\ Halves[p] \in Seq(RsWords) /\ Len(Halves[p]) = 2
      /\ Halves[p][1] \in Firsts /\ Halves[p][2] \notin Firsts
  BY PromptHalves
<1>2. \A i \in 1..Len(Halves[p]) : i = 1 \/ i = 2
  BY <1>1
<1>3. LastAsks(Halves[p], p) /\ DueAt(Halves[p], p)
  BY <1>1, <1>2 DEF LastAsks, DueAt
<1>4. p = "$ " => OnlyShellAsks(Halves[p])
  <2>1. Halves["$ "][1] = "$"
    BY DEF Halves, Prompts
  <2> QED BY <1>1, <1>2, <2>1 DEF OnlyShellAsks
<1>5. OnlyShellAsks(words)
  BY DEF AsksNothing, OnlyShellAsks
<1> QED BY <1>1, <1>3, <1>4, <1>5, TextSent

\* One word.
LEMMA OneWord ==
  ASSUME NEW a \in RsWords
  PROVE  /\ <<a>> \in Seq(RsWords)
         /\ a \notin Firsts => AsksNothing(<<a>>)
         /\ a \notin Firsts \/ a = "$" => OnlyShellAsks(<<a>>)
<1>1. <<a>> \in Seq(RsWords) /\ Len(<<a>>) = 1 /\ <<a>>[1] = a
  OBVIOUS
<1>2. \A i \in 1..Len(<<a>>) : i = 1
  BY <1>1
<1> QED BY <1>1, <1>2 DEF AsksNothing, OnlyShellAsks
\* A line taken off the other stream.
LEMMA LineTaken ==
  ASSUME NEW l \in Seq(RsLine), l # <<>>
  PROVE  /\ Head(l) \in RsLine /\ Tail(l) \in Seq(RsLine)
         /\ Len(l) <= 1 => Tail(l) = <<>>
         /\ \A p : TypedAt(l, p) => Head(l).prompt = p /\ TypedAt(Tail(l), p)
<1>1. /\ Head(l) \in RsLine /\ Tail(l) \in Seq(RsLine) /\ Len(Tail(l)) = Len(l) - 1
      /\ Len(l) \in Nat /\ Len(l) # 0 /\ Head(l) = l[1]
      /\ \A i \in 1..Len(Tail(l)) : Tail(l)[i] = l[i + 1]
  BY HeadTailProperties, EmptySeq, LenProperties
<1>2. Len(l) <= 1 => Tail(l) = <<>>
  <2>1. Len(l) <= 1 => Len(Tail(l)) = 0
    BY <1>1
  <2> QED BY <1>1, <2>1, EmptySeq
<1>3. ASSUME NEW p, TypedAt(l, p) PROVE Head(l).prompt = p /\ TypedAt(Tail(l), p)
  <2>1. 1 \in 1..Len(l) /\ \A i \in 1..Len(Tail(l)) : i + 1 \in 1..Len(l)
    BY <1>1
  <2> QED BY <1>1, <1>3, <2>1 DEF TypedAt
<1> QED BY <1>1, <1>2, <1>3

\* A line typed.
LEMMA LineSent ==
  ASSUME NEW l \in Seq(RsLine), NEW x \in RsLine
  PROVE  /\ Append(l, x) \in Seq(RsLine)
         /\ l = <<>> => Len(Append(l, x)) <= 1
         /\ \A p : TypedAt(l, p) /\ x.prompt = p => TypedAt(Append(l, x), p)
<1>1. /\ Append(l, x) \in Seq(RsLine) /\ Len(Append(l, x)) = Len(l) + 1
      /\ \A i \in 1..Len(l) : Append(l, x)[i] = l[i]
      /\ Append(l, x)[Len(l) + 1] = x /\ Len(l) \in Nat
  BY AppendProperties, LenProperties
<1>2. \A i \in 1..Len(Append(l, x)) : i \in 1..Len(l) \/ i = Len(l) + 1
  BY <1>1
<1>3. l = <<>> => Len(l) = 0
  BY EmptySeq
<1> QED BY <1>1, <1>2, <1>3 DEF TypedAt

(***************************************************************************)

(***************************************************************************)
(* The invariant holds at first and every action keeps it.                 *)
(***************************************************************************)

\* The states both sides start from.
LEMMA FirstStates ==
  /\ Waiting \in RshdStates /\ NoClient \in RshStates
  /\ [Waiting EXCEPT !.at = "login: "] \in RshdStates
  /\ [Waiting EXCEPT !.at = "login: "].at = "login: "
  /\ [NoClient EXCEPT !.at = "connect"] \in RshStates
  /\ [NoClient EXCEPT !.at = "connect"].at = "connect"
  /\ [NoClient EXCEPT !.at = "connect"].tail = <<>>
<1>1. Waiting \in RshdStates
  BY DEF Waiting, RshdStates, RshdAt, RsLines
<1>2. NoClient \in RshStates
  <2>1. <<>> \in Seq(RsWords)
    BY EmptyStream
  <2> QED BY <2>1 DEF NoClient, RshStates
<1>3. "login: " \in RshdAt
  BY DEF RshdAt, Prompts
<1>4. /\ [NoClient EXCEPT !.at = "connect"] \in RshStates
      /\ [NoClient EXCEPT !.at = "connect"].at = "connect"
  BY <1>2 DEF RshStates
<1>5. [NoClient EXCEPT !.at = "connect"].tail = <<>>
  BY DEF NoClient
<1> QED BY <1>1, <1>2, <1>3, <1>4, <1>5 DEF RshdStates

\* How rshd moves.
LEMMA RshdFields ==
  ASSUME NEW r \in RshdStates PROVE r.at \in RshdAt /\ r.left \in Int /\ r.attempt \in Int
  BY DEF RshdStates

LEMMA RshdGoes ==
  ASSUME NEW r \in RshdStates, NEW a \in RshdAt, NEW s, s = [r EXCEPT !.at = a]
  PROVE  s \in RshdStates /\ s.at = a /\ s.user = r.user /\ s.own = r.own
  BY DEF RshdStates

LEMMA RshdAsksAgain ==
  ASSUME NEW r \in RshdStates, NEW a \in RshdAt, NEW k \in Int, NEW s, s = [r EXCEPT !.at = a, !.attempt = k]
  PROVE  s \in RshdStates /\ s.at = a
  BY DEF RshdStates

LEMMA RshdPrints ==
  ASSUME NEW r \in RshdStates, NEW k \in Int, NEW s, s = [r EXCEPT !.left = k]
  PROVE  s \in RshdStates /\ s.at = r.at /\ s.user = r.user /\ s.own = r.own
  BY DEF RshdStates

LEMMA RshdReturns ==
  ASSUME NEW r \in RshdStates, NEW k \in Int, NEW c \in RsLines, NEW s,
         s = [r EXCEPT !.left = k, !.cmd = c]
  PROVE  s \in RshdStates /\ s.at = r.at /\ s.user = r.user /\ s.own = r.own
  BY DEF RshdStates

LEMMA RshdLosesSession ==
  ASSUME NEW r \in RshdStates, NEW c \in RsLines, NEW b \in BOOLEAN, NEW s,
         s = [r EXCEPT !.cmd = c, !.own = b]
  PROVE  s \in RshdStates /\ s.at = r.at /\ s.user = r.user /\ s.own = b
  BY DEF RshdStates

\* What rsh has still to see stays typed, and what is sent joins it.
LEMMA ComingTyped == RsTypeOK => Coming \in Seq(RsWords)
<1> SUFFICES ASSUME RsTypeOK PROVE Coming \in Seq(RsWords)
  OBVIOUS
<1>1. rsh.tail \in Seq(RsWords) /\ toClient \in Seq(RsWords)
  BY DEF RsTypeOK, RshStates
<1> QED BY <1>1, Joined DEF Coming

LEMMA SendComing ==
  ASSUME RsTypeOK, NEW m \in Seq(RsWords), Send(m), rsh'.tail = rsh.tail
  PROVE  /\ toClient' \in Seq(RsWords)
         /\ rsh.at = "off" => Coming' = <<>>
         /\ rsh.at # "off" => Coming' = Coming \o m
<1>1. rsh.tail \in Seq(RsWords) /\ toClient \in Seq(RsWords)
  BY DEF RsTypeOK, RshStates
<1>2. CASE rsh.at = "off"
  <2>1. toClient' = <<>> /\ rsh.tail = <<>>
    BY <1>2 DEF Send, RsTypeOK
  <2>2. <<>> \o <<>> = <<>>
    BY EmptyStream, ConcatEmptySeq
  <2> QED BY <1>2, <2>1, <2>2, EmptyStream DEF Coming
<1>3. CASE rsh.at # "off"
  <2>1. toClient' = toClient \o m
    BY <1>3 DEF Send
  <2>2. toClient' \in Seq(RsWords)
    BY <1>1, <2>1, Joined
  <2>3. rsh.tail \o (toClient \o m) = (rsh.tail \o toClient) \o m
    <3> DEFINE t == rsh.tail
    <3>1. t \in Seq(RsWords)
      BY <1>1
    <3> HIDE DEF t
    <3>2. (t \o toClient) \o m = t \o (toClient \o m)
      BY ONLY <1>1, <3>1, m \in Seq(RsWords), ConcatAssociative
    <3> QED BY <3>2 DEF t
  <2> QED BY <1>3, <2>1, <2>2, <2>3 DEF Coming
<1> QED BY <1>2, <1>3

LEMMA RsInvInit == RsInit => RsInv
<1> SUFFICES ASSUME RsInit PROVE RsInv
  OBVIOUS
<1>1. toServer \in Seq(RsLine) /\ toClient \in Seq(RsWords)
  BY EmptyStream DEF RsInit
<1>2. rsd \in RshdStates /\ rsh \in RshStates
  BY FirstStates DEF RsInit
<1>3. rsh.tail = <<>> /\ Len(rsh.tail) <= 1
  BY EmptyStream DEF RsInit, NoClient
<1>4. RsTypeOK
  BY <1>1, <1>2, <1>3 DEF RsTypeOK, RsInit, NoClient
<1> QED BY <1>4 DEF RsInit, RsInv, Waiting, NoClient, Prompts, FreshConnection, LoginTurn, ShellTurn,
                    PromptDue, PromptsAgree, CommandsAreAuthorised

LEMMA AcceptKeeps == RsInv /\ rshd_accept => RsInv'
<1> SUFFICES ASSUME RsInv, rshd_accept PROVE RsInv'
  OBVIOUS
<1> USE DEF RsInv
<1> DEFINE m == <<"banner">> \o Halves["login: "]
<1>1. toServer = <<>> /\ toClient = <<>> /\ rsh.tail = <<>> /\ rsh.at = "connect"
  BY DEF rshd_accept, FreshConnection, RsTypeOK
<1>2. /\ toServer' = <<>> /\ Send(m) /\ UNCHANGED <<rsSession, rsTaken>>
      /\ rsd' = [Waiting EXCEPT !.at = "login: "] /\ rsh' = [rsh EXCEPT !.at = "wait"]
  BY <1>1 DEF rshd_accept
<1>3. m \in Seq(RsWords) /\ LastAsks(m, "login: ") /\ DueAt(m, "login: ")
  <2>1. "banner" \in RsWords /\ "banner" \notin Firsts /\ "login: " \in Prompts
    BY DEF RsWords, Firsts, Prompts
  <2>2. <<"banner">> \in Seq(RsWords) /\ AsksNothing(<<"banner">>)
    BY <2>1, OneWord
  <2> QED BY <2>1, <2>2, PromptMessage
<1> HIDE DEF m
<1>4. /\ rsd'.at = "login: " /\ rsh'.at = "wait" /\ rsh'.tail = rsh.tail
      /\ rsd' \in RshdStates /\ rsh' \in RshStates
  <2>1. rsd' \in RshdStates /\ rsd'.at = "login: "
    BY <1>2, FirstStates
  <2>2. rsh \in RshStates
    BY DEF RsTypeOK
  <2>3. rsh' \in RshStates /\ rsh'.at = "wait" /\ rsh'.tail = rsh.tail
    BY <1>2, <2>2 DEF RshStates
  <2> QED BY <2>1, <2>3
<1>5. toClient' \in Seq(RsWords) /\ Coming' = Coming \o m
  BY <1>1, <1>2, <1>3, <1>4, SendComing
<1>6. Coming \in Seq(RsWords) /\ AsksNothing(Coming)
  <2>1. Coming = <<>>
    BY <1>1, EmptyStream, ConcatEmptySeq DEF Coming
  <2> QED BY <2>1, EmptyStream
<1>7. LastAsks(Coming', "login: ") /\ DueAt(Coming', "login: ")
  BY <1>3, <1>5, <1>6, TextSent
<1>8. RsTypeOK'
  BY <1>1, <1>2, <1>4, <1>5, EmptyStream DEF RsTypeOK
<1>9. FreshConnection' /\ ShellTurn' /\ CommandsAreAuthorised' /\ PromptsAgree'
  BY <1>2, <1>4 DEF FreshConnection, ShellTurn, CommandsAreAuthorised, PromptsAgree
<1>10. LoginTurn' /\ PromptDue'
  <2>1. Len(toServer') <= 1 /\ TypedAt(toServer', "login: ")
    BY <1>2, EmptyStream
  <2> QED BY <1>2, <1>4, <1>7, <2>1 DEF LoginTurn, PromptDue
<1> QED BY <1>8, <1>9, <1>10

\* What rshd_recv_line takes, and how it leaves the promised agreement.
LEMMA TakenAtPrompt ==
  ASSUME RsInv, rshd_recv_line
  PROVE  /\ Head(toServer) \in RsLine /\ toServer' \in Seq(RsLine)
         /\ PromptsAgree'
         /\ rsd.at \in {"login: ", "password: "} =>
              toServer' = <<>> /\ AsksNothing(Coming) /\ rsh.at # "typing"
         /\ NoLoginText /\ rsd.at = "$ " => TypedAt(toServer', "$ ")
<1> USE DEF RsInv
<1>1. /\ Head(toServer) \in RsLine /\ toServer' \in Seq(RsLine)
      /\ Len(toServer) <= 1 => toServer' = <<>>
      /\ \A p : TypedAt(toServer, p) => Head(toServer).prompt = p /\ TypedAt(toServer', p)
  BY LineTaken DEF rshd_recv_line, RsTypeOK
<1>2. rsd.at \in {"login: ", "password: "} =>
        toServer' = <<>> /\ AsksNothing(Coming) /\ rsh.at # "typing" /\ Head(toServer).prompt = rsd.at
  BY <1>1 DEF LoginTurn, rshd_recv_line
<1>3. NoLoginText /\ rsd.at = "$ " => TypedAt(toServer', "$ ") /\ Head(toServer).prompt = "$ "
  BY <1>1 DEF ShellTurn
<1>4. PromptsAgree'
  BY <1>2, <1>3 DEF rshd_recv_line, PromptsAgree, NoLoginText, Prompts
<1> QED BY <1>1, <1>2, <1>3, <1>4

\* The two sides after an answer in the login: rshd is at the next prompt.
LEMMA LoginAnswered ==
  ASSUME RsInv, rshd_recv_line, rsd.at \in {"login: ", "password: "}, UNCHANGED rsh,
         rsd' \in RshdStates,
         toClient' \in Seq(RsWords),
         CommandsAreAuthorised',
         rsd'.at \in {"login: ", "password: "} => LastAsks(Coming', rsd'.at),
         rsd'.at \in {"$ ", "exec"} => OnlyShellAsks(Coming'),
         rsd'.at \in Prompts /\ rsh.at = "wait" => DueAt(Coming', rsd'.at)
  PROVE  RsInv'
<1>1. /\ toServer' \in Seq(RsLine) /\ PromptsAgree' /\ toServer' = <<>>
      /\ rsh'.at # "typing"
  BY TakenAtPrompt
<1>2. RsTypeOK'
  BY <1>1 DEF RsTypeOK, RsInv
<1>3. FreshConnection'
  BY DEF FreshConnection, RsInv
<1>4. Len(toServer') <= 1 /\ \A p : TypedAt(toServer', p)
  BY <1>1, EmptyStream
<1>5. LoginTurn' /\ ShellTurn' /\ PromptDue'
  BY <1>1, <1>4 DEF LoginTurn, ShellTurn, PromptDue
<1> QED BY <1>1, <1>2, <1>3, <1>5 DEF RsInv

\* A message that ends in a prompt, sent to a client that had nothing to see of
\* another prompt.
LEMMA PromptComes ==
  ASSUME RsTypeOK, AsksNothing(Coming), UNCHANGED rsh, NEW words \in Seq(RsWords),
         AsksNothing(words), NEW p \in Prompts, Send(words \o Halves[p])
  PROVE  /\ toClient' \in Seq(RsWords) /\ LastAsks(Coming', p)
         /\ rsh.at = "wait" => DueAt(Coming', p)
<1> DEFINE m == words \o Halves[p]
<1>1. m \in Seq(RsWords) /\ LastAsks(m, p) /\ DueAt(m, p) /\ Send(m)
  BY PromptMessage
<1> HIDE DEF m
<1>2. /\ toClient' \in Seq(RsWords)
      /\ rsh.at = "off" => Coming' = <<>>
      /\ rsh.at # "off" => Coming' = Coming \o m
  BY <1>1, SendComing
<1>3. Coming \in Seq(RsWords)
  BY ComingTyped
<1>4. LastAsks(Coming \o m, p) /\ DueAt(Coming \o m, p)
  BY <1>1, <1>3, TextSent
<1> QED BY <1>2, <1>4, EmptyStream

LEMMA NameKeeps == RsInv /\ LoginName => RsInv'
<1> SUFFICES ASSUME RsInv, LoginName PROVE RsInv'
  OBVIOUS
<1>1. /\ rsd.at = "login: " /\ rshd_recv_line /\ UNCHANGED <<rsh, rsSession>>
      /\ Send(Halves["password: "])
  BY DEF LoginName
<1>2. Head(toServer).text \in RsLines /\ AsksNothing(Coming) /\ RsTypeOK
  BY <1>1, TakenAtPrompt DEF RsLine, RsInv
<1>3. rsd' \in RshdStates /\ rsd'.at = "password: "
  BY <1>2 DEF RsTypeOK, RshdStates, RshdAt, LoginName, Prompts
<1>4. /\ toClient' \in Seq(RsWords) /\ LastAsks(Coming', "password: ")
      /\ rsh.at = "wait" => DueAt(Coming', "password: ")
  <2>1. "password: " \in Prompts
    BY DEF Prompts
  <2>2. <<>> \o Halves["password: "] = Halves["password: "]
    BY <2>1, PromptHalves, ConcatEmptySeq
  <2>3. <<>> \in Seq(RsWords) /\ AsksNothing(<<>>)
    BY EmptyStream
  <2>4. UNCHANGED rsh /\ Send(<<>> \o Halves["password: "])
    BY <1>1, <2>2
  <2> QED BY <1>2, <2>1, <2>3, <2>4, PromptComes
<1>5. CommandsAreAuthorised'
  BY <1>3 DEF CommandsAreAuthorised
<1> QED BY <1>1, <1>3, <1>4, <1>5, LoginAnswered

\* Text sent by rshd's shell.
LEMMA ShellSends ==
  ASSUME RsTypeOK, UNCHANGED rsh, NEW m \in Seq(RsWords), Send(m)
  PROVE  /\ toClient' \in Seq(RsWords)
         /\ OnlyShellAsks(Coming) /\ OnlyShellAsks(m) => OnlyShellAsks(Coming')
         /\ \A p : DueAt(m, p) /\ rsh.at = "wait" => DueAt(Coming', p)
<1>1. /\ toClient' \in Seq(RsWords)
      /\ rsh.at = "off" => Coming' = <<>>
      /\ rsh.at # "off" => Coming' = Coming \o m
  BY SendComing
<1>2. Coming \in Seq(RsWords)
  BY ComingTyped
<1>3. /\ OnlyShellAsks(Coming) /\ OnlyShellAsks(m) => OnlyShellAsks(Coming \o m)
      /\ \A p : DueAt(m, p) => DueAt(Coming \o m, p)
  BY <1>2, TextSent
<1>4. OnlyShellAsks(<<>>)
  BY EmptyStream
<1> QED BY <1>1, <1>3, <1>4

\* rshd_send_prompt: the prompt is on its way, or the client is gone.
LEMMA ShellPrompt ==
  ASSUME RsTypeOK, UNCHANGED rsh, NEW r \in RshdStates, NEW words \in Seq(RsWords),
         AsksNothing(words), AsksNext(r, words)
  PROVE  /\ rsd' \in RshdStates /\ rsd'.user = r.user /\ rsd'.own = r.own
         /\ rsd'.at \in {"$ ", "close"}
         /\ toClient' \in Seq(RsWords)
         /\ OnlyShellAsks(Coming) => OnlyShellAsks(Coming')
         /\ rsd'.at = "$ " /\ rsh.at = "wait" => DueAt(Coming', "$ ")
<1> DEFINE ask == "$ "
           shut == "close"
           m == words \o Halves["$ "]
<1>1. ask \in RshdAt /\ shut \in RshdAt /\ ask \in {"$ ", "close"} /\ shut \in {"$ ", "close"} /\ shut # "$ "
  BY DEF RshdAt, Prompts
<1>2. \/ rsd' = [r EXCEPT !.at = ask] /\ Send(m)
      \/ rsh.at = "off" /\ rsd' = [r EXCEPT !.at = shut] /\ UNCHANGED toClient
  BY DEF AsksNext
<1>3. m \in Seq(RsWords) /\ OnlyShellAsks(m) /\ DueAt(m, "$ ")
  <2>1. "$ " \in Prompts
    BY DEF Prompts
  <2> QED BY <2>1, PromptMessage
<1> HIDE DEF m, ask, shut
<1>4. CASE rsd' = [r EXCEPT !.at = ask] /\ Send(m)
  <2>1. rsd' \in RshdStates /\ rsd'.at = ask /\ rsd'.user = r.user /\ rsd'.own = r.own
    BY ONLY <1>1, <1>4, r \in RshdStates, RshdGoes
  <2>2. /\ toClient' \in Seq(RsWords)
        /\ OnlyShellAsks(Coming) => OnlyShellAsks(Coming')
        /\ rsh.at = "wait" => DueAt(Coming', "$ ")
    BY <1>3, <1>4, ShellSends
  <2> QED BY <1>1, <2>1, <2>2
<1>5. CASE rsh.at = "off" /\ rsd' = [r EXCEPT !.at = shut] /\ UNCHANGED toClient
  <2>1. rsd' \in RshdStates /\ rsd'.at = shut /\ rsd'.user = r.user /\ rsd'.own = r.own
    BY ONLY <1>1, <1>5, r \in RshdStates, RshdGoes
  <2>2. toClient' \in Seq(RsWords) /\ Coming' = Coming
    BY <1>5 DEF Coming, RsTypeOK
  <2> QED BY <1>1, <2>1, <2>2
<1> QED BY <1>2, <1>4, <1>5

\* Words that rshd sends and that start no prompt.
LEMMA PlainWords ==
  /\ \A a \in {"login ok", "login failed", "bye", "/", "truncated"} :
        <<a>> \in Seq(RsWords) /\ AsksNothing(<<a>>) /\ OnlyShellAsks(<<a>>)
  /\ <<>> \in Seq(RsWords) /\ AsksNothing(<<>>)
<1>1. ASSUME NEW a \in {"login ok", "login failed", "bye", "/", "truncated"}
      PROVE  a \in RsWords /\ a \notin Firsts
  BY DEF RsWords, Firsts
<1>2. \A a \in {"login ok", "login failed", "bye", "/", "truncated"} :
         <<a>> \in Seq(RsWords) /\ AsksNothing(<<a>>) /\ OnlyShellAsks(<<a>>)
  BY <1>1, OneWord
<1> QED BY <1>2, EmptyStream

LEMMA PasswordKeeps == RsInv /\ LoginPassword => RsInv'
<1> SUFFICES ASSUME RsInv, LoginPassword PROVE RsInv'
  OBVIOUS
<1>1. rsd.at = "password: " /\ rshd_recv_line /\ UNCHANGED rsh
  BY DEF LoginPassword
<1>2. AsksNothing(Coming) /\ RsTypeOK /\ rsd \in RshdStates
  BY <1>1, TakenAtPrompt DEF RsInv, RsTypeOK
<1>3. {"login: ", "close"} \subseteq RshdAt /\ "login: " \in Prompts
  BY DEF Prompts, RshdAt
<1>4. /\ <<"login ok">> \in Seq(RsWords) /\ AsksNothing(<<"login ok">>)
      /\ <<"login failed">> \in Seq(RsWords) /\ AsksNothing(<<"login failed">>)
      /\ OnlyShellAsks(<<"login failed">>)
  BY PlainWords
<1>5. OnlyShellAsks(Coming)
  BY <1>2 DEF AsksNothing, OnlyShellAsks
<1> DEFINE ok == rsd.name \in RsUsers /\ Head(toServer).text = rsd.name
<1>6. CASE ok
  <2> DEFINE u == rsd.name
             b == TRUE
             r == [rsd EXCEPT !.user = u, !.own = b]
  <2>1. rsSession' = rsd.name /\ AsksNext(r, <<"login ok">>)
    BY <1>6 DEF LoginPassword
  <2>2. u \in RsLines /\ b \in BOOLEAN
    BY <1>2 DEF RshdStates
  <2>3. u = rsd.name /\ rsd \in RshdStates /\ r = [rsd EXCEPT !.user = u, !.own = b]
    BY <1>2
  <2> HIDE DEF u, b, r
  <2>4. r \in RshdStates /\ r.user = u
    BY ONLY <2>2, <2>3 DEF RshdStates
  <2>5. /\ rsd' \in RshdStates /\ rsd'.user = r.user
        /\ rsd'.at \in {"$ ", "close"} /\ toClient' \in Seq(RsWords)
        /\ OnlyShellAsks(Coming')
        /\ rsd'.at = "$ " /\ rsh.at = "wait" => DueAt(Coming', "$ ")
    BY <1>1, <1>2, <1>4, <1>5, <2>1, <2>4, ShellPrompt
  <2>6. CommandsAreAuthorised'
    BY <1>6, <2>1, <2>3, <2>4, <2>5 DEF CommandsAreAuthorised
  <2> QED BY <1>1, <2>5, <2>6, LoginAnswered DEF Prompts
<1>7. CASE ~ok /\ rsd.attempt < 2
  <2>0. rsd.attempt # 2 /\ rsd.attempt + 1 \in Int
    <3>1. rsd.attempt \in Int
      BY <1>2, RshdFields
    <3> QED BY <1>7, <3>1
  <2> DEFINE k == rsd.attempt + 1
            a == "login: "
  <2>1. /\ Send(<<"login failed">> \o Halves["login: "])
        /\ rsd' = [rsd EXCEPT !.at = a, !.attempt = k]
    BY <1>7, <2>0 DEF LoginPassword
  <2>2. rsd' \in RshdStates /\ rsd'.at = "login: "
    <3>1. k \in Int /\ a \in RshdAt /\ a = "login: "
      BY <1>3, <2>0
    <3> HIDE DEF k, a
    <3>2. rsd' \in RshdStates /\ rsd'.at = a
      BY ONLY <1>2, <2>1, <3>1, RshdAsksAgain
    <3> QED BY <3>1, <3>2
  <2>3. /\ toClient' \in Seq(RsWords) /\ LastAsks(Coming', "login: ")
        /\ rsh.at = "wait" => DueAt(Coming', "login: ")
    BY <1>1, <1>2, <1>3, <1>4, <2>1, PromptComes
  <2>4. CommandsAreAuthorised'
    BY <2>2 DEF CommandsAreAuthorised
  <2> QED BY <1>1, <2>2, <2>3, <2>4, LoginAnswered
<1>8. CASE ~ok /\ rsd.attempt = 2
  <2>0. ~(rsd.attempt < 2)
    BY <1>8
  <2>1. Send(<<"login failed">>) /\ rsd' = [rsd EXCEPT !.at = "close"]
    BY <1>8, <2>0 DEF LoginPassword
  <2>2. rsd' \in RshdStates /\ rsd'.at = "close"
    BY <1>2, <1>3, <2>1, RshdGoes
  <2>3. toClient' \in Seq(RsWords)
    BY <1>1, <1>2, <1>4, <2>1, ShellSends
  <2>4. CommandsAreAuthorised'
    BY <2>2 DEF CommandsAreAuthorised
  <2> QED BY <1>1, <2>2, <2>3, <2>4, LoginAnswered DEF Prompts
<1> QED BY <1>6, <1>7, <1>8 DEF LoginPassword

\* rshd after the login: it stays there, or closes.
LEMMA ShellStepKeeps ==
  ASSUME RsInv, rsd.at \in {"$ ", "exec"}, UNCHANGED rsh,
         rsd' \in RshdStates, rsd'.at \in {"$ ", "exec", "close"}, rsd'.user = rsd.user,
         rsd'.own => rsd.own /\ rsSession' = rsSession,
         toServer' \in Seq(RsLine), PromptsAgree',
         NoLoginText => TypedAt(toServer', "$ "),
         toClient' \in Seq(RsWords),
         NoLoginText => OnlyShellAsks(Coming'),
         rsd'.at = "$ " /\ rsh.at = "wait" => DueAt(Coming', "$ ")
  PROVE  RsInv'
<1>1. RsTypeOK'
  BY DEF RsTypeOK, RsInv
<1>2. FreshConnection'
  BY DEF FreshConnection, RsInv
<1>3. LoginTurn' /\ ShellTurn' /\ PromptDue'
  BY DEF LoginTurn, ShellTurn, PromptDue, RsInv, NoLoginText, Prompts
<1>4. CommandsAreAuthorised'
  BY DEF CommandsAreAuthorised, RsInv
<1> QED BY <1>1, <1>2, <1>3, <1>4 DEF RsInv

LEMMA BuiltinKeeps ==
  ASSUME RSHD_OUT_LIMIT \in Nat, RsInv, rshd_handle_builtin PROVE RsInv'
<1> DEFINE text == Head(toServer).text
<1>1. rsd.at = "$ " /\ rshd_recv_line /\ UNCHANGED <<rsh, rsSession>>
  BY DEF rshd_handle_builtin
<1>2. /\ toServer' \in Seq(RsLine) /\ PromptsAgree' /\ (NoLoginText => TypedAt(toServer', "$ "))
      /\ (NoLoginText => OnlyShellAsks(Coming)) /\ RsTypeOK
      /\ rsd \in RshdStates /\ text \in RsLines
  BY <1>1, TakenAtPrompt DEF RsInv, RsTypeOK, ShellTurn, RsLine
<1>3. /\ \/ AsksNext(rsd, <<>>)
         \/ AsksNext(rsd, <<"/">>)
         \/ rsd' = [rsd EXCEPT !.at = "close"] /\ Send(<<"bye">>)
         \/ /\ rsd' = [rsd EXCEPT !.at = "exec", !.left = RSHD_OUT_LIMIT, !.cmd = text]
            /\ UNCHANGED toClient
  BY DEF rshd_handle_builtin
<1>4. /\ <<>> \in Seq(RsWords) /\ AsksNothing(<<>>)
      /\ <<"/">> \in Seq(RsWords) /\ AsksNothing(<<"/">>)
      /\ <<"bye">> \in Seq(RsWords) /\ OnlyShellAsks(<<"bye">>)
  BY PlainWords
<1> HIDE DEF text
<1>5. ASSUME NEW words \in {<<>>, <<"/">>}, AsksNext(rsd, words) PROVE RsInv'
  <2>1. words \in Seq(RsWords) /\ AsksNothing(words) /\ UNCHANGED rsh
    BY <1>1, <1>4
  <2>2. /\ rsd' \in RshdStates /\ rsd'.user = rsd.user /\ rsd'.own = rsd.own
        /\ rsd'.at \in {"$ ", "close"}
        /\ toClient' \in Seq(RsWords)
        /\ OnlyShellAsks(Coming) => OnlyShellAsks(Coming')
        /\ rsd'.at = "$ " /\ rsh.at = "wait" => DueAt(Coming', "$ ")
    BY <1>2, <1>5, <2>1, ShellPrompt
  <2> QED BY <1>1, <1>2, <2>2, ShellStepKeeps
<1>6. ASSUME rsd' = [rsd EXCEPT !.at = "close"], Send(<<"bye">>) PROVE RsInv'
  <2>1. "close" \in RshdAt
    BY DEF RshdAt
  <2>2. rsd' \in RshdStates /\ rsd'.at = "close" /\ rsd'.user = rsd.user /\ rsd'.own = rsd.own
    BY <1>2, <1>6, <2>1, RshdGoes
  <2>3. toClient' \in Seq(RsWords) /\ (OnlyShellAsks(Coming) => OnlyShellAsks(Coming'))
    BY <1>1, <1>2, <1>4, <1>6, ShellSends
  <2> QED BY <1>1, <1>2, <2>2, <2>3, ShellStepKeeps
<1>7. ASSUME rsd' = [rsd EXCEPT !.at = "exec", !.left = RSHD_OUT_LIMIT, !.cmd = text],
             UNCHANGED toClient
      PROVE RsInv'
  <2> DEFINE run == "exec"
             limit == RSHD_OUT_LIMIT
  <2>1. run \in RshdAt /\ limit \in Int /\ run = "exec"
    BY DEF RshdAt
  <2>2. rsd' = [rsd EXCEPT !.at = run, !.left = limit, !.cmd = text] /\ rsd \in RshdStates /\ text \in RsLines
    BY <1>2, <1>7
  <2> HIDE DEF run, limit
  <2>6. rsd' \in RshdStates
    BY ONLY <2>1, <2>2 DEF RshdStates
  <2>3. rsd'.at = run /\ rsd'.user = rsd.user /\ rsd'.own = rsd.own
    BY ONLY <2>2 DEF RshdStates
  <2>4. rsd'.at = "exec"
    BY <2>1, <2>3
  <2>5. toClient' \in Seq(RsWords) /\ Coming' = Coming
    BY <1>1, <1>2, <1>7 DEF RsTypeOK, Coming
  <2> QED BY <1>1, <1>2, <2>3, <2>4, <2>5, <2>6, ShellStepKeeps
<1> QED BY <1>3, <1>5, <1>6, <1>7

LEMMA PrintKeeps == ASSUME RsInv, NEW w \in RsOutput, CommandPrints(w) PROVE RsInv'
<1>1. /\ rsd.at = "exec" /\ UNCHANGED <<rsh, rsSession, toServer, rsTaken>>
      /\ rsd' = [rsd EXCEPT !.left = @ - 1]
  BY DEF CommandPrints
<1>2. /\ toServer \in Seq(RsLine) /\ PromptsAgree /\ (NoLoginText => TypedAt(toServer, "$ "))
      /\ RsTypeOK /\ (NoLoginText => OnlyShellAsks(Coming))
      /\ rsd \in RshdStates
  BY <1>1 DEF RsInv, RsTypeOK, ShellTurn
<1>3. /\ <<"truncated">> \in Seq(RsWords) /\ OnlyShellAsks(<<"truncated">>)
      /\ <<w>> \in Seq(RsWords) /\ (NoLoginText => OnlyShellAsks(<<w>>))
  <2>1. w \in RsWords /\ (NoLoginText => w \notin Firsts \/ w = "$")
    BY DEF RsWords, NoLoginText, LoginPieces, Firsts
  <2> QED BY <2>1, OneWord, PlainWords
<1>4. rsd' \in RshdStates /\ rsd'.at = "exec" /\ rsd'.user = rsd.user /\ rsd'.own = rsd.own
  <2>0. rsd.left \in Int
    BY <1>2, RshdFields
  <2>1. rsd.left - 1 \in Int
    BY <2>0
  <2> QED BY <1>1, <1>2, <2>1, RshdPrints
<1>5. PromptsAgree'
  BY <1>1, <1>2 DEF PromptsAgree
<1>6. toClient' \in Seq(RsWords) /\ (NoLoginText => OnlyShellAsks(Coming'))
  <2>1. CASE rsd.left = 1
    <3>1. Send(<<"truncated">>)
      BY <2>1 DEF CommandPrints
    <3> QED BY <1>1, <1>2, <1>3, <3>1, ShellSends
  <2>2. CASE rsd.left # 1
    <3>1. Send(<<w>>)
      BY <2>2 DEF CommandPrints
    <3> QED BY <1>1, <1>2, <1>3, <3>1, ShellSends
  <2> QED BY <2>1, <2>2
<1> QED BY <1>1, <1>2, <1>4, <1>5, <1>6, ShellStepKeeps

LEMMA ReturnKeeps == ASSUME RsInv, NEW exits \in BOOLEAN, rshd_apply_ret(exits) PROVE RsInv'
<1> DEFINE none == 0
           nothing == ""
           shut == "close"
           done == [rsd EXCEPT !.left = none, !.cmd = nothing]
<1>1. /\ rsd.at = "exec" /\ UNCHANGED <<rsh, rsSession, toServer, rsTaken>>
  BY DEF rshd_apply_ret
<1>10. exits => rsd' = [done EXCEPT !.at = shut] /\ UNCHANGED toClient
  BY DEF rshd_apply_ret
<1>11. ~exits => AsksNext(done, <<>>)
  BY Zenon DEF rshd_apply_ret
<1>2. /\ toServer \in Seq(RsLine) /\ PromptsAgree /\ (NoLoginText => TypedAt(toServer, "$ "))
      /\ RsTypeOK /\ (NoLoginText => OnlyShellAsks(Coming))
  BY <1>1 DEF RsInv, RsTypeOK, ShellTurn
<1>3. none \in Int /\ nothing \in RsLines /\ shut \in RshdAt /\ shut = "close" /\ rsd \in RshdStates
  <2>1. nothing \in RsLines /\ shut \in RshdAt /\ shut = "close"
    BY DEF RsLines, RshdAt
  <2>2. none \in Int
    OBVIOUS
  <2>3. rsd \in RshdStates
    BY <1>2 DEF RsTypeOK
  <2> QED BY ONLY <2>1, <2>2, <2>3
<1>4. done = [rsd EXCEPT !.left = none, !.cmd = nothing]
  OBVIOUS
<1> HIDE DEF none, nothing, shut, done
<1>5. done \in RshdStates
  BY ONLY <1>3, <1>4 DEF RshdStates
<1>6. done.user = rsd.user /\ done.own = rsd.own
  BY ONLY <1>3, <1>4 DEF RshdStates
<1>7. PromptsAgree'
  BY <1>1, <1>2 DEF PromptsAgree
<1>8. CASE exits
  <2>1. rsd' = [done EXCEPT !.at = shut] /\ UNCHANGED <<toClient, rsh>>
    BY <1>1, <1>8, <1>10
  <2>2. rsd' \in RshdStates /\ rsd'.at = shut /\ rsd'.user = done.user /\ rsd'.own = done.own
    BY ONLY <1>3, <1>5, <2>1, RshdGoes
  <2>3. toClient' \in Seq(RsWords) /\ Coming' = Coming
    BY <1>2, <2>1 DEF Coming, RsTypeOK
  <2> QED BY <1>1, <1>2, <1>3, <1>6, <1>7, <2>2, <2>3, ShellStepKeeps
<1>9. CASE ~exits
  <2>1. AsksNext(done, <<>>) /\ <<>> \in Seq(RsWords) /\ AsksNothing(<<>>) /\ UNCHANGED rsh
    BY <1>1, <1>9, <1>11, PlainWords
  <2>2. /\ rsd' \in RshdStates /\ rsd'.user = done.user /\ rsd'.own = done.own
        /\ rsd'.at \in {"$ ", "close"}
        /\ toClient' \in Seq(RsWords)
        /\ OnlyShellAsks(Coming) => OnlyShellAsks(Coming')
        /\ rsd'.at = "$ " /\ rsh.at = "wait" => DueAt(Coming', "$ ")
    BY <1>2, <1>5, <2>1, ShellPrompt
  <2> QED BY <1>1, <1>2, <1>6, <1>7, <2>2, ShellStepKeeps
<1> QED BY <1>8, <1>9

\* The kernel's session changes under rshd: it is no longer its own.
LEMMA SessionChanges ==
  ASSUME RsInv, UNCHANGED <<rsh, toServer, toClient, rsTaken>>,
         rsd' \in RshdStates, rsd'.at = rsd.at, rsd'.user = rsd.user, ~rsd'.own
  PROVE  RsInv'
<1>1. Coming' = Coming
  BY DEF Coming
<1>2. RsTypeOK' /\ FreshConnection' /\ PromptsAgree' /\ CommandsAreAuthorised'
  BY DEF RsInv, RsTypeOK, FreshConnection, PromptsAgree, CommandsAreAuthorised
<1>3. LoginTurn' /\ ShellTurn' /\ PromptDue'
  BY <1>1 DEF RsInv, LoginTurn, ShellTurn, PromptDue, NoLoginText
<1> QED BY <1>2, <1>3 DEF RsInv

LEMMA LogoutKeeps == RsInv /\ CommandLogsOut => RsInv'
<1> SUFFICES ASSUME RsInv, CommandLogsOut PROVE RsInv'
  OBVIOUS
<1> DEFINE nothing == ""
           no == FALSE
<1>1. /\ rsd' = [rsd EXCEPT !.cmd = nothing, !.own = no]
      /\ UNCHANGED <<rsh, toServer, toClient, rsTaken>>
  BY DEF CommandLogsOut
<1>2. nothing \in RsLines /\ no \in BOOLEAN /\ ~no /\ rsd \in RshdStates
  BY DEF RsLines, RsInv, RsTypeOK
<1> HIDE DEF nothing, no
<1>3. rsd' \in RshdStates
  BY ONLY <1>1, <1>2 DEF RshdStates
<1>4. rsd'.at = rsd.at /\ rsd'.user = rsd.user /\ rsd'.own = no
  BY ONLY <1>1, <1>2 DEF RshdStates
<1> QED BY <1>1, <1>2, <1>3, <1>4, SessionChanges

LEMMA ConsoleKeeps == ASSUME RsInv, NEW u, ConsoleSession(u) PROVE RsInv'
<1> DEFINE no == FALSE
<1>1. rsd' = [rsd EXCEPT !.own = no] /\ UNCHANGED <<rsh, toServer, toClient, rsTaken>>
  BY DEF ConsoleSession
<1>2. no \in BOOLEAN /\ ~no /\ rsd \in RshdStates
  BY DEF RsInv, RsTypeOK
<1> HIDE DEF no
<1>3. rsd' \in RshdStates
  BY ONLY <1>1, <1>2 DEF RshdStates
<1>4. rsd'.at = rsd.at /\ rsd'.user = rsd.user /\ rsd'.own = no
  BY ONLY <1>1, <1>2 DEF RshdStates
<1> QED BY <1>1, <1>2, <1>3, <1>4, SessionChanges

LEMMA CloseKeeps == RsInv /\ rshd_close => RsInv'
<1> SUFFICES ASSUME RsInv, rshd_close PROVE RsInv'
  OBVIOUS
<1>1. rsd' = Waiting /\ UNCHANGED <<rsh, toServer, toClient, rsSession, rsTaken>> /\ rsd.at = "close"
  BY DEF rshd_close
<1>2. rsd' \in RshdStates /\ rsd'.at = "accept"
  BY <1>1, FirstStates DEF Waiting
<1>3. RsTypeOK'
  BY <1>1, <1>2 DEF RsInv, RsTypeOK
<1>4. FreshConnection' /\ PromptsAgree'
  BY <1>1 DEF RsInv, FreshConnection, PromptsAgree
<1>5. LoginTurn' /\ ShellTurn' /\ PromptDue' /\ CommandsAreAuthorised'
  BY <1>2 DEF LoginTurn, ShellTurn, PromptDue, CommandsAreAuthorised, Prompts
<1> QED BY <1>3, <1>4, <1>5 DEF RsInv

LEMMA ConnectKeeps == RsInv /\ rsh_connect => RsInv'
<1> SUFFICES ASSUME RsInv, rsh_connect PROVE RsInv'
  OBVIOUS
<1>1. /\ rsd.at = "accept" /\ UNCHANGED <<rsd, rsSession>>
      /\ toServer' = <<>> /\ toClient' = <<>> /\ rsTaken' = [at |-> "", typed |-> ""]
      /\ rsh' = [NoClient EXCEPT !.at = "connect"]
  BY DEF rsh_connect
<1>2. rsh' \in RshStates /\ rsh'.at = "connect" /\ rsh'.tail = <<>>
  BY <1>1, FirstStates
<1>3. RsTypeOK'
  BY <1>1, <1>2, EmptyStream DEF RsInv, RsTypeOK
<1>4. FreshConnection' /\ PromptsAgree' /\ LoginTurn' /\ ShellTurn' /\ PromptDue' /\ CommandsAreAuthorised'
  BY <1>1, <1>2 DEF RsInv, FreshConnection, PromptsAgree, LoginTurn, ShellTurn, PromptDue,
                    CommandsAreAuthorised, Prompts
<1> QED BY <1>3, <1>4 DEF RsInv

LEMMA EndsKeeps == RsInv /\ rsh_ends => RsInv'
<1> SUFFICES ASSUME RsInv, rsh_ends PROVE RsInv'
  OBVIOUS
<1>1. rsh' = NoClient /\ toClient' = <<>> /\ UNCHANGED <<rsd, toServer, rsSession, rsTaken>>
  BY DEF rsh_ends
<1>2. rsh' \in RshStates /\ rsh'.at = "off" /\ rsh'.tail = <<>>
  BY <1>1, FirstStates DEF NoClient
<1>3. RsTypeOK'
  BY <1>1, <1>2, EmptyStream DEF RsInv, RsTypeOK
<1>4. Coming' = <<>>
  BY <1>1, <1>2, EmptyStream, ConcatEmptySeq DEF Coming
<1>5. LoginTurn' /\ ShellTurn'
  BY <1>1, <1>2, <1>4, EmptyStream DEF RsInv, LoginTurn, ShellTurn, NoLoginText
<1>6. FreshConnection' /\ PromptsAgree' /\ PromptDue' /\ CommandsAreAuthorised'
  BY <1>1, <1>2 DEF RsInv, FreshConnection, PromptsAgree, PromptDue, CommandsAreAuthorised
<1> QED BY <1>3, <1>5, <1>6 DEF RsInv

LEMMA ReadKeeps == ASSUME RsInv, NEW text \in RsLines, rsh_read_line(text) PROVE RsInv'
<1>1. /\ rsh.at = "typing" /\ UNCHANGED <<rsd, toClient, rsSession, rsTaken>>
      /\ toServer' = Append(toServer, [text |-> text, prompt |-> rsh.prompt])
      /\ rsh' = [rsh EXCEPT !.at = IF text = "exit" THEN "leaving" ELSE "wait", !.typed = @ + 1]
  BY DEF rsh_read_line
<1>2. rsh \in RshStates /\ toServer \in Seq(RsLine) /\ toClient \in Seq(RsWords) /\ rsd \in RshdStates
  BY DEF RsInv, RsTypeOK
<1>3. rsh' \in RshStates /\ rsh'.at \in {"leaving", "wait"} /\ rsh'.tail = rsh.tail
  <2>1. rsh.typed \in Int
    BY <1>2 DEF RshStates
  <2>2. rsh.typed + 1 \in Int
    BY <2>1
  <2> QED BY <1>1, <1>2, <2>2 DEF RshStates
<1> DEFINE x == [text |-> text, prompt |-> rsh.prompt]
<1>4. x.prompt = rsh.prompt
  OBVIOUS
<1>5. rsh.prompt \in Prompts
  BY <1>1 DEF RsInv, RsTypeOK
<1>6. x \in RsLine
  BY <1>5 DEF RsLine
<1>7. toServer' = Append(toServer, x)
  BY <1>1
<1> HIDE DEF x
<1>8. RsTypeOK' /\ Coming' = Coming /\ toServer' # <<>>
  <2>1. RsTypeOK'
    BY <1>1, <1>2, <1>3, <1>6, <1>7, LineSent DEF RsTypeOK, RsInv
  <2>2. toServer' # <<>>
    BY <1>2, <1>6, <1>7, AppendProperties
  <2> QED BY <1>1, <1>3, <2>1, <2>2 DEF Coming
<1>9. LoginTurn'
  <2> SUFFICES ASSUME rsd.at \in {"login: ", "password: "} PROVE LoginTurn'
    BY <1>1 DEF LoginTurn
  <2>1. /\ toServer = <<>> /\ rsh.prompt = rsd.at /\ LastAsks(Coming, rsd.at) /\ AsksNothing(Coming)
    BY <1>1 DEF RsInv, LoginTurn
  <2>2. TypedAt(toServer, rsd.at)
    BY <2>1, EmptyStream
  <2>3. Len(toServer') <= 1 /\ TypedAt(toServer', rsd.at)
    BY <1>2, <1>4, <1>6, <1>7, <2>1, <2>2, LineSent
  <2> QED BY <1>1, <1>3, <1>8, <2>1, <2>3 DEF LoginTurn
<1>10. ShellTurn'
  <2> SUFFICES ASSUME NoLoginText, rsd.at \in {"$ ", "exec"} PROVE ShellTurn'
    BY <1>1 DEF ShellTurn, NoLoginText
  <2>1. TypedAt(toServer, "$ ") /\ OnlyShellAsks(Coming) /\ rsh.prompt = "$ "
    BY <1>1 DEF RsInv, ShellTurn
  <2>2. TypedAt(toServer', "$ ")
    BY <1>2, <1>4, <1>6, <1>7, <2>1, LineSent
  <2> QED BY <1>1, <1>3, <1>8, <2>1, <2>2 DEF ShellTurn
<1>11. FreshConnection' /\ PromptsAgree' /\ PromptDue' /\ CommandsAreAuthorised'
  BY <1>1, <1>3, <1>8 DEF RsInv, FreshConnection, PromptsAgree, PromptDue, CommandsAreAuthorised
<1> QED BY <1>8, <1>9, <1>10, <1>11 DEF RsInv

\* A non-empty set of naturals has a least element.
LEMMA SmallestNat ==
  ASSUME NEW S, S \subseteq Nat, S # {}
  PROVE  \E m \in S : \A y \in S : m <= y
<1>1. PICK m \in S : \A y \in S : ~(<<y, m>> \in OpToRel(<,Nat))
  BY NatLessThanWellFounded, WFMin, Zenon
<1>2. \A y \in S : m <= y
  <2> SUFFICES ASSUME NEW y \in S, y < m PROVE FALSE
    OBVIOUS
  <2>1. <<y, m>> \in Nat \X Nat /\ <<y, m>>[1] < <<y, m>>[2]
    OBVIOUS
  <2>2. <<y, m>> \in OpToRel(<,Nat)
    BY <2>1 DEF OpToRel
  <2> QED BY <2>2, <1>1
<1> QED BY <1>2

\* The end of a stream.
LEMMA SuffixStands ==
  ASSUME NEW w \in Seq(RsWords), NEW k \in Nat, k <= Len(w), NEW r \in Seq(RsWords),
         Len(r) = Len(w) - k, \A i \in 1..Len(r) : r[i] = w[k + i]
  PROVE  /\ AsksNothing(w) => AsksNothing(r)
         /\ OnlyShellAsks(w) => OnlyShellAsks(r)
         /\ \A p : LastAsks(w, p) => LastAsks(r, p)
         /\ \A p : DueAt(w, p) /\ k + 2 <= Len(w) => DueAt(r, p)
<1>1. Len(w) \in Nat
  BY LenProperties
<1>2. \A i \in 1..Len(r) : k + i \in 1..Len(w) /\ r[i] = w[k + i]
  BY <1>1
<1>3. AsksNothing(w) => AsksNothing(r)
  BY <1>2 DEF AsksNothing
<1>4. OnlyShellAsks(w) => OnlyShellAsks(r)
  BY <1>2 DEF OnlyShellAsks
<1>5. ASSUME NEW p, LastAsks(w, p) PROVE LastAsks(r, p)
  <2> SUFFICES ASSUME NEW i \in 1..Len(r), r[i] \in Firsts
               PROVE r[i] = Halves[p][1] /\ i = Len(r) - 1
    BY DEF LastAsks
  <2>1. k + i \in 1..Len(w) /\ r[i] = w[k + i]
    BY <1>2
  <2>2. w[k + i] = Halves[p][1] /\ k + i = Len(w) - 1
    BY <1>5, <2>1 DEF LastAsks
  <2>3. i = Len(r) - 1
    <3>1. k + i = Len(w) - 1 /\ Len(r) = Len(w) - k /\ i \in Int /\ k \in Int /\ Len(w) \in Int
      BY <1>1, <2>2
    <3> QED BY ONLY <3>1
  <2> QED BY <2>1, <2>2, <2>3
<1>6. ASSUME NEW p, DueAt(w, p), k + 2 <= Len(w) PROVE DueAt(r, p)
  <2>1. Len(r) >= 2 /\ k + (Len(r) - 1) = Len(w) - 1 /\ k + Len(r) = Len(w)
        /\ Len(r) - 1 \in 1..Len(r) /\ Len(r) \in 1..Len(r)
    <3> DEFINE a == Len(r)
               b == Len(w)
    <3>1. a = b - k /\ b \in Nat /\ k \in Nat /\ k + 2 <= b
      BY <1>1, <1>6
    <3> HIDE DEF a, b
    <3>2. a >= 2 /\ k + (a - 1) = b - 1 /\ k + a = b /\ a - 1 \in 1..a /\ a \in 1..a
      BY ONLY <3>1
    <3> QED BY <3>2 DEF a, b
  <2>2. r[Len(r) - 1] = w[Len(w) - 1] /\ r[Len(r)] = w[Len(w)]
    BY <1>2, <2>1
  <2> QED BY <1>6, <2>1, <2>2 DEF DueAt
<1> QED BY <1>3, <1>4, <1>5, <1>6

\* A chunk received after what was kept of the last one.
LEMMA ChunkSeen ==
  ASSUME NEW t \in Seq(RsWords), NEW w \in Seq(RsWords), NEW n \in 1..Len(w)
  PROVE  LET seen == t \o SubSeq(w, 1, n)
             rest == SubSeq(w, n + 1, Len(w))
             all == t \o w
         IN  /\ seen \in Seq(RsWords) /\ rest \in Seq(RsWords)
             /\ Len(seen) \in Nat /\ Len(seen) >= 1 /\ Len(all) = Len(seen) + Len(rest)
             /\ Len(rest) \in Nat
             /\ \A i \in 1..Len(seen) : seen[i] = all[i] /\ seen[i] \in RsWords
             /\ \A i \in 1..Len(rest) : rest[i] = all[Len(seen) + i]
<1> DEFINE c == SubSeq(w, 1, n)
           rest == SubSeq(w, n + 1, Len(w))
           seen == t \o c
           all == t \o w
<1>0. Len(w) \in Nat /\ n \in Nat /\ 1 <= n /\ n <= Len(w) /\ Len(t) \in Nat
  BY LenProperties
<1>1. c \in Seq(RsWords) /\ Len(c) = n /\ \A i \in 1..n : c[i] = w[i]
  <2>1. \A i \in 1..n : w[i] \in RsWords
    BY <1>0, ElementOfSeq
  <2>2. /\ c \in Seq(RsWords) /\ Len(c) = IF 1 <= n THEN n - 1 + 1 ELSE 0
        /\ \A i \in 1..(n - 1 + 1) : c[i] = w[1 + i - 1]
    BY <1>0, <2>1, SubSeqProperties
  <2> QED BY <1>0, <2>2
<1>2. rest \in Seq(RsWords) /\ Len(rest) = Len(w) - n /\ \A i \in 1..(Len(w) - n) : rest[i] = w[n + i]
  <2>1. \A i \in (n + 1)..Len(w) : w[i] \in RsWords
    BY <1>0, ElementOfSeq
  <2>2. n + 1 <= Len(w) + 1 /\ n + 1 \in Int
    BY <1>0
  <2> QED BY <1>0, <2>1, <2>2, SubSeqProperties
<1> HIDE DEF c, rest
<1>3. /\ seen \in Seq(RsWords) /\ Len(seen) = Len(t) + n
      /\ \A i \in 1..Len(t) : seen[i] = t[i]
      /\ \A i \in 1..n : seen[Len(t) + i] = w[i]
      /\ \A i \in 1..Len(seen) : i \in 1..Len(t) \/ \E j \in 1..n : i = Len(t) + j
  BY <1>1, Joined
<1>4. /\ Len(all) = Len(t) + Len(w)
      /\ \A i \in 1..Len(t) : all[i] = t[i]
      /\ \A i \in 1..Len(w) : all[Len(t) + i] = w[i]
  BY Joined
<1> HIDE DEF seen, all
<1>5. ASSUME NEW i \in 1..Len(seen) PROVE seen[i] = all[i] /\ seen[i] \in RsWords
  <2>1. seen[i] \in RsWords
    BY <1>3, ElementOfSeq
  <2>2. CASE i \in 1..Len(t)
    BY <1>3, <1>4, <2>1, <2>2
  <2>3. CASE \E j \in 1..n : i = Len(t) + j
    <3>1. PICK j \in 1..n : i = Len(t) + j
      BY <2>3
    <3>2. j \in 1..Len(w)
      BY <1>0
    <3> QED BY <1>3, <1>4, <2>1, <3>1, <3>2
  <2> QED BY <1>3, <2>2, <2>3
<1>6. ASSUME NEW i \in 1..Len(rest) PROVE rest[i] = all[Len(seen) + i]
  <2>1. n + i \in 1..Len(w) /\ Len(t) + (n + i) = Len(seen) + i /\ i \in 1..(Len(w) - n)
    BY <1>0, <1>2, <1>3
  <2>2. all[Len(t) + (n + i)] = w[n + i]
    BY <1>4, <2>1
  <2> QED BY <1>2, <2>1, <2>2
<1>7. Len(seen) \in Nat /\ Len(seen) >= 1 /\ Len(all) = Len(seen) + Len(rest) /\ Len(rest) \in Nat
  BY <1>0, <1>2, <1>3, <1>4
<1> QED BY <1>2, <1>3, <1>5, <1>6, <1>7 DEF c, rest, seen, all

\* The prompt found in a text is the one whose pieces stand there first.
LEMMA PromptFound ==
  ASSUME NEW seen \in Seq(RsWords), AsksAt(seen) # {}
  PROVE  /\ FirstPrompt(seen) \in Prompts
         /\ \E i \in 1..Len(seen) : /\ i + 1 <= Len(seen) /\ seen[i] \in Firsts
                                    /\ seen[i] = Halves[FirstPrompt(seen)][1]
<1> DEFINE at == AsksAt(seen)
           first == CHOOSE i \in at : \A j \in at : i <= j
           p == CHOOSE q \in Prompts : Halves[q] = <<seen[first], seen[first + 1]>>
<1>0. Len(seen) \in Nat
  BY LenProperties
<1>1. first \in at
  <2>1. at \subseteq Nat
    BY <1>0 DEF AsksAt
  <2>2. PICK m \in at : \A j \in at : m <= j
    BY <2>1, SmallestNat
  <2> QED BY <2>2
<1>2. /\ first \in 1..(Len(seen) - 1)
      /\ \E q \in Prompts : Halves[q] = <<seen[first], seen[first + 1]>>
  BY <1>1 DEF AsksAt
<1>3. p = FirstPrompt(seen)
  BY DEF FirstPrompt
<1> HIDE DEF at, first
<1>4. p \in Prompts /\ Halves[p] = <<seen[first], seen[first + 1]>>
  BY <1>2
<1>5. Halves[p][1] \in Firsts /\ Halves[p][1] = seen[first]
  BY <1>4, PromptHalves
<1>6. first \in 1..Len(seen) /\ first + 1 <= Len(seen)
  BY <1>0, <1>2
<1> QED BY <1>3, <1>4, <1>5, <1>6

\* A chunk with the prompt in it: the user types at the only prompt there can be.
\* One without it: the last piece is kept, so that a cut prompt is still to come.
LEMMA ChunkKeeps ==
  ASSUME RsInv, NEW n \in 1..Len(toClient), rsh_recv_until_prompt(n) PROVE RsInv'
<1> DEFINE seen == rsh.tail \o SubSeq(toClient, 1, n)
           rest == SubSeq(toClient, n + 1, Len(toClient))
           all == rsh.tail \o toClient
           asked == AsksAt(seen)
           prompt == FirstPrompt(seen)
           kept == <<seen[Len(seen)]>>
<1>1. /\ rsh.at \in {"wait", "leaving"} /\ toClient' = rest
      /\ rsh' = IF asked = {} THEN [rsh EXCEPT !.tail = kept]
                ELSE IF rsh.at = "leaving" THEN NoClient
                ELSE [rsh EXCEPT !.at = "typing", !.tail = <<>>, !.prompt = prompt]
      /\ UNCHANGED <<rsd, toServer, rsSession, rsTaken>>
  BY DEF rsh_recv_until_prompt
<1>2. /\ rsh \in RshStates /\ rsh.tail \in Seq(RsWords) /\ toServer \in Seq(RsLine)
      /\ toClient \in Seq(RsWords) /\ rsd \in RshdStates
  BY DEF RsInv, RsTypeOK, RshStates
<1>3. /\ seen \in Seq(RsWords) /\ rest \in Seq(RsWords) /\ all \in Seq(RsWords)
      /\ Len(seen) \in Nat /\ Len(seen) >= 1 /\ Len(all) = Len(seen) + Len(rest)
      /\ Len(rest) \in Nat
      /\ \A i \in 1..Len(seen) : seen[i] = all[i] /\ seen[i] \in RsWords
      /\ \A i \in 1..Len(rest) : rest[i] = all[Len(seen) + i]
  BY <1>2, ChunkSeen, Joined
<1>4. all = Coming
  BY DEF Coming
<1>5. asked # {} => /\ prompt \in Prompts
                    /\ \E i \in 1..Len(seen) : /\ i + 1 <= Len(seen) /\ seen[i] \in Firsts
                                               /\ seen[i] = Halves[prompt][1]
  BY <1>3, PromptFound
<1>6. \A i \in 1..(Len(seen) - 1), p \in Prompts :
         seen[i] = Halves[p][1] /\ seen[i + 1] = Halves[p][2] => asked # {}
  <2> SUFFICES ASSUME NEW i \in 1..(Len(seen) - 1), NEW p \in Prompts,
                      seen[i] = Halves[p][1], seen[i + 1] = Halves[p][2]
               PROVE  asked # {}
    OBVIOUS
  <2>1. Halves[p] = <<seen[i], seen[i + 1]>>
    BY PromptHalves
  <2> QED BY <2>1 DEF AsksAt
<1>7. kept \in Seq(RsWords) /\ Len(kept) = 1 /\ kept[1] = seen[Len(seen)]
  <2>1. seen[Len(seen)] \in RsWords
    BY <1>3
  <2> QED BY <2>1
<1> HIDE DEF seen, rest, all, asked, prompt, kept
<1>8. CASE asked = {}
  <2>1. rsh' = [rsh EXCEPT !.tail = kept]
    BY <1>1, <1>8
  <2>2. /\ rsh' \in RshStates /\ rsh'.tail = kept /\ rsh'.at = rsh.at /\ rsh'.prompt = rsh.prompt
    BY <1>2, <1>7, <2>1 DEF RshStates
  <2> DEFINE r == kept \o rest
             k == Len(seen) - 1
  <2>3. Coming' = r
    BY <1>1, <2>2 DEF Coming
  <2>4. /\ r \in Seq(RsWords) /\ Len(r) = 1 + Len(rest) /\ r[1] = seen[Len(seen)]
        /\ \A i \in 1..Len(rest) : r[1 + i] = rest[i]
        /\ \A i \in 1..Len(r) : i = 1 \/ \E j \in 1..Len(rest) : i = 1 + j
    <3>1. /\ r \in Seq(RsWords) /\ Len(r) = Len(kept) + Len(rest)
          /\ \A i \in 1..Len(kept) : r[i] = kept[i]
          /\ \A i \in 1..Len(rest) : r[Len(kept) + i] = rest[i]
          /\ \A i \in 1..Len(r) : i \in 1..Len(kept) \/ \E j \in 1..Len(rest) : i = Len(kept) + j
      BY <1>3, <1>7, Joined
    <3> QED BY <1>7, <3>1
  <2> HIDE DEF r
  <2>5. k \in Nat /\ k <= Len(all) /\ Len(r) = Len(all) - k
    BY <1>3, <2>4
  <2>6. ASSUME NEW i \in 1..Len(r) PROVE r[i] = all[k + i]
    <3>1. CASE i = 1
      <4>1. k + i = Len(seen) /\ Len(seen) \in 1..Len(seen)
        BY <1>3, <3>1
      <4> QED BY <1>3, <2>4, <3>1, <4>1
    <3>2. CASE \E j \in 1..Len(rest) : i = 1 + j
      <4>1. PICK j \in 1..Len(rest) : i = 1 + j
        BY <3>2
      <4>2. k + i = Len(seen) + j
        BY <1>3, <4>1
      <4> QED BY <1>3, <2>4, <4>1, <4>2
    <3> QED BY <2>4, <3>1, <3>2
  <2> HIDE DEF k
  <2>7. /\ AsksNothing(all) => AsksNothing(r)
        /\ OnlyShellAsks(all) => OnlyShellAsks(r)
        /\ \A p : LastAsks(all, p) => LastAsks(r, p)
        /\ \A p : DueAt(all, p) /\ k + 2 <= Len(all) => DueAt(r, p)
    BY <1>3, <2>4, <2>5, <2>6, SuffixStands
  <2>8. ASSUME NEW p \in Prompts, DueAt(all, p) PROVE DueAt(r, p)
    <3>1. Len(all) >= 2 /\ all[Len(all) - 1] = Halves[p][1] /\ all[Len(all)] = Halves[p][2]
      BY <2>8 DEF DueAt
    <3>2. Len(seen) # Len(all)
      <4> SUFFICES ASSUME Len(seen) = Len(all) PROVE FALSE
        OBVIOUS
      <4>1. /\ Len(seen) - 1 \in 1..(Len(seen) - 1) /\ Len(seen) - 1 \in 1..Len(seen)
            /\ Len(seen) \in 1..Len(seen) /\ (Len(seen) - 1) + 1 = Len(seen)
        BY <1>3, <3>1
      <4>2. seen[Len(seen) - 1] = Halves[p][1] /\ seen[(Len(seen) - 1) + 1] = Halves[p][2]
        BY <1>3, <3>1, <4>1
      <4> QED BY <1>6, <1>8, <4>1, <4>2
    <3>3. k + 2 <= Len(all)
      BY <1>3, <3>2 DEF k
    <3> QED BY <2>7, <2>8, <3>3
  <2>9. RsTypeOK'
    <3>1. rsd' \in RshdStates /\ rsh' \in RshStates /\ toServer' \in Seq(RsLine) /\ toClient' \in Seq(RsWords)
      BY <1>1, <1>2, <1>3, <2>2
    <3>2. rsh'.at \in {"wait", "leaving"} /\ rsh'.tail = kept
      BY <1>1, <2>2
    <3>4. Len(kept) <= 1
      BY <1>7
    <3> QED BY <3>1, <3>2, <3>4 DEF RsTypeOK
  <2>10. LoginTurn'
    BY <1>1, <1>4, <2>2, <2>3, <2>7 DEF RsInv, LoginTurn
  <2>11. ShellTurn'
    BY <1>1, <1>4, <2>2, <2>3, <2>7 DEF RsInv, ShellTurn, NoLoginText
  <2>12. PromptDue'
    BY <1>1, <1>4, <2>2, <2>3, <2>8 DEF RsInv, PromptDue
  <2>13. FreshConnection' /\ PromptsAgree' /\ CommandsAreAuthorised'
    BY <1>1, <2>2 DEF RsInv, FreshConnection, PromptsAgree, CommandsAreAuthorised
  <2> QED BY <2>9, <2>10, <2>11, <2>12, <2>13 DEF RsInv
<1>9. CASE asked # {}
  <2>1. /\ rsh' \in RshStates /\ rsh'.tail = <<>>
        /\ rsh'.at \in {"off", "typing"} /\ (rsh'.at = "typing" => rsh'.prompt = prompt)
    <3>1. CASE rsh.at = "leaving"
      <4>1. rsh' = NoClient
        BY <1>1, <1>9, <3>1
      <4> QED BY <4>1, FirstStates DEF NoClient
    <3>2. CASE rsh.at # "leaving"
      <4> DEFINE none == <<>>
      <4>1. rsh' = [rsh EXCEPT !.at = "typing", !.tail = none, !.prompt = prompt]
        BY <1>1, <1>9, <3>2
      <4>2. none \in Seq(RsWords) /\ none = <<>>
        BY EmptyStream
      <4> HIDE DEF none
      <4> QED BY <1>2, <1>5, <1>9, <4>1, <4>2 DEF RshStates
    <3> QED BY <3>1, <3>2
  <2>2. Coming' = rest
    <3>1. <<>> \o rest = rest
      BY <1>3, ConcatEmptySeq
    <3> QED BY <1>1, <2>1, <3>1 DEF Coming
  <2>3. /\ AsksNothing(all) => AsksNothing(rest)
        /\ OnlyShellAsks(all) => OnlyShellAsks(rest)
        /\ \A p : LastAsks(all, p) => LastAsks(rest, p)
    <3>1. Len(seen) <= Len(all) /\ Len(rest) = Len(all) - Len(seen)
      BY <1>3
    <3> QED BY <1>3, <3>1, SuffixStands
  <2>4. PICK i \in 1..Len(seen) : /\ i + 1 <= Len(seen) /\ seen[i] \in Firsts
                                  /\ seen[i] = Halves[prompt][1]
    BY <1>5, <1>9
  <2>5. all[i] = seen[i] /\ i \in 1..Len(all)
    BY <1>3, <2>4
  <2>6. ASSUME NEW p \in Prompts, LastAsks(all, p) PROVE prompt = p /\ rest = <<>>
    <3>1. all[i] = Halves[p][1] /\ i = Len(all) - 1
      BY <2>4, <2>5, <2>6 DEF LastAsks
    <3>2. Len(rest) = 0
      BY <1>3, <2>4, <3>1
    <3>3. rest = <<>>
      BY <1>3, <3>2, EmptySeq
    <3>4. prompt = p
      BY <1>5, <1>9, <2>4, <2>5, <3>1, PromptHalves
    <3> QED BY <3>3, <3>4
  <2>7. RsTypeOK'
    BY <1>1, <1>2, <1>3, <1>5, <1>9, <2>1, EmptyStream DEF RsTypeOK
  <2>8. LoginTurn'
    <3> SUFFICES ASSUME rsd.at \in {"login: ", "password: "} PROVE LoginTurn'
      BY <1>1 DEF LoginTurn
    <3>1. /\ Len(toServer) <= 1 /\ TypedAt(toServer, rsd.at) /\ LastAsks(all, rsd.at)
          /\ toServer # <<>> => AsksNothing(all)
      BY <1>4 DEF RsInv, LoginTurn
    <3>2. prompt = rsd.at /\ rest = <<>>
      BY <2>6, <3>1 DEF Prompts
    <3>3. toServer = <<>>
      BY <2>4, <2>5, <3>1 DEF AsksNothing
    <3>4. LastAsks(rest, rsd.at) /\ AsksNothing(rest)
      BY <3>2, EmptyStream
    <3> QED BY <1>1, <2>1, <2>2, <3>1, <3>2, <3>3, <3>4 DEF LoginTurn
  <2>9. ShellTurn'
    <3> SUFFICES ASSUME NoLoginText, rsd.at \in {"$ ", "exec"} PROVE ShellTurn'
      BY <1>1 DEF ShellTurn, NoLoginText
    <3>1. TypedAt(toServer, "$ ") /\ OnlyShellAsks(all)
      BY <1>4 DEF RsInv, ShellTurn
    <3>2. Halves[prompt][1] = "$"
      BY <2>4, <2>5, <3>1 DEF OnlyShellAsks
    <3>3. prompt = "$ "
      <4>1. "$ " \in Prompts /\ Halves["$ "][1] = "$"
        BY DEF Prompts, Halves
      <4> QED BY <1>5, <1>9, <3>2, <4>1, PromptHalves
    <3> QED BY <1>1, <2>1, <2>2, <2>3, <3>1, <3>3 DEF ShellTurn
  <2>10. PromptDue' /\ FreshConnection' /\ PromptsAgree' /\ CommandsAreAuthorised'
    BY <1>1, <2>1 DEF RsInv, PromptDue, FreshConnection, PromptsAgree, CommandsAreAuthorised
  <2> QED BY <2>7, <2>8, <2>9, <2>10 DEF RsInv
<1> QED BY <1>8, <1>9

LEMMA RsInvStep ==
  ASSUME RSHD_OUT_LIMIT \in Nat, RsInv, [RsNext]_rsVars PROVE RsInv'
<1>1. CASE rshd_accept
  BY <1>1, AcceptKeeps
<1>2. CASE LoginName
  BY <1>2, NameKeeps
<1>3. CASE LoginPassword
  BY <1>3, PasswordKeeps
<1>4. CASE rshd_handle_builtin
  BY <1>4, BuiltinKeeps
<1>5. CASE rshd_close
  BY <1>5, CloseKeeps
<1>6. CASE \E w \in RsOutput : CommandPrints(w)
  BY <1>6, PrintKeeps
<1>7. CASE \E exits \in BOOLEAN : rshd_apply_ret(exits)
  BY <1>7, ReturnKeeps
<1>8. CASE rsh_connect
  BY <1>8, ConnectKeeps
<1>9. CASE rsh_ends
  BY <1>9, EndsKeeps
<1>10. CASE \E n \in 1..Len(toClient) : rsh_recv_until_prompt(n)
  BY <1>10, ChunkKeeps
<1>11. CASE \E text \in RsLines : rsh_read_line(text)
  BY <1>11, ReadKeeps
<1>12. CASE CommandLogsOut
  BY <1>12, LogoutKeeps
<1>13. CASE \E u \in RsUsers \cup {""} : ConsoleSession(u)
  BY <1>13, ConsoleKeeps
<1>14. CASE UNCHANGED rsVars
  BY <1>14 DEF rsVars, RsInv, RsTypeOK, FreshConnection, LoginTurn, ShellTurn, PromptDue, Coming,
               PromptsAgree, CommandsAreAuthorised
<1> QED BY <1>1, <1>2, <1>3, <1>4, <1>5, <1>6, <1>7, <1>8, <1>9, <1>10, <1>11, <1>12, <1>13, <1>14
        DEF RsNext, RshdNext

\* Nobody waits for nothing: what rsh kept is one piece, and a prompt has two.
LEMMA NobodyWaits == RsInv => NoMutualWait
<1> SUFFICES ASSUME RsInv, rsd.at \in Prompts, rsh.at = "wait", toServer = <<>>, toClient = <<>>
             PROVE  FALSE
  BY DEF NoMutualWait
<1>1. rsh.tail \in Seq(RsWords) /\ Len(rsh.tail) <= 1
  BY DEF RsInv, RsTypeOK, RshStates
<1>2. Coming = rsh.tail
  BY <1>1, ConcatEmptySeq DEF Coming
<1>3. Len(Coming) >= 2
  BY DEF RsInv, PromptDue, DueAt
<1>4. Len(rsh.tail) \in Nat
  BY <1>1, LenProperties
<1> QED BY <1>1, <1>2, <1>3, <1>4

(***************************************************************************)
(* The remote shell is sound: lines reach rshd at the prompts they were     *)
(* typed for however the chunks cut the prompts, neither side waits for     *)
(* nothing, and commands run after a login, for any users, output, clients, *)
(* lines, and logouts and logins beside it.  The limit of the output is any *)
(* number of pieces (rshd counts 512 KiB).                                 *)
(***************************************************************************)
THEOREM RemoteIsSound == RsSpec => []RemoteSound
<1> USE RsAssumption
<1>1. RsInit => RsInv
  BY RsInvInit
<1>2. RsInv /\ [RsNext]_rsVars => RsInv'
  BY RsInvStep
<1>3. RsInv => RemoteSound
  BY NobodyWaits DEF RsInv, RemoteSound
<1> QED BY <1>1, <1>2, <1>3, PTL DEF RsSpec

(***************************************************************************)
(* The package window.                                                     *)
(***************************************************************************)

PgRow == [package : Packages, installed : BOOLEAN, selected : BOOLEAN]

PgApps ==
    [run : BOOLEAN, search : BOOLEAN, query : Int, list : Seq(Packages),
     installed : SUBSET Packages, selected : Int, scroll : Int, maximized : BOOLEAN,
     shown : SUBSET PgRow, presented : BOOLEAN, fresh : BOOLEAN]

ListedPackages(a) == {a.list[i] : i \in 1..PackageCount(a)}

\* The selection is a row of the list, and among the rows of the window.
SelectionStands(a) ==
    /\ a.list = <<>> => a.selected = -1
    /\ a.list # <<>> =>
         /\ a.selected \in 0..(PackageCount(a) - 1)
         /\ PgRows(a) > 0 => a.selected \in a.scroll..(a.scroll + PgRows(a) - 1)

\* The marks are those of the packages in the list, while the database is as it
\* was when they were read.
MarksAgree(a, d) == a.fresh => a.installed = ListedPackages(a) \cap d

PgInv ==
    /\ db \in SUBSET Packages
    /\ pg \in PgApps
    /\ SelectionStands(pg)
    /\ MarksAgree(pg, db)
    /\ pg.presented => pg.shown = PgDrawn(pg)

\* What the marks and the drawing depend on.
SameList(a, b) == a.list = b.list /\ a.installed = b.installed /\ a.fresh = b.fresh
SameView(a, b) ==
    SameList(a, b) /\ a.selected = b.selected /\ a.scroll = b.scroll /\ a.maximized = b.maximized

LEMMA SameViewDrawsTheSame ==
  ASSUME NEW a, NEW b, SameView(a, b)
  PROVE  /\ PgDrawn(a) = PgDrawn(b)
         /\ SelectionStands(a) = SelectionStands(b)
BY DEF SameView, SameList, PgDrawn, SelectionStands, PackageCount, PgRows

LEMMA DrawnRows ==
  ASSUME NEW a \in PgApps, PgSizes
  PROVE  PgDrawn(a) \in SUBSET PgRow
<1> DEFINE at == {j \in 1..PackageCount(a) : j - 1 \in a.scroll..(a.scroll + PgRows(a) - 1)}
<1>1. \A i \in at : a.list[i] \in Packages
  BY DEF PgApps, PackageCount
<1>2. \A i \in at : [package |-> a.list[i], installed |-> a.list[i] \in a.installed,
                     selected |-> a.selected = i - 1] \in PgRow
  <2> SUFFICES ASSUME NEW i \in at
               PROVE  [package |-> a.list[i], installed |-> a.list[i] \in a.installed,
                       selected |-> a.selected = i - 1] \in PgRow
    OBVIOUS
  <2> QED BY <1>1 DEF PgRow
<1> QED BY <1>2, Zenon DEF PgDrawn

\* pg_render draws what the fields say.
LEMMA RenderShows ==
  ASSUME NEW a \in PgApps, NEW ok \in BOOLEAN, PgSizes
  PROVE  /\ PgRenderPresent(a, ok) \in PgApps
         /\ SameView(PgRenderPresent(a, ok), a)
         /\ PgRenderPresent(a, ok).presented =>
              PgRenderPresent(a, ok).shown = PgDrawn(PgRenderPresent(a, ok))
<1> DEFINE s == IF ok THEN PgDrawn(a) ELSE {}
           b == [a EXCEPT !.shown = s, !.presented = ok]
<1>1. s \in SUBSET PgRow /\ (ok => s = PgDrawn(a))
  BY DrawnRows
<1>2. PgRenderPresent(a, ok) = b
  BY DEF PgRenderPresent
<1> HIDE DEF s
<1>3. b \in PgApps /\ SameView(b, a) /\ b.shown = s /\ b.presented = ok
  BY <1>1 DEF PgApps, SameView, SameList
<1> HIDE DEF b
<1>4. PgDrawn(b) = PgDrawn(a)
  BY <1>3, SameViewDrawsTheSame
<1> QED BY <1>1, <1>2, <1>3, <1>4

LEMMA ClampSteadies ==
  ASSUME NEW a \in PgApps, PgSizes
  PROVE  /\ PgClampSelection(a) \in PgApps
         /\ SameList(PgClampSelection(a), a)
         /\ SelectionStands(PgClampSelection(a))
<1> DEFINE n == PackageCount(a)
           r == PgRows(a)
           sel == IF a.selected \in 0..(n - 1) THEN a.selected ELSE 0
           max == IF n > r THEN n - r ELSE 0
           low == PgClampi(a.scroll, 0, max)
           up == IF sel < low THEN sel ELSE low
           down == IF sel >= up + r THEN sel - r + 1 ELSE up
           to == IF r <= 0 THEN 0 ELSE down
<1>1. n \in Nat /\ r \in Int /\ a.selected \in Int /\ a.scroll \in Int
  BY DEF PgApps, PackageCount, PgRows, PgSizes
<1>2. sel \in Int /\ low \in Int /\ up \in Int /\ to \in Int
  BY <1>1 DEF PgClampi
<1>3. CASE a.list = <<>>
  <2>1. PgClampSelection(a) = [a EXCEPT !.selected = -1, !.scroll = 0]
    BY <1>3 DEF PgClampSelection
  <2> DEFINE m == -1
             z == 0
  <2>2. m \in Int /\ z \in Int
    OBVIOUS
  <2> HIDE DEF m, z
  <2> DEFINE b == [a EXCEPT !.selected = m, !.scroll = z]
  <2>3. b \in PgApps /\ b.list = a.list /\ b.installed = a.installed /\ b.selected = m
        /\ b.fresh = a.fresh
    BY <2>2 DEF PgApps
  <2>4. SelectionStands(b)
    BY <2>3, <1>3 DEF SelectionStands, m
  <2> QED BY <2>1, <2>3, <2>4 DEF SameList, m, z
<1>4. CASE a.list # <<>>
  <2>1. PgClampSelection(a) = [a EXCEPT !.selected = sel, !.scroll = to]
    BY <1>4 DEF PgClampSelection
  <2>2. n > 0
    BY <1>4, <1>1, EmptySeq DEF PgApps, PackageCount
  <2>3. sel \in 0..(n - 1)
    BY <1>1, <2>2
  <2>4. r > 0 => sel \in to..(to + r - 1)
    BY <1>1, <1>2, <2>3
  <2> HIDE DEF sel, to, n, r
  <2> DEFINE b == [a EXCEPT !.selected = sel, !.scroll = to]
  <2>5. b \in PgApps /\ b.list = a.list /\ b.installed = a.installed /\ b.maximized = a.maximized
        /\ b.selected = sel /\ b.scroll = to /\ b.fresh = a.fresh
    BY <1>2 DEF PgApps
  <2>6. PackageCount(b) = n /\ PgRows(b) = r
    BY <2>5 DEF PackageCount, PgRows, n, r
  <2> HIDE DEF b
  <2>7. SelectionStands(b)
    BY <2>3, <2>4, <2>5, <2>6, <1>4 DEF SelectionStands
  <2> QED BY <2>1, <2>5, <2>7 DEF SameList, b
<1> QED BY <1>3, <1>4


\* All of PgInv but the drawing.
PgSteady(a, d) == a \in PgApps /\ SelectionStands(a) /\ MarksAgree(a, d)
PgStands(a, d) == PgSteady(a, d) /\ (a.presented => a.shown = PgDrawn(a))

LEMMA MarksAgreeAlike ==
  ASSUME NEW a, NEW b, NEW d, SameList(a, b), MarksAgree(b, d)
  PROVE  MarksAgree(a, d)
BY DEF SameList, MarksAgree, ListedPackages, PackageCount

LEMMA RenderStands ==
  ASSUME NEW a, NEW d, PgSteady(a, d), NEW ok \in BOOLEAN, PgSizes
  PROVE  PgStands(PgRenderPresent(a, ok), d)
<1> DEFINE b == PgRenderPresent(a, ok)
<1>1. a \in PgApps
  BY DEF PgSteady
<1>2. b \in PgApps /\ SameView(b, a) /\ (b.presented => b.shown = PgDrawn(b))
  BY <1>1, RenderShows
<1> HIDE DEF b
<1>3. SelectionStands(b)
  BY <1>2, SameViewDrawsTheSame DEF PgSteady
<1>4. MarksAgree(b, d)
  BY <1>2, MarksAgreeAlike DEF PgSteady, SameView
<1>5. PgStands(b, d)
  BY <1>2, <1>3, <1>4 DEF PgStands, PgSteady
<1> QED BY <1>5 DEF b

\* The handler's drawing at its end.
LEMMA ShowsStands ==
  ASSUME NEW a, NEW d, PgSteady(a, d), PgShows(a), PgSizes
  PROVE  PgStands(pg', d)
<1>1. PICK ok \in BOOLEAN : pg' = PgRenderPresent(a, ok)
  BY DEF PgShows
<1> QED BY <1>1, RenderStands

\* A change of what is neither listed nor drawn.
LEMMA AlikeStands ==
  ASSUME NEW a, NEW b \in PgApps, NEW d, PgStands(a, d), SameView(b, a), b.shown = a.shown,
         b.presented = a.presented
  PROVE  PgStands(b, d)
<1>1. PgDrawn(b) = PgDrawn(a) /\ SelectionStands(b)
  BY SameViewDrawsTheSame DEF PgStands, PgSteady
<1>2. MarksAgree(b, d)
  BY MarksAgreeAlike DEF PgStands, PgSteady, SameView
<1> QED BY <1>1, <1>2 DEF PgStands, PgSteady

LEMMA ClampStands ==
  ASSUME NEW a \in PgApps, NEW d, MarksAgree(a, d), PgSizes
  PROVE  PgSteady(PgClampSelection(a), d)
BY ClampSteadies, MarksAgreeAlike DEF PgSteady

\* pg_refresh_installed reads the marks of the whole list.
LEMMA RefreshMarks ==
  ASSUME NEW a \in PgApps, NEW d \in SUBSET Packages, NEW reads \in BOOLEAN
  PROVE  /\ RefreshInstalled(a, d, reads) \in PgApps
         /\ MarksAgree(RefreshInstalled(a, d, reads), d)
         /\ SelectionStands(a) => SelectionStands(RefreshInstalled(a, d, reads))
<1> DEFINE m == IF reads THEN ListedPackages(a) \cap d ELSE {}
           b == [a EXCEPT !.installed = m, !.fresh = reads]
<1>1. b = RefreshInstalled(a, d, reads)
  BY DEF RefreshInstalled, ListedPackages
<1>2. m \in SUBSET Packages /\ (reads => m = ListedPackages(a) \cap d)
  OBVIOUS
<1> HIDE DEF m
<1>3. b \in PgApps /\ b.list = a.list /\ b.selected = a.selected /\ b.scroll = a.scroll
      /\ b.maximized = a.maximized /\ b.installed = m /\ b.fresh = reads
  BY <1>2 DEF PgApps
<1> HIDE DEF b
<1>4. ListedPackages(b) = ListedPackages(a)
  BY <1>3 DEF ListedPackages, PackageCount
<1>5. SelectionStands(a) => SelectionStands(b)
  BY <1>3 DEF SelectionStands, PackageCount, PgRows
<1> QED BY <1>1, <1>2, <1>3, <1>4, <1>5 DEF MarksAgree

LEMMA ClientSteady ==
  ASSUME NEW a, NEW d, NEW e \in SUBSET Packages, NEW ok, NEW reads \in BOOLEAN, PgStands(a, d)
  PROVE  PgSteady(AfterClient(a, e, ok, reads), e)
BY RefreshMarks DEF PgStands, PgSteady, AfterClient

\* The list of an answer that came is new, and so are its marks.
LEMMA ListTaken ==
  ASSUME NEW a \in PgApps, NEW list \in Seq(Packages), NEW sel \in Int, NEW scroll \in Int
  PROVE  [a EXCEPT !.list = list, !.scroll = scroll, !.selected = sel] \in PgApps
BY DEF PgApps

LEMMA EmptyAnswer ==
  ASSUME NEW a \in PgApps, NEW d \in SUBSET Packages, NEW list, list = <<>>,
         NEW marks, marks = {}, NEW sel, sel = -1, NEW scroll \in Int
  PROVE  PgSteady([a EXCEPT !.list = list, !.installed = marks, !.selected = sel,
                            !.scroll = scroll], d)
<1> DEFINE b == [a EXCEPT !.list = list, !.installed = marks, !.selected = sel,
                          !.scroll = scroll]
<1>1. list \in Seq(Packages) /\ marks \in SUBSET Packages /\ sel \in Int
  OBVIOUS
<1>2. b \in PgApps /\ b.list = list /\ b.installed = marks /\ b.selected = sel
  BY <1>1 DEF PgApps
<1>3. Len(list) = 0
  BY <1>1, EmptySeq
<1>4. ListedPackages(b) = {}
  BY <1>2, <1>3 DEF ListedPackages, PackageCount
<1>5. SelectionStands(b)
  BY <1>2 DEF SelectionStands
<1> QED BY <1>2, <1>4, <1>5 DEF PgSteady, MarksAgree

LEMMA FetchSteady ==
  ASSUME NEW a, PgStands(a, db), db \in SUBSET Packages, PgSizes,
         NEW answer \in FetchAnswers, NEW packages \in Seq(Packages),
         NEW reads \in BOOLEAN
  PROVE  PgSteady(Fetched(a, answer, packages, reads), db)
<1> DEFINE n == IF Len(packages) > PG_MAX_PACKAGES THEN PG_MAX_PACKAGES ELSE Len(packages)
           list == SubSeq(packages, 1, n)
           sel == IF list = <<>> THEN -1 ELSE 0
           new == [a EXCEPT !.list = list, !.scroll = 0, !.selected = sel]
           cleared == [a EXCEPT !.list = <<>>, !.installed = {}, !.selected = -1, !.scroll = 0]
<1>1. n \in 0..Len(packages)
  BY LenProperties DEF PgSizes
<1>2. list \in Seq(Packages)
  BY <1>1, SubSeqProperties
<1>3. sel \in Int /\ 0 \in Int
  OBVIOUS
<1> HIDE DEF list, sel, n
<1>4. a \in PgApps
  BY DEF PgStands, PgSteady
<1>5. new \in PgApps
  BY <1>2, <1>3, <1>4, ListTaken
<1>6. CASE answer = "none"
  <2>1. Fetched(a, answer, packages, reads) = a
    BY <1>6 DEF Fetched
  <2> QED BY <2>1 DEF PgStands
<1>7. CASE answer = "invalid"
  <2>1. Fetched(a, answer, packages, reads) = cleared
    BY <1>7 DEF Fetched
  <2>2. PgSteady(cleared, db)
    BY <1>3, <1>4, EmptyAnswer
  <2> QED BY <2>1, <2>2
<1>8. CASE answer = "packages"
  <2>1. Fetched(a, answer, packages, reads) = PgClampSelection(RefreshInstalled(new, db, reads))
    BY <1>8 DEF Fetched, list, sel, n
  <2>2. RefreshInstalled(new, db, reads) \in PgApps /\ MarksAgree(RefreshInstalled(new, db, reads), db)
    BY <1>5, RefreshMarks
  <2>3. PgSteady(PgClampSelection(RefreshInstalled(new, db, reads)), db)
    BY <2>2, ClampStands
  <2> QED BY <2>1, <2>3
<1> QED BY <1>6, <1>7, <1>8 DEF FetchAnswers

LEMMA FieldsStay ==
  ASSUME NEW a, NEW d, PgStands(a, d), NEW search \in BOOLEAN, NEW query \in Int
  PROVE  /\ PgStands([a EXCEPT !.search = search, !.query = query], d)
         /\ PgStands([a EXCEPT !.search = search], d)
         /\ PgStands([a EXCEPT !.query = query], d)
<1>1. a \in PgApps
  BY DEF PgStands, PgSteady
<1>2. PgStands([a EXCEPT !.search = search, !.query = query], d)
  <2> DEFINE b == [a EXCEPT !.search = search, !.query = query]
  <2>1. b \in PgApps /\ SameView(b, a) /\ b.shown = a.shown /\ b.presented = a.presented
    BY <1>1 DEF PgApps, SameView, SameList
  <2> QED BY <2>1, AlikeStands
<1>3. PgStands([a EXCEPT !.search = search], d)
  <2> DEFINE b == [a EXCEPT !.search = search]
  <2>1. b \in PgApps /\ SameView(b, a) /\ b.shown = a.shown /\ b.presented = a.presented
    BY <1>1 DEF PgApps, SameView, SameList
  <2> QED BY <2>1, AlikeStands
<1>4. PgStands([a EXCEPT !.query = query], d)
  <2> DEFINE b == [a EXCEPT !.query = query]
  <2>1. b \in PgApps /\ SameView(b, a) /\ b.shown = a.shown /\ b.presented = a.presented
    BY <1>1 DEF PgApps, SameView, SameList
  <2> QED BY <2>1, AlikeStands
<1> QED BY <1>2, <1>3, <1>4

\* A change of the fields the clamp sets right, before it.
LEMMA ClampedChange ==
  ASSUME NEW a, NEW d, PgStands(a, d), NEW b \in PgApps, SameList(b, a), PgSizes
  PROVE  PgSteady(PgClampSelection(b), d)
<1>1. MarksAgree(b, d)
  BY MarksAgreeAlike DEF PgStands, PgSteady
<1> QED BY <1>1, ClampStands

LEMMA AnswersAreLists ==
  ASSUME PgSizes, NEW s \in Answerable
  PROVE  s \in Seq(Packages)
<1>1. PICK n \in 0..(PG_MAX_PACKAGES + 1) : s \in [1..n -> Packages]
  BY DEF Answerable
<1>2. n \in Nat
  BY DEF PgSizes
<1> QED BY <1>1, <1>2, SeqDef

LEMMA DeltaChanges ==
  ASSUME NEW a, NEW d, PgStands(a, d), NEW delta \in Int, PgSizes
  PROVE  PgSteady(PgSelectDelta(a, delta), d)
<1>1. a \in PgApps
  BY DEF PgStands, PgSteady
<1>2. CASE a.list = <<>>
  BY <1>2 DEF PgSelectDelta, PgStands
<1>3. CASE a.list # <<>>
  <2> DEFINE to == IF a.selected < 0 THEN 0
                   ELSE PgClampi(a.selected + delta, 0, PackageCount(a) - 1)
             b == [a EXCEPT !.selected = to]
  <2>1. to \in Int
    BY <1>1 DEF PgApps, PackageCount, PgClampi
  <2>2. PgSelectDelta(a, delta) = PgClampSelection(b)
    BY <1>1, <1>3 DEF PgSelectDelta, PgApps
  <2> HIDE DEF to
  <2>3. b \in PgApps /\ SameList(b, a)
    BY <1>1, <2>1 DEF PgApps, SameList
  <2> QED BY <2>2, <2>3, ClampedChange
<1> QED BY <1>2, <1>3

LEMMA PgKept ==
  ASSUME PgSizes, PgInv, PgNext
  PROVE  PgInv'
<1>0. PgStands(pg, db) /\ db \in SUBSET Packages /\ pg \in PgApps
  BY DEF PgInv, PgStands, PgSteady
<1> SUFFICES PgStands(pg', db') /\ db' \in SUBSET Packages
  BY DEF PgInv, PgStands, PgSteady, SelectionStands, MarksAgree, ListedPackages, PgDrawn,
         PackageCount, PgRows
<1>1. CASE PgFetch
  <2>1. db' = db
    BY <1>1 DEF PgFetch
  <2>2. PICK answer \in FetchAnswers, packages \in Answerable, reload \in BOOLEAN,
             reads \in BOOLEAN :
          PgShows(Fetched([pg EXCEPT !.search = FALSE, !.query = IF reload THEN 0 ELSE @],
                          answer, packages, reads))
    BY <1>1 DEF PgFetch
  <2> DEFINE q == IF reload THEN 0 ELSE pg.query
             f == FALSE
             a == [pg EXCEPT !.search = f, !.query = q]
  <2>3. q \in Int /\ f \in BOOLEAN
    BY <1>0 DEF PgApps
  <2>4. PgShows(Fetched(a, answer, packages, reads))
    <3>1. [pg EXCEPT !.search = FALSE, !.query = IF reload THEN 0 ELSE @] = a
      BY <1>0 DEF PgApps
    <3> HIDE DEF a
    <3> QED BY <2>2, <3>1
  <2> HIDE DEF q, f
  <2>5. PgStands(a, db)
    BY <1>0, <2>3, FieldsStay
  <2> HIDE DEF a
  <2>6. packages \in Seq(Packages)
    BY AnswersAreLists
  <2>7. PgSteady(Fetched(a, answer, packages, reads), db)
    BY <1>0, <2>5, <2>6, FetchSteady
  <2> QED BY <1>0, <2>1, <2>4, <2>7, ShowsStands
<1>2. CASE PgTypeQuery
  <2> DEFINE f == FALSE
             down == IF pg.query > 0 THEN pg.query - 1 ELSE 0
             up == IF pg.query + 1 < PG_QUERY_MAX THEN pg.query + 1 ELSE pg.query
  <2>1. /\ db' = db
        /\ \E a \in {[pg EXCEPT !.search = f], [pg EXCEPT !.query = down],
                     [pg EXCEPT !.query = up]} : PgShows(a)
    BY <1>0, <1>2 DEF PgTypeQuery, PgApps
  <2>2. f \in BOOLEAN /\ down \in Int /\ up \in Int
    BY <1>0 DEF PgApps
  <2> HIDE DEF f, down, up
  <2>3. /\ PgSteady([pg EXCEPT !.search = f], db)
        /\ PgSteady([pg EXCEPT !.query = down], db)
        /\ PgSteady([pg EXCEPT !.query = up], db)
    BY <1>0, <2>2, FieldsStay DEF PgStands
  <2>4. PICK a \in {[pg EXCEPT !.search = f], [pg EXCEPT !.query = down],
                    [pg EXCEPT !.query = up]} : PgShows(a)
    BY <2>1
  <2> QED BY <1>0, <2>1, <2>3, <2>4, ShowsStands
<1>3. CASE PgStartSearch
  <2> DEFINE t == TRUE
  <2>1. db' = db /\ PgShows([pg EXCEPT !.search = t])
    BY <1>3 DEF PgStartSearch
  <2>2. t \in BOOLEAN /\ 0 \in Int
    OBVIOUS
  <2> HIDE DEF t
  <2>3. PgSteady([pg EXCEPT !.search = t], db)
    BY <1>0, <2>2, FieldsStay DEF PgStands
  <2> QED BY <1>0, <2>1, <2>3, ShowsStands
<1>4. CASE PgRedraw
  BY <1>0, <1>4, ShowsStands DEF PgRedraw, PgStands
<1>5. CASE PgMove
  <2>1. db' = db
    BY <1>5 DEF PgMove
  <2>2. PICK d \in {-1, 1, -PgRows(pg), PgRows(pg)} : PgShows(PgSelectDelta(pg, d))
    BY <1>5 DEF PgMove
  <2>3. d \in Int
    BY DEF PgRows, PgSizes
  <2> QED BY <1>0, <2>1, <2>2, <2>3, DeltaChanges, ShowsStands
<1>6. CASE PgClickRow
  <2>1. db' = db
    BY <1>6 DEF PgClickRow
  <2> DEFINE f == FALSE
  <2>2. PICK row \in 0..(PackageCount(pg) - 1) :
          PgShows(PgClampSelection([pg EXCEPT !.selected = row, !.search = f]))
    BY <1>6 DEF PgClickRow
  <2> DEFINE b == [pg EXCEPT !.selected = row, !.search = f]
  <2>3. f \in BOOLEAN
    OBVIOUS
  <2> HIDE DEF f
  <2>4. row \in Int
    OBVIOUS
  <2>5. b \in PgApps /\ SameList(b, pg)
    BY <1>0, <2>3, <2>4 DEF PgApps, SameList
  <2> QED BY <1>0, <2>1, <2>2, <2>5, ClampedChange, ShowsStands
<1>7. CASE PgToggleMaximize
  <2>1. db' = db
    BY <1>7 DEF PgToggleMaximize
  <2> DEFINE m == ~pg.maximized
             b == [pg EXCEPT !.maximized = m]
  <2>2. pg' = pg \/ PgShows(PgClampSelection(b))
    BY <1>7 DEF PgToggleMaximize
  <2>3. m \in BOOLEAN
    BY <1>0 DEF PgApps
  <2> HIDE DEF m
  <2>4. b \in PgApps /\ SameList(b, pg)
    BY <1>0, <2>3 DEF PgApps, SameList
  <2>5. PgSteady(PgClampSelection(b), db)
    BY <1>0, <2>4, ClampedChange
  <2> QED BY <1>0, <2>1, <2>2, <2>5, ShowsStands
<1>8. CASE PgInstall
  <2>1. PICK added \in SUBSET Packages, ok \in BOOLEAN, reads \in BOOLEAN :
          db' = db \cup added /\ PgShows(AfterClient(pg, db', ok, reads))
    BY <1>8 DEF PgInstall
  <2>2. db' \in SUBSET Packages
    BY <1>0, <2>1
  <2>3. PgSteady(AfterClient(pg, db', ok, reads), db')
    BY <1>0, <2>2, ClientSteady
  <2> QED BY <2>1, <2>2, <2>3, ShowsStands
<1>9. CASE PgRemove
  <2>1. PICK ok \in BOOLEAN, reads \in BOOLEAN :
          /\ db' = IF ok THEN db \ {Selected(pg)} ELSE db
          /\ PgShows(AfterClient(pg, db', ok, reads))
    BY <1>9 DEF PgRemove
  <2>2. db' \in SUBSET Packages
    BY <1>0, <2>1
  <2>3. PgSteady(AfterClient(pg, db', ok, reads), db')
    BY <1>0, <2>2, ClientSteady
  <2> QED BY <2>1, <2>2, <2>3, ShowsStands
<1>10. CASE PgOthers
  <2> DEFINE f == FALSE
             b == [pg EXCEPT !.fresh = f]
  <2>1. db' \in SUBSET Packages /\ pg' = b
    BY <1>10 DEF PgOthers
  <2>2. b \in PgApps /\ b.list = pg.list /\ b.installed = pg.installed
        /\ b.selected = pg.selected /\ b.scroll = pg.scroll /\ b.maximized = pg.maximized
        /\ b.shown = pg.shown /\ b.presented = pg.presented /\ b.fresh = f
    BY <1>0 DEF PgApps
  <2> HIDE DEF b
  <2>3. PgDrawn(b) = PgDrawn(pg) /\ SelectionStands(b) = SelectionStands(pg)
    BY <2>2 DEF PgDrawn, SelectionStands, PackageCount, PgRows
  <2>4. PgStands(b, db')
    BY <1>0, <2>2, <2>3 DEF PgStands, PgSteady, MarksAgree
  <2> QED BY <2>1, <2>4
<1>11. CASE PgQuit
  <2> DEFINE f == FALSE
             b == [pg EXCEPT !.run = f]
  <2>1. db' = db /\ pg' = b
    BY <1>11 DEF PgQuit
  <2>2. f \in BOOLEAN
    OBVIOUS
  <2> HIDE DEF f
  <2>3. b \in PgApps /\ SameView(b, pg) /\ b.shown = pg.shown /\ b.presented = pg.presented
    BY <1>0, <2>2 DEF PgApps, SameView, SameList
  <2> QED BY <1>0, <2>1, <2>3, AlikeStands
<1> QED BY <1>1, <1>2, <1>3, <1>4, <1>5, <1>6, <1>7, <1>8, <1>9, <1>10, <1>11 DEF PgNext

LEMMA PgStarts ==
  ASSUME PgSizes, PgInit
  PROVE  PgInv
<1> DEFINE l == <<>>
           m == -1
           e == {}
<1>1. /\ l \in Seq(Packages) /\ Len(l) = 0 /\ m \in Int
      /\ e \in SUBSET Packages /\ e \in SUBSET PgRow
  BY EmptySeq
<1> HIDE DEF l, m, e
<1>2. pg = [run |-> TRUE, search |-> FALSE, query |-> 0, list |-> l, installed |-> e,
            selected |-> m, scroll |-> 0, maximized |-> FALSE, shown |-> e,
            presented |-> TRUE, fresh |-> TRUE]
  BY DEF PgInit, PgStart, l, m, e
<1>3. pg \in PgApps /\ pg.list = l /\ pg.installed = e /\ pg.selected = m /\ pg.shown = e
  BY <1>1, <1>2 DEF PgApps
<1>4. PackageCount(pg) = 0
  BY <1>1, <1>3 DEF PackageCount
<1>5. PgDrawn(pg) = {} /\ ListedPackages(pg) = {}
  <2>1. 1..0 = {}
    OBVIOUS
  <2> QED BY <1>4, <2>1 DEF PgDrawn, ListedPackages
<1>6. SelectionStands(pg)
  BY <1>3 DEF SelectionStands, l, m
<1> QED BY <1>3, <1>5, <1>6 DEF PgInv, PgInit, MarksAgree, e

\* What pg_render drew is the list as it is, each row marked as the database
\* had it when it was read, with the selected row among them: the clamp keeps
\* the selection in the window.
LEMMA PgInvShows ==
  ASSUME PgSizes, PgInv
  PROVE  PackagesShown
<1>1. pg \in PgApps /\ (pg.presented => pg.shown = PgDrawn(pg))
  BY DEF PgInv
<1>2. pg.fresh => \A row \in PgDrawn(pg) : row.installed = (row.package \in db)
  <2> SUFFICES ASSUME pg.fresh, NEW row \in PgDrawn(pg)
               PROVE  row.installed = (row.package \in db)
    OBVIOUS
  <2>1. PICK i \in 1..PackageCount(pg) :
          row = [package |-> pg.list[i], installed |-> pg.list[i] \in pg.installed,
                 selected |-> pg.selected = i - 1]
    BY DEF PgDrawn
  <2>2. pg.list[i] \in pg.installed <=> pg.list[i] \in db
    BY DEF PgInv, MarksAgree, ListedPackages
  <2> QED BY <2>1, <2>2
<1>3. ASSUME pg.list # <<>>
      PROVE  SelectedValid(pg) /\ (PgRows(pg) > 0 => \E row \in PgDrawn(pg) : row.selected)
  <2>1. /\ pg.selected \in 0..(PackageCount(pg) - 1)
        /\ PgRows(pg) > 0 => pg.selected \in pg.scroll..(pg.scroll + PgRows(pg) - 1)
    BY <1>3 DEF PgInv, SelectionStands
  <2>2. PackageCount(pg) \in Nat
    BY <1>1 DEF PgApps, PackageCount
  <2>3. ASSUME PgRows(pg) > 0
        PROVE  \E row \in PgDrawn(pg) : row.selected
    <3> DEFINE i == pg.selected + 1
               row == [package |-> pg.list[i], installed |-> pg.list[i] \in pg.installed,
                       selected |-> pg.selected = i - 1]
    <3>1. i \in 1..PackageCount(pg) /\ i - 1 = pg.selected
      BY <2>1, <2>2
    <3>2. i - 1 \in pg.scroll..(pg.scroll + PgRows(pg) - 1)
      BY <2>1, <2>3, <3>1
    <3> HIDE DEF i
    <3>3. row \in PgDrawn(pg)
      BY <3>1, <3>2 DEF PgDrawn
    <3>4. row.selected
      BY <3>1
    <3> QED BY <3>3, <3>4
  <2> QED BY <1>1, <2>1, <2>3 DEF SelectedValid
<1> QED BY <1>1, <1>2, <1>3 DEF PackagesShown

\* For any packages and any height of the window: however fetches, installs,
\* removals, changes of size and the work of other programs follow each other,
\* and however they fail, the selection is a row within the window, a picture
\* that was presented shows the list as it is, and the marks agree with the
\* database as it was when it was last read.
THEOREM PackageWindowIsTrue == PgSpec => []PackagesShown
<1> USE PgAssumption
<1>1. PgInit => PgInv
  BY PgStarts
<1>2. PgInv /\ [PgNext]_pgVars => PgInv'
  <2> SUFFICES ASSUME PgInv, [PgNext]_pgVars PROVE PgInv'
    OBVIOUS
  <2>1. CASE PgNext
    BY <2>1, PgKept
  <2>2. CASE UNCHANGED pgVars
    <3>1. pg' = pg /\ db' = db
      BY <2>2 DEF pgVars
    <3> QED BY <3>1 DEF PgInv, SelectionStands, MarksAgree, ListedPackages, PgDrawn,
                        PackageCount, PgRows
  <2> QED BY <2>1, <2>2
<1>3. PgInv => PackagesShown
  BY PgInvShows
<1> QED BY <1>1, <1>2, <1>3, PTL DEF PgSpec

(***************************************************************************)
(* The window manager: the session record, one lemma per change of it.     *)
(***************************************************************************)

ProcStates == {"unused", "pending", "ready", "exited"}

UwmWindow ==
    [alive : BOOLEAN, closed : BOOLEAN, minimized : BOOLEAN, topmost : BOOLEAN,
     maximized : BOOLEAN, pixels : BOOLEAN]

UwmSessions ==
    [pc : {"start", "loop", "done"}, active : Int, drag : Int, resize : Int, start_open : BOOLEAN,
     tty_before : Int, tty : Int, switched : BOOLEAN,
     pids : [Apps -> Pids \cup {0}], states : [Apps -> ProcStates],
     win : [Windows -> UwmWindow], kernel : SUBSET Windows, focus : Int,
     bar : [open : BOOLEAN, buttons : SUBSET Int], menu : SUBSET Apps]

UwmProcs == [Pids -> [app : Apps \cup {None}, state : ProcStates]]

NoAppWindow(w) == \A a \in Apps : ~w[a].alive /\ w[a].closed /\ ~w[a].minimized

NoneChosen(s) == s.active = None /\ s.drag = None /\ s.resize = None

KernelKnows(s) == s.kernel = {i \in Windows : s.win[i].alive}

\* The taskbar can be drawn, and the rest of the session agrees with it.
Drawable(s) ==
    /\ s \in UwmSessions
    /\ NoAppWindow(s.win) /\ NoneChosen(s) /\ KernelKnows(s)
    /\ s.win[Taskbar].alive /\ s.win[Taskbar].pixels
    /\ s.start_open = s.win[StartMenu].alive
    /\ ~s.switched => s.tty = s.tty_before

\* The taskbar shows the session as it is.
Standing(s) == Drawable(s) /\ s.bar.open = s.start_open

\* The registry of one session, and where it is, are those of the other.
SameRegistry(s, r) == s.pids = r.pids /\ s.states = r.states /\ s.pc = r.pc

\* A change of what no part of Drawable looks at.
SameWindows(s, r) ==
    /\ s.win = r.win /\ s.kernel = r.kernel /\ s.start_open = r.start_open
    /\ s.active = r.active /\ s.drag = r.drag /\ s.resize = r.resize
    /\ s.switched = r.switched /\ s.tty = r.tty /\ s.tty_before = r.tty_before

LEMMA WindowNumbers ==
  ASSUME UwmSizes
  PROVE  /\ Taskbar \in Windows /\ StartMenu \in Windows /\ Taskbar # StartMenu
         /\ Apps \subseteq Windows /\ Taskbar \notin Apps /\ StartMenu \notin Apps
         /\ Apps \subseteq Int /\ Windows \subseteq Int /\ None \in Int /\ None \notin Apps
         /\ None \notin Windows /\ 0 \notin Pids /\ Pids \subseteq Int
         /\ \A p \in Pids : ForeignWindow(p) \in Int
BY DEF UwmSizes, Taskbar, StartMenu, Apps, Windows, None, Pids, ForeignWindow

LEMMA AlikeDrawable ==
  ASSUME NEW s \in UwmSessions, NEW r, Drawable(r), SameWindows(s, r)
  PROVE  Drawable(s)
BY DEF Drawable, SameWindows, NoneChosen, KernelKnows

LEMMA ChangeBar ==
  ASSUME NEW s \in UwmSessions, NEW v \in [open : BOOLEAN, buttons : SUBSET Int]
  PROVE  /\ [s EXCEPT !.bar = v] \in UwmSessions
         /\ SameWindows([s EXCEPT !.bar = v], s)
         /\ SameRegistry([s EXCEPT !.bar = v], s)
         /\ [s EXCEPT !.bar = v].bar = v
BY DEF UwmSessions, SameWindows, SameRegistry

LEMMA ChangeMenu ==
  ASSUME NEW s \in UwmSessions, NEW v \in SUBSET Apps
  PROVE  /\ [s EXCEPT !.menu = v] \in UwmSessions
         /\ SameWindows([s EXCEPT !.menu = v], s)
         /\ SameRegistry([s EXCEPT !.menu = v], s)
         /\ [s EXCEPT !.menu = v].bar = s.bar
BY DEF UwmSessions, SameWindows, SameRegistry

LEMMA ChangeFocus ==
  ASSUME NEW s \in UwmSessions, NEW v \in Int
  PROVE  /\ [s EXCEPT !.focus = v] \in UwmSessions
         /\ SameWindows([s EXCEPT !.focus = v], s)
         /\ SameRegistry([s EXCEPT !.focus = v], s)
         /\ [s EXCEPT !.focus = v].bar = s.bar
BY DEF UwmSessions, SameWindows, SameRegistry

\* The active window is already None.
LEMMA ClearActive ==
  ASSUME NEW s \in UwmSessions, NEW v \in Int
  PROVE  /\ [s EXCEPT !.active = v] \in UwmSessions
         /\ s.active = v => SameWindows([s EXCEPT !.active = v], s)
         /\ SameRegistry([s EXCEPT !.active = v], s)
         /\ [s EXCEPT !.active = v].bar = s.bar
BY DEF UwmSessions, SameWindows, SameRegistry

LEMMA ChangeDrag ==
  ASSUME NEW s \in UwmSessions, NEW v \in Int, NEW w \in Int
  PROVE  /\ [s EXCEPT !.drag = v, !.resize = w] \in UwmSessions
         /\ s.drag = v /\ s.resize = w => SameWindows([s EXCEPT !.drag = v, !.resize = w], s)
         /\ SameRegistry([s EXCEPT !.drag = v, !.resize = w], s)
         /\ [s EXCEPT !.drag = v, !.resize = w].bar = s.bar
BY DEF UwmSessions, SameWindows, SameRegistry

\* ush_uwm_render_taskbar makes the bar show whether the menu is open.
LEMMA RefreshTaskbarStands ==
  ASSUME NEW s, Drawable(s), foreign \in SUBSET Pids, UwmSizes
  PROVE  /\ Standing(RefreshTaskbar(s))
         /\ SameRegistry(RefreshTaskbar(s), s)
         /\ SameWindows(RefreshTaskbar(s), s)
<1> DEFINE v == RenderTaskbar(s)
<1>1. s \in UwmSessions
  BY DEF Drawable
<1>2. v \in [open : BOOLEAN, buttons : SUBSET Int] /\ v.open = s.start_open
  <2>1. {ForeignWindow(p) : p \in foreign} \subseteq Int
    BY WindowNumbers
  <2>2. {i \in Apps : s.win[i].alive} \subseteq Int
        /\ {i \in Apps : ~s.win[i].closed /\ s.win[i].minimized} \subseteq Int
    BY WindowNumbers
  <2>3. s.start_open \in BOOLEAN
    BY <1>1 DEF UwmSessions
  <2> QED BY <2>1, <2>2, <2>3 DEF RenderTaskbar
<1> HIDE DEF v
<1>3. RefreshTaskbar(s) = [s EXCEPT !.bar = v]
  BY DEF RefreshTaskbar, Refresh, Drawable, v
<1>4. /\ [s EXCEPT !.bar = v] \in UwmSessions
      /\ SameWindows([s EXCEPT !.bar = v], s)
      /\ SameRegistry([s EXCEPT !.bar = v], s)
      /\ [s EXCEPT !.bar = v].bar = v
  BY <1>1, <1>2, ChangeBar
<1>5. Drawable([s EXCEPT !.bar = v])
  BY <1>4, AlikeDrawable
<1> QED BY <1>2, <1>3, <1>4, <1>5 DEF Standing, SameWindows

LEMMA RefreshMenuStands ==
  ASSUME NEW s, Standing(s), UwmSizes
  PROVE  /\ Standing(Refresh(s, StartMenu))
         /\ SameRegistry(Refresh(s, StartMenu), s)
<1> DEFINE v == RenderStart(s)
<1>1. s \in UwmSessions
  BY DEF Standing, Drawable
<1>2. v \in SUBSET Apps
  BY DEF RenderStart
<1> HIDE DEF v
<1>3. Refresh(s, StartMenu) = s \/ Refresh(s, StartMenu) = [s EXCEPT !.menu = v]
  BY WindowNumbers DEF Refresh, v
<1>4. /\ [s EXCEPT !.menu = v] \in UwmSessions
      /\ SameWindows([s EXCEPT !.menu = v], s)
      /\ SameRegistry([s EXCEPT !.menu = v], s)
      /\ [s EXCEPT !.menu = v].bar = s.bar
  BY <1>1, <1>2, ChangeMenu
<1>5. Drawable([s EXCEPT !.menu = v])
  BY <1>4, AlikeDrawable DEF Standing
<1> QED BY <1>3, <1>4, <1>5 DEF Standing, SameWindows, SameRegistry

LEMMA FocusStands ==
  ASSUME NEW s, Drawable(s), NEW w \in Int, NEW k
  PROVE  /\ Drawable(SetFocus(s, w, k))
         /\ SetFocus(s, w, k).bar = s.bar
         /\ SameRegistry(SetFocus(s, w, k), s)
         /\ SameWindows(SetFocus(s, w, k), s)
<1>1. s \in UwmSessions
  BY DEF Drawable
<1>2. SetFocus(s, w, k) = s \/ SetFocus(s, w, k) = [s EXCEPT !.focus = w]
  BY DEF SetFocus
<1>3. /\ [s EXCEPT !.focus = w] \in UwmSessions
      /\ SameWindows([s EXCEPT !.focus = w], s)
      /\ SameRegistry([s EXCEPT !.focus = w], s)
      /\ [s EXCEPT !.focus = w].bar = s.bar
  BY <1>1, ChangeFocus
<1>4. Drawable([s EXCEPT !.focus = w])
  BY <1>3, AlikeDrawable
<1> QED BY <1>2, <1>3, <1>4 DEF SameRegistry, SameWindows

\* DestroyKernelWindow and CreateWindow, field by field.
LEMMA DestroyedFields ==
  ASSUME NEW s \in UwmSessions, NEW i \in Windows, UwmSizes
  PROVE  /\ DestroyKernelWindow(s, i) \in UwmSessions
         /\ DestroyKernelWindow(s, i).win = [s.win EXCEPT ![i] = [s.win[i] EXCEPT !.alive = FALSE]]
         /\ DestroyKernelWindow(s, i).kernel = s.kernel \ {i}
         /\ DestroyKernelWindow(s, i).active = s.active
         /\ DestroyKernelWindow(s, i).drag = s.drag
         /\ DestroyKernelWindow(s, i).resize = s.resize
         /\ DestroyKernelWindow(s, i).start_open = s.start_open
         /\ DestroyKernelWindow(s, i).switched = s.switched
         /\ DestroyKernelWindow(s, i).tty = s.tty
         /\ DestroyKernelWindow(s, i).tty_before = s.tty_before
         /\ DestroyKernelWindow(s, i).bar = s.bar
         /\ SameRegistry(DestroyKernelWindow(s, i), s)
<1> DEFINE n == None
           k == s.kernel \ {i}
           f == IF s.focus = i /\ s.win[i].alive THEN n ELSE s.focus
           b == FALSE
           w == [s.win EXCEPT ![i] = [s.win[i] EXCEPT !.alive = b]]
           d == [s EXCEPT !.kernel = k, !.focus = f, !.win = w]
<1>1. n \in Int /\ b \in BOOLEAN
  BY WindowNumbers
<1>2. DestroyKernelWindow(s, i) = d
  BY DEF DestroyKernelWindow, UwmSessions
<1> HIDE DEF n
<1>3. k \in SUBSET Windows /\ f \in Int
  BY <1>1 DEF UwmSessions
<1> HIDE DEF b
<1>4. w \in [Windows -> UwmWindow]
  BY <1>1 DEF UwmSessions, UwmWindow
<1> HIDE DEF k, f, w
<1>5. d \in UwmSessions
  BY <1>3, <1>4 DEF UwmSessions
<1>6. d.win = w /\ d.kernel = k /\ d.active = s.active /\ d.drag = s.drag /\ d.resize = s.resize
      /\ d.start_open = s.start_open /\ d.switched = s.switched /\ d.tty = s.tty
      /\ d.tty_before = s.tty_before /\ d.bar = s.bar /\ SameRegistry(d, s)
  BY DEF UwmSessions, SameRegistry
<1> QED BY <1>2, <1>5, <1>6 DEF k, w, b

LEMMA CreatedFields ==
  ASSUME NEW s \in UwmSessions, NEW i \in Windows, NEW k, k.create, UwmSizes
  PROVE  /\ CreateWindow(s, i, k) \in UwmSessions
         /\ CreateWindow(s, i, k).win = [s.win EXCEPT ![i] = [s.win[i] EXCEPT !.alive = TRUE]]
         /\ CreateWindow(s, i, k).kernel = s.kernel \cup {i}
         /\ CreateWindow(s, i, k).active = s.active
         /\ CreateWindow(s, i, k).drag = s.drag
         /\ CreateWindow(s, i, k).resize = s.resize
         /\ CreateWindow(s, i, k).start_open = s.start_open
         /\ CreateWindow(s, i, k).switched = s.switched
         /\ CreateWindow(s, i, k).tty = s.tty
         /\ CreateWindow(s, i, k).tty_before = s.tty_before
         /\ CreateWindow(s, i, k).bar = s.bar
         /\ SameRegistry(CreateWindow(s, i, k), s)
<1> DEFINE m == s.kernel \cup {i}
           b == TRUE
           w == [s.win EXCEPT ![i] = [s.win[i] EXCEPT !.alive = b]]
           d == [s EXCEPT !.win = w, !.kernel = m]
<1>1. b \in BOOLEAN
  OBVIOUS
<1>2. CreateWindow(s, i, k) = d
  BY DEF CreateWindow, UwmSessions
<1>3. m \in SUBSET Windows
  BY DEF UwmSessions
<1> HIDE DEF b
<1>4. w \in [Windows -> UwmWindow]
  BY <1>1 DEF UwmSessions, UwmWindow
<1> HIDE DEF m, w
<1>5. d \in UwmSessions
  BY <1>3, <1>4 DEF UwmSessions
<1>6. d.win = w /\ d.kernel = m /\ d.active = s.active /\ d.drag = s.drag /\ d.resize = s.resize
      /\ d.start_open = s.start_open /\ d.switched = s.switched /\ d.tty = s.tty
      /\ d.tty_before = s.tty_before /\ d.bar = s.bar /\ SameRegistry(d, s)
  BY DEF UwmSessions, SameRegistry
<1> QED BY <1>2, <1>5, <1>6 DEF m, w, b

\* The windows but for one field of one of them.
LEMMA WindowChanged ==
  ASSUME NEW w \in [Windows -> UwmWindow], NEW i \in Windows, NEW v \in BOOLEAN
  PROVE  /\ [w EXCEPT ![i] = [w[i] EXCEPT !.alive = v]] \in [Windows -> UwmWindow]
         /\ [w EXCEPT ![i] = [w[i] EXCEPT !.alive = v]][i].alive = v
         /\ [w EXCEPT ![i] = [w[i] EXCEPT !.alive = v]][i].pixels = w[i].pixels
         /\ [w EXCEPT ![i] = [w[i] EXCEPT !.alive = v]][i].closed = w[i].closed
         /\ \A j \in Windows : j # i => [w EXCEPT ![i] = [w[i] EXCEPT !.alive = v]][j] = w[j]
BY DEF UwmWindow

\* ush_uwm_close_start_menu closes the menu and draws the taskbar.
CloseFields(d, open, w) == [d EXCEPT !.start_open = open, !.win = w]

LEMMA ClosedFields ==
  ASSUME NEW d \in UwmSessions, NEW open \in BOOLEAN, NEW w \in [Windows -> UwmWindow]
  PROVE  /\ CloseFields(d, open, w) \in UwmSessions
         /\ CloseFields(d, open, w).win = w
         /\ CloseFields(d, open, w).start_open = open
         /\ CloseFields(d, open, w).kernel = d.kernel
         /\ CloseFields(d, open, w).active = d.active
         /\ CloseFields(d, open, w).drag = d.drag
         /\ CloseFields(d, open, w).resize = d.resize
         /\ CloseFields(d, open, w).switched = d.switched
         /\ CloseFields(d, open, w).tty = d.tty
         /\ CloseFields(d, open, w).tty_before = d.tty_before
         /\ SameRegistry(CloseFields(d, open, w), d)
BY DEF CloseFields, UwmSessions, SameRegistry

LEMMA CloseStartStands ==
  ASSUME NEW s, Drawable(s), foreign \in SUBSET Pids, NEW k, UwmSizes
  PROVE  /\ Standing(CloseStart(s, k))
         /\ SameRegistry(CloseStart(s, k), s)
<1> DEFINE d == IF s.win[StartMenu].alive THEN DestroyKernelWindow(s, StartMenu) ELSE s
           f == FALSE
           t == TRUE
           w == [d.win EXCEPT ![StartMenu] = [d.win[StartMenu] EXCEPT !.closed = t]]
           c == CloseFields(d, f, w)
<1>0. s \in UwmSessions /\ f \in BOOLEAN /\ t \in BOOLEAN
  BY DEF Drawable
<1>1. /\ d \in UwmSessions
      /\ ~d.win[StartMenu].alive
      /\ \A j \in Windows : j # StartMenu => d.win[j] = s.win[j]
      /\ d.kernel = s.kernel \ {StartMenu}
      /\ d.active = s.active /\ d.drag = s.drag /\ d.resize = s.resize
      /\ d.switched = s.switched /\ d.tty = s.tty /\ d.tty_before = s.tty_before
      /\ SameRegistry(d, s)
  <2>1. CASE s.win[StartMenu].alive
    <3> DEFINE v == [s.win EXCEPT ![StartMenu] = [s.win[StartMenu] EXCEPT !.alive = f]]
    <3>1. d = DestroyKernelWindow(s, StartMenu)
      BY <2>1
    <3>2. s.win \in [Windows -> UwmWindow] /\ StartMenu \in Windows
      BY <1>0, WindowNumbers DEF UwmSessions
    <3>3. v[StartMenu].alive = f /\ \A j \in Windows : j # StartMenu => v[j] = s.win[j]
      BY <3>2, <1>0, WindowChanged
    <3>4. d.win = v
      BY <1>0, <3>1, <3>2, DestroyedFields
    <3> HIDE DEF v, d
    <3> QED BY <1>0, <3>1, <3>2, <3>3, <3>4, DestroyedFields
  <2>2. CASE ~s.win[StartMenu].alive
    <3>1. StartMenu \notin s.kernel
      BY <2>2 DEF Drawable, KernelKnows
    <3> QED BY <1>0, <2>2, <3>1 DEF SameRegistry
  <2> QED BY <2>1, <2>2
<1> HIDE DEF d
<1>2. /\ w \in [Windows -> UwmWindow]
      /\ w[StartMenu].alive = d.win[StartMenu].alive
      /\ \A j \in Windows : j # StartMenu => w[j] = d.win[j]
  <2>1. d.win \in [Windows -> UwmWindow] /\ StartMenu \in Windows
    BY <1>1, WindowNumbers DEF UwmSessions
  <2> HIDE DEF t
  <2> QED BY <1>0, <2>1 DEF UwmWindow
<1>3. [d EXCEPT !.start_open = FALSE, !.win[StartMenu].closed = TRUE] = c
  BY <1>1 DEF CloseFields, UwmSessions
<1> HIDE DEF w, f
<1>4. /\ c \in UwmSessions
      /\ c.win = w /\ c.start_open = f /\ c.kernel = d.kernel
      /\ c.active = d.active /\ c.drag = d.drag /\ c.resize = d.resize
      /\ c.switched = d.switched /\ c.tty = d.tty /\ c.tty_before = d.tty_before
      /\ SameRegistry(c, d)
  BY <1>0, <1>1, <1>2, ClosedFields
<1> HIDE DEF c
<1>5. Drawable(c)
  <2>1. NoAppWindow(c.win)
    BY <1>1, <1>2, <1>4, WindowNumbers DEF Drawable, NoAppWindow
  <2>2. NoneChosen(c)
    BY <1>1, <1>4 DEF Drawable, NoneChosen
  <2>3. KernelKnows(c)
    BY <1>1, <1>2, <1>4, WindowNumbers DEF Drawable, KernelKnows
  <2>4. c.win[Taskbar].alive /\ c.win[Taskbar].pixels
    BY <1>1, <1>2, <1>4, WindowNumbers DEF Drawable
  <2>5. c.start_open = c.win[StartMenu].alive
    <3>1. c.win[StartMenu].alive \in BOOLEAN
      BY <1>4, WindowNumbers DEF UwmSessions, UwmWindow
    <3> QED BY <1>1, <1>2, <1>4, <3>1 DEF f
  <2>6. ~c.switched => c.tty = c.tty_before
    BY <1>1, <1>4 DEF Drawable
  <2> QED BY <1>4, <2>1, <2>2, <2>3, <2>4, <2>5, <2>6 DEF Drawable
<1>6. CloseStart(s, k) = RefreshTaskbar(c)
  <2>1. c.active \notin Apps
    BY <1>5, WindowNumbers DEF Drawable, NoneChosen
  <2> QED BY <1>3, <2>1 DEF CloseStart, d
<1>7. Standing(RefreshTaskbar(c)) /\ SameRegistry(RefreshTaskbar(c), c)
  BY <1>5, RefreshTaskbarStands
<1> QED BY <1>1, <1>4, <1>6, <1>7 DEF SameRegistry

\* ush_uwm_open_start_menu before its window is created.
OpenFields(s, open, w, menu) == [s EXCEPT !.win = w, !.start_open = open, !.menu = menu]

LEMMA OpenedFields ==
  ASSUME NEW s \in UwmSessions, NEW open \in BOOLEAN, NEW w \in [Windows -> UwmWindow],
         NEW menu \in SUBSET Apps
  PROVE  /\ OpenFields(s, open, w, menu) \in UwmSessions
         /\ OpenFields(s, open, w, menu).win = w
         /\ OpenFields(s, open, w, menu).start_open = open
         /\ OpenFields(s, open, w, menu).kernel = s.kernel
         /\ OpenFields(s, open, w, menu).active = s.active
         /\ OpenFields(s, open, w, menu).drag = s.drag
         /\ OpenFields(s, open, w, menu).resize = s.resize
         /\ OpenFields(s, open, w, menu).switched = s.switched
         /\ OpenFields(s, open, w, menu).tty = s.tty
         /\ OpenFields(s, open, w, menu).tty_before = s.tty_before
         /\ OpenFields(s, open, w, menu).bar = s.bar
         /\ SameRegistry(OpenFields(s, open, w, menu), s)
BY DEF OpenFields, UwmSessions, SameRegistry

DrawnOpen(w, i, t, f) == [w EXCEPT ![i] = [w[i] EXCEPT !.pixels = t, !.closed = f]]

LEMMA OpenedWindows ==
  ASSUME NEW w \in [Windows -> UwmWindow], NEW i \in Windows, NEW t \in BOOLEAN, NEW f \in BOOLEAN
  PROVE  /\ DrawnOpen(w, i, t, f) \in [Windows -> UwmWindow]
         /\ DrawnOpen(w, i, t, f)[i].alive = w[i].alive
         /\ \A j \in Windows : j # i => DrawnOpen(w, i, t, f)[j] = w[j]
BY DEF DrawnOpen, UwmWindow

LEMMA OpenStartStands ==
  ASSUME NEW s, Standing(s), ~s.win[StartMenu].alive, foreign \in SUBSET Pids, NEW k, UwmSizes
  PROVE  /\ Standing(OpenStart(s, k))
         /\ SameRegistry(OpenStart(s, k), s)
<1> DEFINE f == FALSE
           t == TRUE
           menu == RenderStart(s)
           w == DrawnOpen(s.win, StartMenu, t, f)
           m == OpenFields(s, t, w, menu)
           v == [w EXCEPT ![StartMenu] = [w[StartMenu] EXCEPT !.closed = t]]
           n == CloseFields(m, f, v)
           made == CreateWindow(m, StartMenu, k)
           shown == SetFocus(made, StartMenu, k)
<1>0. s \in UwmSessions /\ f \in BOOLEAN /\ t \in BOOLEAN /\ menu \in SUBSET Apps
      /\ Drawable(s) /\ s.bar.open = FALSE /\ s.start_open = FALSE
  <2>1. s.start_open \in BOOLEAN /\ s.win[StartMenu].alive \in BOOLEAN
    BY WindowNumbers DEF Standing, Drawable, UwmSessions, UwmWindow
  <2> QED BY <2>1 DEF Standing, Drawable, RenderStart
<1>1. StartMarkedOpen(s) = m
  BY <1>0 DEF StartMarkedOpen, OpenFields, DrawnOpen, UwmSessions
<1>2. [m EXCEPT !.start_open = FALSE, !.win[StartMenu].closed = TRUE] = n
  BY <1>0 DEF CloseFields, OpenFields, DrawnOpen, UwmSessions
<1>3. \/ OpenStart(s, k) = s
      \/ OpenStart(s, k) = n
      \/ k.create /\ OpenStart(s, k) = RefreshTaskbar(shown)
  BY <1>1, <1>2 DEF OpenStart
<1> HIDE DEF menu
<1>4. s.win \in [Windows -> UwmWindow] /\ StartMenu \in Windows
  BY <1>0, WindowNumbers DEF UwmSessions
<1> HIDE DEF f, t
<1>5. /\ w \in [Windows -> UwmWindow]
      /\ w[StartMenu].alive = s.win[StartMenu].alive
      /\ \A j \in Windows : j # StartMenu => w[j] = s.win[j]
  BY <1>0, <1>4, OpenedWindows
<1> HIDE DEF w
<1>6. /\ m \in UwmSessions
      /\ m.win = w /\ m.start_open = t /\ m.kernel = s.kernel
      /\ m.active = s.active /\ m.drag = s.drag /\ m.resize = s.resize
      /\ m.switched = s.switched /\ m.tty = s.tty /\ m.tty_before = s.tty_before
      /\ m.bar = s.bar /\ SameRegistry(m, s)
  BY <1>0, <1>5, OpenedFields
<1> HIDE DEF m
<1>7. /\ v \in [Windows -> UwmWindow]
      /\ v[StartMenu].alive = w[StartMenu].alive
      /\ \A j \in Windows : j # StartMenu => v[j] = w[j]
  BY <1>0, <1>4, <1>5 DEF UwmWindow
<1> HIDE DEF v
<1>8. Standing(n) /\ SameRegistry(n, s)
  <2>1. /\ n \in UwmSessions
        /\ n.win = v /\ n.start_open = f /\ n.kernel = m.kernel
        /\ n.active = m.active /\ n.drag = m.drag /\ n.resize = m.resize
        /\ n.switched = m.switched /\ n.tty = m.tty /\ n.tty_before = m.tty_before
        /\ SameRegistry(n, m)
    BY <1>0, <1>6, <1>7, ClosedFields
  <2>2. n.bar = s.bar
    BY <1>6 DEF CloseFields, UwmSessions
  <2> HIDE DEF n
  <2>3. NoAppWindow(n.win)
    BY <1>0, <1>5, <1>7, <2>1, WindowNumbers DEF Drawable, NoAppWindow
  <2>4. NoneChosen(n)
    BY <1>0, <1>6, <2>1 DEF Drawable, NoneChosen
  <2>5. KernelKnows(n)
    BY <1>0, <1>5, <1>6, <1>7, <2>1, WindowNumbers DEF Drawable, KernelKnows
  <2>6. n.win[Taskbar].alive /\ n.win[Taskbar].pixels
    BY <1>0, <1>5, <1>7, <2>1, WindowNumbers DEF Drawable
  <2>7. n.start_open = n.win[StartMenu].alive /\ n.bar.open = n.start_open
    <3>1. n.win[StartMenu].alive \in BOOLEAN
      BY <2>1, WindowNumbers DEF UwmSessions, UwmWindow
    <3> QED BY <1>0, <1>5, <1>7, <2>1, <2>2, <3>1 DEF f
  <2>8. ~n.switched => n.tty = n.tty_before
    BY <1>0, <1>6, <2>1 DEF Drawable
  <2> QED BY <1>6, <2>1, <2>3, <2>4, <2>5, <2>6, <2>7, <2>8 DEF Standing, Drawable, SameRegistry
<1>9. ASSUME k.create
      PROVE  Standing(RefreshTaskbar(shown)) /\ SameRegistry(RefreshTaskbar(shown), s)
  <2> DEFINE u == [w EXCEPT ![StartMenu] = [w[StartMenu] EXCEPT !.alive = t]]
  <2>1. /\ made \in UwmSessions
        /\ made.win = u /\ made.kernel = s.kernel \cup {StartMenu} /\ made.start_open = t
        /\ made.active = s.active /\ made.drag = s.drag /\ made.resize = s.resize
        /\ made.switched = s.switched /\ made.tty = s.tty /\ made.tty_before = s.tty_before
        /\ SameRegistry(made, s)
    <3>1. m.win = w /\ t = TRUE
      BY <1>6 DEF t
    <3>2. /\ made \in UwmSessions
          /\ made.win = [m.win EXCEPT ![StartMenu] = [m.win[StartMenu] EXCEPT !.alive = TRUE]]
          /\ made.kernel = m.kernel \cup {StartMenu}
          /\ made.active = m.active /\ made.drag = m.drag /\ made.resize = m.resize
          /\ made.start_open = m.start_open
          /\ made.switched = m.switched /\ made.tty = m.tty /\ made.tty_before = m.tty_before
          /\ SameRegistry(made, m)
      BY <1>4, <1>6, <1>9, CreatedFields
    <3> HIDE DEF made
    <3> QED BY <1>6, <3>1, <3>2 DEF SameRegistry
  <2> HIDE DEF made
  <2>2. /\ u[StartMenu].alive = t
        /\ \A j \in Windows : j # StartMenu => u[j] = w[j]
    BY <1>0, <1>4, <1>5, WindowChanged
  <2> HIDE DEF u
  <2>3. Drawable(made)
    <3>1. NoAppWindow(made.win)
      BY <1>0, <1>5, <2>1, <2>2, WindowNumbers DEF Drawable, NoAppWindow
    <3>2. NoneChosen(made)
      BY <1>0, <2>1 DEF Drawable, NoneChosen
    <3>3. KernelKnows(made)
      BY <1>0, <1>5, <2>1, <2>2, WindowNumbers DEF Drawable, KernelKnows, t
    <3>4. made.win[Taskbar].alive /\ made.win[Taskbar].pixels
      BY <1>0, <1>5, <2>1, <2>2, WindowNumbers DEF Drawable
    <3>5. ~made.switched => made.tty = made.tty_before
      BY <1>0, <2>1 DEF Drawable
    <3> QED BY <2>1, <2>2, <3>1, <3>2, <3>3, <3>4, <3>5 DEF Drawable
  <2>4. StartMenu \in Int
    BY WindowNumbers
  <2>5. Drawable(shown) /\ SameRegistry(shown, made)
    BY <2>3, <2>4, FocusStands
  <2> HIDE DEF shown
  <2>6. Standing(RefreshTaskbar(shown)) /\ SameRegistry(RefreshTaskbar(shown), shown)
    BY <2>5, RefreshTaskbarStands
  <2> QED BY <2>1, <2>5, <2>6 DEF SameRegistry
<1>10. SameRegistry(s, s)
  BY DEF SameRegistry
<1> QED BY <1>3, <1>8, <1>9, <1>10

LEMMA ToggleStartStands ==
  ASSUME NEW s, Standing(s), foreign \in SUBSET Pids, NEW k, UwmSizes
  PROVE  /\ Standing(ToggleStart(s, k))
         /\ SameRegistry(ToggleStart(s, k), s)
BY CloseStartStands, OpenStartStands DEF ToggleStart, Standing

\* No window of the session is there to be made active.
LEMMA FocusNextStands ==
  ASSUME NEW s, Drawable(s), foreign \in SUBSET Pids, NEW k, UwmSizes
  PROVE  /\ Standing(FocusNext(s, k))
         /\ SameRegistry(FocusNext(s, k), s)
<1> DEFINE n == None
           c == [s EXCEPT !.active = n]
           start == IF s.active \in Apps THEN s.active ELSE 0
           ring == [i \in 1..USH_UWM_APP_COUNT |-> (start + i) % USH_UWM_APP_COUNT]
           hits == {i \in DOMAIN ring : Usable(s, ring[i])}
<1>0. s \in UwmSessions
  BY DEF Drawable
<1>1. hits = {}
  <2> SUFFICES ASSUME NEW i \in 1..USH_UWM_APP_COUNT PROVE ~Usable(s, ring[i])
    OBVIOUS
  <2>1. start \in Int
    BY WindowNumbers
  <2> HIDE DEF start
  <2>2. ring[i] \in Apps
    BY <2>1 DEF Apps, UwmSizes
  <2> QED BY <2>2 DEF Drawable, NoAppWindow, Usable
<1>2. FocusNext(s, k) = RefreshTaskbar(c)
  BY <1>1 DEF FocusNext
<1>3. n \in Int /\ s.active = n
  BY WindowNumbers DEF Drawable, NoneChosen
<1> HIDE DEF n
<1>4. c \in UwmSessions /\ SameWindows(c, s) /\ SameRegistry(c, s)
  BY <1>0, <1>3, ClearActive
<1>5. Drawable(c)
  BY <1>4, AlikeDrawable
<1>6. Standing(RefreshTaskbar(c)) /\ SameRegistry(RefreshTaskbar(c), c)
  BY <1>5, RefreshTaskbarStands
<1> QED BY <1>2, <1>4, <1>6 DEF SameRegistry

(***************************************************************************)
(* The registry of the processes.                                          *)
(***************************************************************************)

\* The registry names every live process, at its application.
Registered(s, pr) ==
    \A p \in Pids : pr[p].state \in {"pending", "ready"} =>
      pr[p].app \in Apps /\ s.pids[pr[p].app] = p

RegistryFields(s, pids, states) == [s EXCEPT !.pids = pids, !.states = states]

LEMMA RegistryChanged ==
  ASSUME NEW s \in UwmSessions, NEW pids \in [Apps -> Pids \cup {0}],
         NEW states \in [Apps -> ProcStates]
  PROVE  /\ RegistryFields(s, pids, states) \in UwmSessions
         /\ SameWindows(RegistryFields(s, pids, states), s)
         /\ RegistryFields(s, pids, states).bar = s.bar
         /\ RegistryFields(s, pids, states).pids = pids
         /\ RegistryFields(s, pids, states).states = states
         /\ RegistryFields(s, pids, states).pc = s.pc
BY DEF RegistryFields, UwmSessions, SameWindows

\* The entry ush_uwm_app_registry_running leaves: released only if the kernel
\* says that its process has ended.
EntryReleased(s, a) == procs[s.pids[a]].state \in {"unused", "exited"}

LEMMA EntryRead ==
  ASSUME NEW s \in UwmSessions, NEW a \in Apps, procs \in UwmProcs, UwmSizes
  PROVE  /\ RegistryEntry(s, a) \in UwmSessions
         /\ SameWindows(RegistryEntry(s, a), s)
         /\ RegistryEntry(s, a).bar = s.bar
         /\ RegistryEntry(s, a).pc = s.pc
         /\ \A b \in Apps : b # a => RegistryEntry(s, a).pids[b] = s.pids[b]
         /\ \/ RegistryEntry(s, a).pids[a] = s.pids[a]
            \/ RegistryEntry(s, a).pids[a] = 0 /\ s.pids[a] \in Pids /\ EntryReleased(s, a)
<1> DEFINE p == s.pids[a]
           u == "unused"
           z == 0
           st == IF p = z THEN u ELSE procs[p].state
           pd == IF p = z \/ procs[p].state \notin {"unused", "exited"} THEN p ELSE z
           states == [s.states EXCEPT ![a] = st]
           pids == [s.pids EXCEPT ![a] = pd]
           r == RegistryFields(s, pids, states)
<1>1. p \in Pids \cup {0}
  BY DEF UwmSessions
<1>2. st \in ProcStates /\ pd \in Pids \cup {0}
  BY <1>1 DEF UwmProcs, ProcStates
<1>3. RegistryEntry(s, a) = r
  <2>1. s.pids \in [Apps -> Pids \cup {0}] /\ s.states \in [Apps -> ProcStates]
    BY DEF UwmSessions
  <2>2. CASE p = 0
    <3>1. RegistryEntry(s, a) = [s EXCEPT !.states = [s.states EXCEPT ![a] = "unused"]]
      BY <2>2 DEF RegistryEntry, UwmSessions
    <3>2. pids = s.pids
      BY <2>1, <2>2
    <3>3. states = [s.states EXCEPT ![a] = "unused"]
      BY <2>2
    <3> HIDE DEF pids, states
    <3>4. r = [s EXCEPT !.states = states]
      BY <3>2 DEF RegistryFields, UwmSessions
    <3> QED BY <3>1, <3>3, <3>4
  <2>3. CASE p # 0 /\ procs[p].state = "unused"
    <3>1. RegistryEntry(s, a) = [s EXCEPT !.pids = [s.pids EXCEPT ![a] = 0],
                                          !.states = [s.states EXCEPT ![a] = "unused"]]
      BY <2>3 DEF RegistryEntry, UwmSessions
    <3>2. pids = [s.pids EXCEPT ![a] = 0]
      BY <2>3
    <3>3. states = [s.states EXCEPT ![a] = "unused"]
      BY <2>3
    <3> QED BY <3>1, <3>2, <3>3 DEF RegistryFields
  <2>4. CASE p # 0 /\ procs[p].state # "unused"
    <3> DEFINE x == IF procs[p].state = "exited" THEN 0 ELSE p
    <3>1. RegistryEntry(s, a) = [s EXCEPT !.states = [s.states EXCEPT ![a] = procs[p].state],
                                          !.pids = [s.pids EXCEPT ![a] = x]]
      BY <2>4 DEF RegistryEntry, UwmSessions
    <3>2. pids = [s.pids EXCEPT ![a] = x]
      BY <2>4
    <3>3. states = [s.states EXCEPT ![a] = procs[p].state]
      BY <2>4
    <3> HIDE DEF x, pids, states, p
    <3>4. RegistryEntry(s, a) = [s EXCEPT !.states = states, !.pids = pids]
      BY <3>1, <3>2, <3>3
    <3>5. r = [s EXCEPT !.states = states, !.pids = pids]
      BY DEF RegistryFields, UwmSessions
    <3> QED BY <3>4, <3>5
  <2> QED BY <2>2, <2>3, <2>4
<1>4. \/ pd = p
      \/ pd = 0 /\ p \in Pids /\ procs[p].state \in {"unused", "exited"}
  BY <1>1
<1> HIDE DEF st, pd, u, z
<1>5. /\ states \in [Apps -> ProcStates] /\ pids \in [Apps -> Pids \cup {0}]
      /\ pids[a] = pd /\ \A b \in Apps : b # a => pids[b] = s.pids[b]
  BY <1>2 DEF UwmSessions
<1> HIDE DEF states, pids
<1>6. r \in UwmSessions /\ SameWindows(r, s) /\ r.bar = s.bar /\ r.pc = s.pc /\ r.pids = pids
  BY <1>5, RegistryChanged
<1> QED BY <1>3, <1>4, <1>5, <1>6 DEF EntryReleased

\* A released entry had no live process, so the registry still names them all.
LEMMA EntryKeepsRegistered ==
  ASSUME NEW s \in UwmSessions, NEW a \in Apps, procs \in UwmProcs, UwmSizes,
         Registered(s, procs)
  PROVE  Registered(RegistryEntry(s, a), procs)
<1> DEFINE r == RegistryEntry(s, a)
<1> SUFFICES ASSUME NEW p \in Pids, procs[p].state \in {"pending", "ready"}
             PROVE  procs[p].app \in Apps /\ r.pids[procs[p].app] = p
  BY DEF Registered
<1>1. procs[p].app \in Apps /\ s.pids[procs[p].app] = p
  BY DEF Registered
<1>2. /\ \A b \in Apps : b # a => r.pids[b] = s.pids[b]
      /\ r.pids[a] = s.pids[a] \/ EntryReleased(s, a)
  BY EntryRead
<1> HIDE DEF r
<1>3. procs[p].app = a => ~EntryReleased(s, a)
  BY <1>1 DEF EntryReleased
<1> QED BY <1>1, <1>2, <1>3

LEMMA RegistryReadAll ==
  ASSUME NEW s \in UwmSessions, procs \in UwmProcs, UwmSizes, Registered(s, procs)
  PROVE  /\ RegistryAll(s) \in UwmSessions
         /\ SameWindows(RegistryAll(s), s)
         /\ RegistryAll(s).bar = s.bar
         /\ RegistryAll(s).pc = s.pc
         /\ Registered(RegistryAll(s), procs)
<1> DEFINE pids == [a \in Apps |-> RegistryEntry(s, a).pids[a]]
           states == [a \in Apps |-> RegistryEntry(s, a).states[a]]
           r == RegistryFields(s, pids, states)
<1>1. pids \in [Apps -> Pids \cup {0}] /\ states \in [Apps -> ProcStates]
  <2>1. \A a \in Apps : RegistryEntry(s, a) \in UwmSessions
    BY EntryRead
  <2>2. \A a \in Apps : RegistryEntry(s, a).pids[a] \in Pids \cup {0}
                        /\ RegistryEntry(s, a).states[a] \in ProcStates
    BY <2>1 DEF UwmSessions
  <2> QED BY <2>2
<1>2. RegistryAll(s) = r
  BY DEF RegistryAll, RegistryFields
<1>3. \A p \in Pids : procs[p].state \in {"pending", "ready"} =>
        procs[p].app \in Apps /\ pids[procs[p].app] = p
  <2> SUFFICES ASSUME NEW p \in Pids, procs[p].state \in {"pending", "ready"}
               PROVE  procs[p].app \in Apps /\ pids[procs[p].app] = p
    OBVIOUS
  <2> DEFINE a == procs[p].app
  <2>1. a \in Apps
    BY DEF Registered
  <2>2. Registered(RegistryEntry(s, a), procs)
    BY <2>1, EntryKeepsRegistered
  <2>3. RegistryEntry(s, a).pids[a] = p
    BY <2>2 DEF Registered
  <2> QED BY <2>1, <2>3
<1> HIDE DEF pids, states
<1>4. r \in UwmSessions /\ SameWindows(r, s) /\ r.bar = s.bar /\ r.pc = s.pc /\ r.pids = pids
  BY <1>1, RegistryChanged
<1> QED BY <1>2, <1>3, <1>4 DEF Registered

LEMMA LeastPid ==
  ASSUME NEW S, S \subseteq Nat, S # {}
  PROVE  \E m \in S : \A y \in S : m <= y
<1>1. PICK m \in S : \A y \in S : ~(<<y, m>> \in OpToRel(<,Nat))
  BY NatLessThanWellFounded, WFMin, Zenon
<1>2. \A y \in S : m <= y
  <2> SUFFICES ASSUME NEW y \in S, y < m PROVE FALSE
    OBVIOUS
  <2>1. <<y, m>> \in Nat \X Nat /\ <<y, m>>[1] < <<y, m>>[2]
    OBVIOUS
  <2>2. <<y, m>> \in OpToRel(<,Nat)
    BY <2>1 DEF OpToRel
  <2> QED BY <2>2, <1>1
<1> QED BY <1>2

\* ush_uwm_launch_or_restore_app starts a process only when the entry of the
\* application is free, and enters it there.
LEMMA LaunchStands ==
  ASSUME NEW s, Standing(s), NEW a \in Apps, NEW k, procs \in UwmProcs,
         foreign \in SUBSET Pids, Registered(s, procs), UwmSizes
  PROVE  /\ Standing(LaunchOrRestore(s, a, k)[1])
         /\ LaunchOrRestore(s, a, k)[1].pc = s.pc
         /\ LaunchOrRestore(s, a, k)[2] \in UwmProcs
         /\ Registered(LaunchOrRestore(s, a, k)[1], LaunchOrRestore(s, a, k)[2])
<1> DEFINE r == RegistryEntry(s, a)
           p == r.pids[a]
           n == CHOOSE f \in FreePids : \A g \in FreePids : f <= g
           e == "pending"
           pids == [r.pids EXCEPT ![a] = n]
           states == [r.states EXCEPT ![a] = e]
           l == RegistryFields(r, pids, states)
           focused == IF p \in foreign THEN SetFocus(r, ForeignWindow(p), k) ELSE r
<1>1. /\ r \in UwmSessions /\ SameWindows(r, s) /\ r.pc = s.pc /\ Registered(r, procs)
  BY EntryRead, EntryKeepsRegistered DEF Standing, Drawable
<1>2. Drawable(r)
  BY <1>1, AlikeDrawable DEF Standing
<1>3. p \in Pids \cup {0}
  BY <1>1 DEF UwmSessions
<1>4. CASE p # 0
  <2>1. LaunchOrRestore(s, a, k) = <<RefreshTaskbar(focused), procs>>
    BY <1>4 DEF LaunchOrRestore
  <2>2. Drawable(focused) /\ SameRegistry(focused, r)
    <3>1. CASE p \in foreign
      <4>1. ForeignWindow(p) \in Int
        BY <1>3, <1>4, WindowNumbers
      <4> HIDE DEF r, p
      <4> QED BY <1>2, <3>1, <4>1, FocusStands
    <3>2. CASE p \notin foreign
      BY <1>2, <3>2 DEF SameRegistry
    <3> QED BY <3>1, <3>2
  <2> HIDE DEF focused
  <2>3. Standing(RefreshTaskbar(focused)) /\ SameRegistry(RefreshTaskbar(focused), focused)
    BY <2>2, RefreshTaskbarStands
  <2> HIDE DEF r
  <2>4. Registered(RefreshTaskbar(focused), procs) /\ RefreshTaskbar(focused).pc = s.pc
    BY <1>1, <2>2, <2>3 DEF Registered, SameRegistry
  <2> QED BY <2>1, <2>3, <2>4
<1>5. CASE p = 0 /\ (FreePids = {} \/ ~k.create)
  <2>1. LaunchOrRestore(s, a, k) = <<RefreshTaskbar(r), procs>>
    BY <1>5 DEF LaunchOrRestore, AppPath
  <2>2. Standing(RefreshTaskbar(r)) /\ SameRegistry(RefreshTaskbar(r), r)
    BY <1>2, RefreshTaskbarStands
  <2> HIDE DEF r
  <2>3. Registered(RefreshTaskbar(r), procs) /\ RefreshTaskbar(r).pc = s.pc
    BY <1>1, <2>2 DEF Registered, SameRegistry
  <2> QED BY <2>1, <2>2, <2>3
<1>6. CASE p = 0 /\ FreePids # {} /\ k.create
  <2>1. n \in FreePids
    <3>1. FreePids \subseteq Nat
      BY DEF FreePids, Pids, UwmSizes
    <3>2. \E f \in FreePids : \A g \in FreePids : f <= g
      BY <1>6, <3>1, LeastPid
    <3> QED BY <3>2
  <2> HIDE DEF n, r
  <2>2. n \in Pids /\ procs[n].state = "unused"
    BY <2>1 DEF FreePids
  <2>3. LaunchOrRestore(s, a, k) = <<RefreshTaskbar(l), Spawned(n, a)>>
    <3>1. [r EXCEPT !.pids[a] = n, !.states[a] = "pending"] = l
      BY <1>1 DEF RegistryFields, UwmSessions
    <3>2. LaunchOrRestore(s, a, k)
            = <<RefreshTaskbar([r EXCEPT !.pids[a] = n, !.states[a] = "pending"]), Spawned(n, a)>>
      BY <1>6 DEF LaunchOrRestore, AppPath, r, n
    <3> HIDE DEF l
    <3> QED BY <3>1, <3>2
  <2>4. e \in ProcStates
    BY DEF ProcStates
  <2> HIDE DEF e
  <2>5. /\ pids \in [Apps -> Pids \cup {0}] /\ states \in [Apps -> ProcStates]
        /\ pids[a] = n /\ \A b \in Apps : b # a => pids[b] = r.pids[b]
    BY <1>1, <2>2, <2>4 DEF UwmSessions
  <2> HIDE DEF pids, states
  <2>6. l \in UwmSessions /\ SameWindows(l, r) /\ l.pc = r.pc /\ l.pids = pids
    BY <1>1, <2>5, RegistryChanged
  <2> HIDE DEF l
  <2>7. Drawable(l)
    BY <1>2, <2>6, AlikeDrawable
  <2>8. Standing(RefreshTaskbar(l)) /\ SameRegistry(RefreshTaskbar(l), l)
    BY <2>7, RefreshTaskbarStands
  <2>9. /\ Spawned(n, a) \in UwmProcs
        /\ Spawned(n, a)[n].app = a
        /\ \A q \in Pids : q # n => Spawned(n, a)[q] = procs[q]
    <3> DEFINE x == [app |-> a, state |-> e]
    <3>1. x \in [app : Apps \cup {None}, state : ProcStates] /\ x.app = a
      BY <2>4
    <3>2. Spawned(n, a) = [procs EXCEPT ![n] = x]
      BY DEF Spawned, e
    <3> HIDE DEF x
    <3> QED BY <2>2, <3>1, <3>2 DEF UwmProcs
  <2>10. Registered(l, Spawned(n, a))
    <3> SUFFICES ASSUME NEW q \in Pids, Spawned(n, a)[q].state \in {"pending", "ready"}
                 PROVE  Spawned(n, a)[q].app \in Apps /\ l.pids[Spawned(n, a)[q].app] = q
      BY DEF Registered
    <3>1. CASE q = n
      BY <2>5, <2>6, <2>9, <3>1
    <3>2. CASE q # n
      <4>1. procs[q].app \in Apps /\ r.pids[procs[q].app] = q
        BY <1>1, <2>9, <3>2 DEF Registered
      <4>2. procs[q].app # a
        BY <1>6, <4>1, WindowNumbers
      <4> QED BY <2>5, <2>6, <2>9, <3>2, <4>1, <4>2
    <3> QED BY <3>1, <3>2
  <2>11. Registered(RefreshTaskbar(l), Spawned(n, a)) /\ RefreshTaskbar(l).pc = s.pc
    BY <1>1, <2>6, <2>8, <2>10 DEF Registered, SameRegistry
  <2> QED BY <2>3, <2>8, <2>9, <2>11
<1> QED BY <1>4, <1>5, <1>6

(***************************************************************************)
(* The start and the end of a session.                                     *)
(***************************************************************************)

\* What ush_uwm_stop finds: a terminal to give back, and nothing chosen.
Endable(s) ==
    s \in UwmSessions /\ NoneChosen(s) /\ (~s.switched => s.tty = s.tty_before)

\* Before the taskbar has a window.
Booting(s) ==
    /\ Endable(s) /\ NoAppWindow(s.win) /\ KernelKnows(s)
    /\ ~s.win[Taskbar].alive
    /\ s.start_open = s.win[StartMenu].alive

\* What ush_uwm_stop leaves.
Over(s) ==
    /\ s \in UwmSessions /\ NoneChosen(s) /\ NoAppWindow(s.win)
    /\ s.kernel = {} /\ \A i \in Windows : ~s.win[i].alive
    /\ s.tty = s.tty_before

DeadWindow(w) ==
    [w EXCEPT !.alive = FALSE, !.pixels = FALSE, !.minimized = FALSE, !.closed = TRUE,
              !.maximized = FALSE]

LEMMA DeadWindows ==
  ASSUME NEW w \in UwmWindow
  PROVE  /\ DeadWindow(w) \in UwmWindow
         /\ ~DeadWindow(w).alive /\ DeadWindow(w).closed /\ ~DeadWindow(w).minimized
BY DEF DeadWindow, UwmWindow

LEMMA WindowsDestroyed ==
  ASSUME NEW s \in UwmSessions, NEW i \in Windows, UwmSizes
  PROVE  DestroyWindow(s, i).win[i] = DeadWindow(s.win[i])
<1> DEFINE d == DestroyKernelWindow(s, i)
           v == [s.win[i] EXCEPT !.alive = FALSE]
           x == [d.win[i] EXCEPT !.pixels = FALSE, !.minimized = FALSE, !.closed = TRUE,
                                 !.maximized = FALSE]
<1>1. d \in UwmSessions /\ d.win = [s.win EXCEPT ![i] = v]
  BY DestroyedFields
<1>2. d.win[i] = v
  BY <1>1 DEF UwmSessions
<1>3. DestroyWindow(s, i).win[i] = x
  <2> HIDE DEF d
  <2>1. DestroyWindow(s, i)
          = [d EXCEPT !.win[i] = [@ EXCEPT !.pixels = FALSE, !.minimized = FALSE,
                                           !.closed = TRUE, !.maximized = FALSE]]
    BY DEF DestroyWindow, d
  <2> QED BY <1>1, <2>1 DEF UwmSessions, UwmWindow
<1>4. s.win[i] \in UwmWindow
  BY DEF UwmSessions
<1>5. x = DeadWindow(s.win[i])
  <2> HIDE DEF d
  <2> QED BY <1>2, <1>4 DEF DeadWindow, UwmWindow
<1> QED BY <1>3, <1>5

StopFields(s, pc, w, kernel, focus, shown_tty, switched) ==
    [s EXCEPT !.pc = pc, !.win = w, !.kernel = kernel, !.focus = focus, !.tty = shown_tty,
              !.switched = switched]

LEMMA StoppedFields ==
  ASSUME NEW s \in UwmSessions, NEW pc \in {"start", "loop", "done"},
         NEW w \in [Windows -> UwmWindow], NEW kernel \in SUBSET Windows, NEW focus \in Int,
         NEW shown_tty \in Int, NEW switched \in BOOLEAN
  PROVE  LET r == StopFields(s, pc, w, kernel, focus, shown_tty, switched) IN
         /\ r \in UwmSessions
         /\ r.pc = pc /\ r.win = w /\ r.kernel = kernel /\ r.tty = shown_tty
         /\ r.active = s.active /\ r.drag = s.drag /\ r.resize = s.resize
         /\ r.tty_before = s.tty_before /\ r.pids = s.pids
BY DEF StopFields, UwmSessions

LEMMA StoppedIsOver ==
  ASSUME NEW s, Endable(s), UwmSizes
  PROVE  Over(Stopped(s)) /\ Stopped(s).pc = "done" /\ Stopped(s).pids = s.pids
<1> DEFINE pc == "done"
           w == [i \in Windows |-> DestroyWindow(s, i).win[i]]
           kernel == {}
           focus == IF s.focus \in Windows THEN None ELSE s.focus
           shown_tty == IF s.switched THEN s.tty_before ELSE s.tty
           f == FALSE
           r == StopFields(s, pc, w, kernel, focus, shown_tty, f)
<1>1. s \in UwmSessions
  BY DEF Endable
<1>2. pc \in {"start", "loop", "done"} /\ kernel \in SUBSET Windows /\ f \in BOOLEAN
  OBVIOUS
<1>3. focus \in Int /\ shown_tty \in Int /\ shown_tty = s.tty_before
  <2>1. s.focus \in Int /\ s.tty \in Int /\ s.tty_before \in Int /\ s.switched \in BOOLEAN
    BY <1>1 DEF UwmSessions
  <2> QED BY <2>1, WindowNumbers DEF Endable
<1>4. /\ w \in [Windows -> UwmWindow]
      /\ \A i \in Windows : ~w[i].alive /\ w[i].closed /\ ~w[i].minimized
  <2>1. \A i \in Windows : s.win[i] \in UwmWindow
    BY <1>1 DEF UwmSessions
  <2>2. \A i \in Windows : w[i] = DeadWindow(s.win[i])
    BY <1>1, WindowsDestroyed
  <2>3. w = [i \in Windows |-> w[i]]
    OBVIOUS
  <2> HIDE DEF w
  <2> QED BY <2>1, <2>2, <2>3, DeadWindows
<1>5. Stopped(s) = r
  BY DEF Stopped, StopFields
<1> HIDE DEF pc, w, kernel, focus, shown_tty, f
<1>6. /\ r \in UwmSessions
      /\ r.pc = pc /\ r.win = w /\ r.kernel = kernel /\ r.tty = shown_tty
      /\ r.active = s.active /\ r.drag = s.drag /\ r.resize = s.resize
      /\ r.tty_before = s.tty_before /\ r.pids = s.pids
  BY <1>1, <1>2, <1>3, <1>4, StoppedFields
<1> HIDE DEF r
<1>7. NoneChosen(r)
  BY <1>6 DEF Endable, NoneChosen
<1>8. NoAppWindow(r.win)
  BY <1>4, <1>6, WindowNumbers DEF NoAppWindow
<1> QED BY <1>3, <1>4, <1>5, <1>6, <1>7, <1>8 DEF Over, kernel, pc

TtyFields(s, shown_tty, switched) == [s EXCEPT !.tty = shown_tty, !.switched = switched]

LEMMA TtySwitched ==
  ASSUME NEW s, Booting(s), UwmSizes
  PROVE  Booting(SwitchTty(s)) /\ SameRegistry(SwitchTty(s), s)
<1> DEFINE t == TRUE
           y == USH_UWM_TTY_DISPLAY
           r == TtyFields(s, y, t)
<1>1. s \in UwmSessions
  BY DEF Booting, Endable
<1>2. t \in BOOLEAN /\ y \in Int
  BY DEF USH_UWM_TTY_DISPLAY
<1>3. SwitchTty(s) = s \/ SwitchTty(s) = r
  BY DEF SwitchTty, TtyFields
<1> HIDE DEF y
<1>4. r.switched = TRUE
  BY <1>1 DEF TtyFields, UwmSessions
<1> HIDE DEF t
<1>5. /\ r \in UwmSessions /\ r.win = s.win /\ r.kernel = s.kernel
      /\ r.active = s.active /\ r.drag = s.drag /\ r.resize = s.resize
      /\ r.start_open = s.start_open /\ SameRegistry(r, s)
  BY <1>1, <1>2 DEF TtyFields, UwmSessions, SameRegistry
<1> HIDE DEF r
<1>6. Booting(r)
  BY <1>4, <1>5 DEF Booting, Endable, NoneChosen, KernelKnows
<1> QED BY <1>3, <1>5, <1>6 DEF SameRegistry

\* ush_uwm_start: the taskbar has a window and its pixels, or none at all.
LEMMA BootStands ==
  ASSUME NEW s, Booting(s), foreign \in SUBSET Pids, NEW k, UwmSizes
  PROVE  /\ BootTaskbar(s, k).win[Taskbar].alive => Standing(BootTaskbar(s, k))
         /\ Endable(BootTaskbar(s, k))
         /\ SameRegistry(BootTaskbar(s, k), s)
<1> DEFINE t == TRUE
           w == [s.win EXCEPT ![Taskbar] = [s.win[Taskbar] EXCEPT !.pixels = t]]
           q == [s EXCEPT !.win = w]
           p == ReplacePixels(s, Taskbar, k)
           c == CreateWindow(p, Taskbar, k)
           d == DestroyKernelWindow(c, Taskbar)
<1>1. s \in UwmSessions /\ t \in BOOLEAN
  BY DEF Booting, Endable
<1>2. p = s \/ p = q
  BY <1>1 DEF ReplacePixels, UwmSessions
<1>3. /\ w \in [Windows -> UwmWindow]
      /\ w[Taskbar].alive = s.win[Taskbar].alive
      /\ w[Taskbar].pixels = t
      /\ \A j \in Windows : j # Taskbar => w[j] = s.win[j]
  <2>1. s.win \in [Windows -> UwmWindow] /\ Taskbar \in Windows
    BY <1>1, WindowNumbers DEF UwmSessions
  <2> HIDE DEF t
  <2> QED BY <1>1, <2>1 DEF UwmWindow
<1> HIDE DEF w, t
<1>4. /\ q \in UwmSessions /\ q.win = w /\ q.kernel = s.kernel
      /\ q.active = s.active /\ q.drag = s.drag /\ q.resize = s.resize
      /\ q.start_open = s.start_open /\ q.switched = s.switched
      /\ q.tty = s.tty /\ q.tty_before = s.tty_before /\ SameRegistry(q, s)
  BY <1>1, <1>3 DEF UwmSessions, SameRegistry
<1> HIDE DEF q
<1>5. Booting(q)
  <2>1. NoAppWindow(q.win)
    BY <1>3, <1>4, WindowNumbers DEF Booting, NoAppWindow
  <2>2. KernelKnows(q)
    BY <1>3, <1>4, WindowNumbers DEF Booting, KernelKnows
  <2>3. Endable(q)
    BY <1>4 DEF Booting, Endable, NoneChosen
  <2>4. ~q.win[Taskbar].alive /\ q.start_open = q.win[StartMenu].alive
    BY <1>3, <1>4, WindowNumbers DEF Booting
  <2> QED BY <2>1, <2>2, <2>3, <2>4 DEF Booting
<1>6. Booting(p) /\ SameRegistry(p, s)
  BY <1>2, <1>4, <1>5 DEF SameRegistry
<1>7. k.malloc => p = q
  BY <1>1 DEF ReplacePixels, q, w, t, UwmSessions
<1> HIDE DEF p
<1>8. CASE ~k.malloc \/ ~k.create
  <2>1. BootTaskbar(s, k) = p
    BY <1>8 DEF BootTaskbar, p
  <2> QED BY <1>6, <2>1 DEF Booting
<1>9. CASE k.malloc /\ k.create
  <2> DEFINE u == [w EXCEPT ![Taskbar] = [w[Taskbar] EXCEPT !.alive = t]]
  <2>1. /\ c \in UwmSessions /\ c.win = u /\ c.kernel = s.kernel \cup {Taskbar}
        /\ c.active = s.active /\ c.drag = s.drag /\ c.resize = s.resize
        /\ c.start_open = s.start_open /\ c.switched = s.switched
        /\ c.tty = s.tty /\ c.tty_before = s.tty_before /\ SameRegistry(c, s)
    <3>1. p \in UwmSessions /\ Taskbar \in Windows /\ t = TRUE /\ p = q
      BY <1>4, <1>7, <1>9, WindowNumbers DEF t
    <3>2. /\ c \in UwmSessions
          /\ c.win = [p.win EXCEPT ![Taskbar] = [p.win[Taskbar] EXCEPT !.alive = TRUE]]
          /\ c.kernel = p.kernel \cup {Taskbar}
          /\ c.active = p.active /\ c.drag = p.drag /\ c.resize = p.resize
          /\ c.start_open = p.start_open
          /\ c.switched = p.switched /\ c.tty = p.tty /\ c.tty_before = p.tty_before
          /\ SameRegistry(c, p)
      BY <1>9, <3>1, CreatedFields
    <3> HIDE DEF c
    <3> QED BY <1>4, <3>1, <3>2 DEF SameRegistry
  <2> HIDE DEF c
  <2>2. /\ u[Taskbar].alive = t /\ u[Taskbar].pixels = t
        /\ \A j \in Windows : j # Taskbar => u[j] = s.win[j]
    BY <1>1, <1>3, WindowNumbers, WindowChanged
  <2> HIDE DEF u
  <2>3. Drawable(c)
    <3>1. NoAppWindow(c.win)
      BY <2>1, <2>2, WindowNumbers DEF Booting, NoAppWindow
    <3>2. NoneChosen(c)
      BY <2>1 DEF Booting, Endable, NoneChosen
    <3>3. KernelKnows(c)
      BY <2>1, <2>2, WindowNumbers DEF Booting, KernelKnows, t
    <3>4. c.win[Taskbar].alive /\ c.win[Taskbar].pixels
      BY <2>1, <2>2 DEF t
    <3>5. c.start_open = c.win[StartMenu].alive
      BY <2>1, <2>2, WindowNumbers DEF Booting
    <3>6. ~c.switched => c.tty = c.tty_before
      BY <2>1 DEF Booting, Endable
    <3> QED BY <2>1, <3>1, <3>2, <3>3, <3>4, <3>5, <3>6 DEF Drawable
  <2>4. CASE ~k.present
    <3>1. BootTaskbar(s, k) = d
      BY <1>9, <2>4 DEF BootTaskbar, p, c
    <3>2. Taskbar \in Windows
      BY WindowNumbers
    <3>3. /\ d \in UwmSessions
          /\ d.win = [c.win EXCEPT ![Taskbar] = [c.win[Taskbar] EXCEPT !.alive = FALSE]]
          /\ d.active = c.active /\ d.drag = c.drag /\ d.resize = c.resize
          /\ d.switched = c.switched /\ d.tty = c.tty /\ d.tty_before = c.tty_before
          /\ SameRegistry(d, c)
      BY <2>1, <3>2, DestroyedFields
    <3> HIDE DEF d
    <3>4. ~d.win[Taskbar].alive
      <4>1. c.win \in [Windows -> UwmWindow]
        BY <2>1 DEF UwmSessions
      <4> QED BY <3>2, <3>3, <4>1, WindowChanged
    <3>5. Endable(d)
      BY <2>3, <3>3 DEF Drawable, Endable, NoneChosen
    <3> QED BY <2>1, <3>1, <3>3, <3>4, <3>5 DEF SameRegistry
  <2>5. CASE k.present
    <3>1. BootTaskbar(s, k) = RefreshTaskbar(c)
      BY <1>9, <2>5 DEF BootTaskbar, p, c
    <3>2. Standing(RefreshTaskbar(c)) /\ SameRegistry(RefreshTaskbar(c), c)
      BY <2>3, RefreshTaskbarStands
    <3> QED BY <2>1, <3>1, <3>2 DEF Standing, Drawable, Endable, SameRegistry
  <2> QED BY <2>4, <2>5
<1> QED BY <1>8, <1>9

PcFields(s, pc) == [s EXCEPT !.pc = pc]

LEMMA PcChanged ==
  ASSUME NEW s, Standing(s), NEW pc \in {"start", "loop", "done"}
  PROVE  Standing(PcFields(s, pc)) /\ PcFields(s, pc).pc = pc /\ PcFields(s, pc).pids = s.pids
<1> DEFINE r == PcFields(s, pc)
<1>1. s \in UwmSessions
  BY DEF Standing, Drawable
<1>2. r \in UwmSessions /\ SameWindows(r, s) /\ r.bar = s.bar /\ r.pc = pc /\ r.pids = s.pids
  BY <1>1 DEF PcFields, UwmSessions, SameWindows
<1> HIDE DEF r
<1>3. Drawable(r)
  BY <1>2, AlikeDrawable DEF Standing
<1> QED BY <1>2, <1>3 DEF Standing, SameWindows, r

\* ush_uwm_handle_taskbar_click.
LEMMA TaskbarClickStands ==
  ASSUME NEW s, Standing(s), foreign \in SUBSET Pids, NEW b \in Int, NEW k, UwmSizes
  PROVE  /\ Standing(ClickTaskbarButton(s, b, k))
         /\ SameRegistry(ClickTaskbarButton(s, b, k), s)
<1>1. CASE b \in Apps
  <2>1. ~s.win[b].minimized /\ s.active # b /\ ~Usable(s, b)
    BY <1>1, WindowNumbers DEF Standing, Drawable, NoAppWindow, NoneChosen, Usable
  <2>2. ClickTaskbarButton(s, b, k) = s
    BY <1>1, <2>1 DEF ClickTaskbarButton, SetActive
  <2> QED BY <2>2 DEF SameRegistry
<1>2. CASE b \notin Apps
  <2> DEFINE c == IF s.start_open THEN CloseStart(s, k) ELSE s
             n == None
             a == [c EXCEPT !.active = n]
             f == SetFocus(a, b, k)
  <2>1. ClickTaskbarButton(s, b, k) = RefreshTaskbar(f)
    BY <1>2 DEF ClickTaskbarButton
  <2>2. Standing(c) /\ SameRegistry(c, s)
    BY CloseStartStands DEF Standing, SameRegistry
  <2> HIDE DEF c
  <2>3. n \in Int /\ c.active = n /\ c \in UwmSessions
    BY <2>2, WindowNumbers DEF Standing, Drawable, NoneChosen
  <2> HIDE DEF n
  <2>4. a \in UwmSessions /\ SameWindows(a, c) /\ SameRegistry(a, c)
    BY <2>3, ClearActive
  <2> HIDE DEF a
  <2>5. Drawable(a)
    BY <2>2, <2>4, AlikeDrawable DEF Standing
  <2>6. Drawable(f) /\ SameRegistry(f, a)
    BY <2>5, FocusStands
  <2> HIDE DEF f
  <2>7. Standing(RefreshTaskbar(f)) /\ SameRegistry(RefreshTaskbar(f), f)
    BY <2>6, RefreshTaskbarStands
  <2> QED BY <2>1, <2>2, <2>4, <2>6, <2>7 DEF SameRegistry
<1> QED BY <1>1, <1>2

LEMMA EndDragStands ==
  ASSUME NEW s, Standing(s), NEW i \in Windows, UwmSizes
  PROVE  Standing(EndDrag(s, i)) /\ SameRegistry(EndDrag(s, i), s)
<1> DEFINE d == IF s.drag = i THEN None ELSE s.drag
           r == IF s.resize = i THEN None ELSE s.resize
           e == [s EXCEPT !.drag = d, !.resize = r]
<1>1. s \in UwmSessions
  BY DEF Standing, Drawable
<1>2. EndDrag(s, i) = e
  BY <1>1 DEF EndDrag, UwmSessions
<1>3. d \in Int /\ r \in Int /\ s.drag = d /\ s.resize = r
  BY WindowNumbers DEF Standing, Drawable, NoneChosen
<1> HIDE DEF d, r
<1>4. e \in UwmSessions /\ SameWindows(e, s) /\ SameRegistry(e, s) /\ e.bar = s.bar
  BY <1>1, <1>3, ChangeDrag
<1> HIDE DEF e
<1>5. Drawable(e)
  BY <1>4, AlikeDrawable DEF Standing
<1> QED BY <1>2, <1>4, <1>5 DEF Standing, SameWindows

(***************************************************************************)
(* The inductive invariant of the window manager.                          *)
(***************************************************************************)

UwmInv ==
    /\ sess \in UwmSessions
    /\ procs \in UwmProcs
    /\ foreign \in SUBSET Pids
    /\ Registered(sess, procs)
    /\ sess.pc = "start" => Booting(sess)
    /\ sess.pc = "loop" => Standing(sess)
    /\ sess.pc = "done" => Over(sess)

LEMMA RegisteredAlike ==
  ASSUME NEW s, NEW r, NEW pr, Registered(s, pr), r.pids = s.pids
  PROVE  Registered(r, pr)
BY DEF Registered

\* A handler of the loop that leaves the processes alone.
LEMMA LoopStep ==
  ASSUME UwmInv, Standing(sess'), SameRegistry(sess', sess), sess.pc = "loop",
         procs' = procs, foreign' = foreign
  PROVE  UwmInv'
<1>1. sess' \in UwmSessions /\ sess'.pc = "loop" /\ Registered(sess', procs')
  BY RegisteredAlike DEF Standing, Drawable, SameRegistry, UwmInv
<1>2. Standing(sess)'
  BY DEF Standing, Drawable, NoAppWindow, NoneChosen, KernelKnows
<1>3. Registered(sess, procs)'
  BY <1>1 DEF Registered
<1> QED BY <1>1, <1>2, <1>3 DEF UwmInv, UwmProcs

\* A step of the programs, which moves only the focus of the session.
LEMMA ProgramStep ==
  ASSUME UwmInv, UwmSizes, NEW v \in Int, sess' = [sess EXCEPT !.focus = v],
         procs' \in UwmProcs, foreign' \in SUBSET Pids,
         \A p \in Pids : procs'[p].state \in {"pending", "ready"} =>
           procs[p].state \in {"pending", "ready"} /\ procs'[p].app = procs[p].app
  PROVE  UwmInv'
<1> DEFINE r == [sess EXCEPT !.focus = v]
<1>1. r \in UwmSessions /\ SameWindows(r, sess) /\ SameRegistry(r, sess) /\ r.bar = sess.bar
  BY ChangeFocus DEF UwmInv
<1> HIDE DEF r
<1>2. sess' = r
  BY DEF r
<1>3. Registered(sess, procs)'
  BY <1>1, <1>2 DEF UwmInv, Registered, SameRegistry
<1>4. sess'.pc = "start" => Booting(sess)'
  BY <1>1, <1>2 DEF UwmInv, SameWindows, SameRegistry, Booting, Endable, NoAppWindow, NoneChosen,
                    KernelKnows
<1>5. sess'.pc = "loop" => Standing(sess)'
  BY <1>1, <1>2 DEF UwmInv, SameWindows, SameRegistry, Standing, Drawable, NoAppWindow,
                    NoneChosen, KernelKnows
<1>6. sess'.pc = "done" => Over(sess)'
  BY <1>1, <1>2 DEF UwmInv, SameWindows, SameRegistry, Over, NoAppWindow, NoneChosen
<1> QED BY <1>1, <1>2, <1>3, <1>4, <1>5, <1>6 DEF UwmInv, UwmProcs

\* The end of a session.
LEMMA StopStep ==
  ASSUME UwmInv, UwmSizes, NEW b, Endable(b), b.pids = sess.pids, sess' = Stopped(b),
         procs' = procs, foreign' = foreign
  PROVE  UwmInv'
<1>1. Over(sess') /\ sess'.pc = "done" /\ sess'.pids = sess.pids
  BY StoppedIsOver
<1>2. Over(sess)'
  BY <1>1 DEF Over, NoAppWindow, NoneChosen
<1>3. Registered(sess, procs)'
  BY <1>1 DEF UwmInv, Registered
<1> QED BY <1>1, <1>2, <1>3 DEF UwmInv, UwmProcs, Over

\* A program started from the start menu or by a key.
LEMMA LaunchStep ==
  ASSUME UwmInv, UwmSizes, NEW s, Standing(s), SameRegistry(s, sess), sess.pc = "loop",
         NEW a \in Apps, NEW k,
         sess' = LaunchOrRestore(s, a, k)[1], procs' = LaunchOrRestore(s, a, k)[2],
         foreign' = foreign
  PROVE  UwmInv'
<1>1. Registered(s, procs)
  BY RegisteredAlike DEF UwmInv, SameRegistry
<1>2. Standing(sess') /\ sess'.pc = s.pc /\ procs' \in UwmProcs /\ Registered(sess', procs')
  BY <1>1, LaunchStands DEF UwmInv
<1>3. Standing(sess)'
  BY <1>2 DEF Standing, Drawable, NoAppWindow, NoneChosen, KernelKnows
<1>4. Registered(sess, procs)'
  BY <1>2 DEF Registered
<1> QED BY <1>2, <1>3, <1>4 DEF UwmInv, UwmProcs, Standing, Drawable, SameRegistry

LEMMA ProgramsKeep ==
  ASSUME UwmInv, UwmSizes, NEW p \in Pids,
         ProcRuns(p) \/ ProcOpensWindow(p) \/ ProcExits(p) \/ ProcReaped(p)
  PROVE  UwmInv'
<1> DEFINE f == sess.focus
           new(st) == [procs EXCEPT ![p].state = st]
<1>0. /\ f \in Int /\ sess \in UwmSessions /\ procs \in UwmProcs /\ foreign \in SUBSET Pids
      /\ sess = [sess EXCEPT !.focus = f]
  BY DEF UwmInv, UwmSessions
<1>a. ASSUME NEW st \in ProcStates
      PROVE  /\ new(st) \in UwmProcs
             /\ new(st)[p].state = st /\ new(st)[p].app = procs[p].app
             /\ \A q \in Pids : q # p => new(st)[q] = procs[q]
  BY <1>0 DEF UwmProcs
<1>b. "ready" \in ProcStates /\ "exited" \in ProcStates /\ "unused" \in ProcStates
  BY DEF ProcStates
<1>1. CASE ProcRuns(p)
  <2> DEFINE st == "ready"
  <2>1. procs' = new(st) /\ procs[p].state = "pending" /\ foreign' = foreign
        /\ sess' = [sess EXCEPT !.focus = f]
    BY <1>0, <1>1 DEF ProcRuns
  <2>2. /\ new(st) \in UwmProcs /\ new(st)[p].app = procs[p].app
        /\ \A q \in Pids : q # p => new(st)[q] = procs[q]
    BY <1>a, <1>b
  <2>3. \A q \in Pids : procs'[q].state \in {"pending", "ready"} =>
          procs[q].state \in {"pending", "ready"} /\ procs'[q].app = procs[q].app
    BY <2>1, <2>2
  <2> HIDE DEF f
  <2> QED BY <1>0, <2>1, <2>2, <2>3, ProgramStep
<1>2. CASE ProcOpensWindow(p)
  <2> DEFINE w == ForeignWindow(p)
  <2>1. w \in Int
    BY WindowNumbers
  <2>2. procs' = procs /\ foreign' = foreign \cup {p} /\ sess' = [sess EXCEPT !.focus = w]
    BY <1>2 DEF ProcOpensWindow
  <2> HIDE DEF w
  <2> QED BY <1>0, <2>1, <2>2, ProgramStep
<1>3. CASE ProcExits(p)
  <2> DEFINE w == IF sess.focus = ForeignWindow(p) THEN None ELSE sess.focus
             st == "exited"
  <2>1. w \in Int
    BY <1>0, WindowNumbers
  <2>2. procs' = new(st) /\ foreign' = foreign \ {p} /\ sess' = [sess EXCEPT !.focus = w]
    BY <1>0, <1>3 DEF ProcExits, UwmSessions
  <2>3. /\ new(st) \in UwmProcs /\ new(st)[p].state = st
        /\ \A q \in Pids : q # p => new(st)[q] = procs[q]
    BY <1>a, <1>b
  <2>4. \A q \in Pids : procs'[q].state \in {"pending", "ready"} =>
          procs[q].state \in {"pending", "ready"} /\ procs'[q].app = procs[q].app
    BY <2>2, <2>3
  <2> HIDE DEF w
  <2> QED BY <1>0, <2>1, <2>2, <2>3, <2>4, ProgramStep
<1>4. CASE ProcReaped(p)
  <2> DEFINE st == "unused"
  <2>1. procs' = new(st) /\ foreign' = foreign /\ sess' = [sess EXCEPT !.focus = f]
    BY <1>0, <1>4 DEF ProcReaped
  <2>2. /\ new(st) \in UwmProcs /\ new(st)[p].state = st
        /\ \A q \in Pids : q # p => new(st)[q] = procs[q]
    BY <1>a, <1>b
  <2>3. \A q \in Pids : procs'[q].state \in {"pending", "ready"} =>
          procs[q].state \in {"pending", "ready"} /\ procs'[q].app = procs[q].app
    BY <2>1, <2>2
  <2> HIDE DEF f
  <2> QED BY <1>0, <2>1, <2>2, <2>3, ProgramStep
<1> QED BY <1>1, <1>2, <1>3, <1>4

LEMMA UwmStarts ==
  ASSUME UwmSizes, UwmInit
  PROVE  UwmInv
<1>1. PICK shown_tty \in {0, 1} : sess = Prepared(shown_tty)
  BY DEF UwmInit
<1> DEFINE n == None
           z == 0
           f == FALSE
           t == TRUE
           u == "unused"
           pids == [a \in Apps |-> z]
           states == [a \in Apps |-> u]
           shut == [alive |-> f, closed |-> t, minimized |-> f, topmost |-> f,
                    maximized |-> f, pixels |-> f]
           panel(c) == [shut EXCEPT !.topmost = t, !.closed = c]
           win == [i \in Windows |-> IF i \in Apps THEN shut ELSE panel(i # Taskbar)]
           kernel == {}
           bar == [open |-> f, buttons |-> kernel]
<1>2. /\ n \in Int /\ z \in Int /\ f \in BOOLEAN /\ t \in BOOLEAN /\ u \in ProcStates
      /\ kernel \in SUBSET Windows /\ kernel \in SUBSET Apps /\ kernel \in SUBSET Int
      /\ shown_tty \in Int
  BY WindowNumbers DEF ProcStates
<1>3. pids \in [Apps -> Pids \cup {0}] /\ states \in [Apps -> ProcStates]
  BY <1>2
<1>4. /\ win \in [Windows -> UwmWindow]
      /\ \A i \in Windows : win[i].alive = f /\ win[i].minimized = f
      /\ \A i \in Apps : win[i].closed = t
  <2> HIDE DEF f, t
  <2>1. shut \in UwmWindow /\ shut.alive = f /\ shut.minimized = f /\ shut.closed = t
    BY <1>2 DEF UwmWindow
  <2>2. ASSUME NEW c \in BOOLEAN
        PROVE  panel(c) \in UwmWindow /\ panel(c).alive = f /\ panel(c).minimized = f
    BY <1>2, <2>1 DEF UwmWindow
  <2> HIDE DEF shut, panel
  <2>3. \A i \in Windows : (i # Taskbar) \in BOOLEAN
    OBVIOUS
  <2>4. \A i \in Windows : panel(i # Taskbar) \in UwmWindow /\ panel(i # Taskbar).alive = f
                           /\ panel(i # Taskbar).minimized = f
    BY <2>2, <2>3
  <2> QED BY <2>1, <2>4, WindowNumbers
<1>5. bar \in [open : BOOLEAN, buttons : SUBSET Int] /\ bar.open = f
  BY <1>2
<1>6. sess = [pc |-> "start", active |-> n, drag |-> n, resize |-> n, start_open |-> f,
              tty_before |-> shown_tty, tty |-> shown_tty, switched |-> f,
              pids |-> pids, states |-> states, win |-> win,
              kernel |-> kernel, focus |-> n, bar |-> bar, menu |-> kernel]
  BY <1>1 DEF Prepared, Closed
<1> HIDE DEF n, z, f, t, pids, states, win, kernel, bar
<1>7. /\ sess \in UwmSessions /\ sess.pc = "start" /\ sess.win = win /\ sess.kernel = kernel
      /\ sess.active = n /\ sess.drag = n /\ sess.resize = n /\ sess.start_open = f
      /\ sess.tty = shown_tty /\ sess.tty_before = shown_tty
  BY <1>2, <1>3, <1>4, <1>5, <1>6 DEF UwmSessions
<1>8. Booting(sess)
  <2>1. NoAppWindow(sess.win)
    BY <1>4, <1>7, WindowNumbers DEF NoAppWindow, f, t
  <2>2. KernelKnows(sess)
    BY <1>4, <1>7 DEF KernelKnows, kernel, f
  <2>3. Endable(sess)
    BY <1>7 DEF Endable, NoneChosen, n
  <2>4. ~sess.win[Taskbar].alive /\ sess.start_open = sess.win[StartMenu].alive
    BY <1>4, <1>7, WindowNumbers DEF f
  <2> QED BY <2>1, <2>2, <2>3, <2>4 DEF Booting
<1>9. procs \in UwmProcs /\ \A p \in Pids : procs[p].state = "unused"
  <2> DEFINE x == [app |-> n, state |-> u]
  <2>1. x \in [app : Apps \cup {None}, state : ProcStates] /\ x.state = "unused"
    BY <1>2 DEF n
  <2>2. procs = [p \in Pids |-> x]
    BY DEF UwmInit, n
  <2> HIDE DEF x
  <2> QED BY <2>1, <2>2 DEF UwmProcs
<1>10. Registered(sess, procs)
  BY <1>9 DEF Registered
<1> QED BY <1>7, <1>8, <1>9, <1>10 DEF UwmInv, UwmInit

LEMMA UwmKept ==
  ASSUME UwmSizes, UwmInv, UwmNext
  PROVE  UwmInv'
<1>0. sess \in UwmSessions /\ procs \in UwmProcs /\ foreign \in SUBSET Pids
  BY DEF UwmInv
<1>a. ASSUME InLoop PROVE sess.pc = "loop" /\ Standing(sess) /\ Drawable(sess)
  BY <1>a DEF InLoop, UwmInv, Standing
<1>b. SameRegistry(sess, sess)
  BY DEF SameRegistry
<1>1. CASE StartSession
  <2>1. sess.pc = "start" /\ procs' = procs /\ foreign' = foreign /\ Booting(sess)
    BY <1>1 DEF StartSession, UwmInv
  <2>2. PICK k \in Answers, kmenu \in Answers :
          LET b == BootTaskbar(SwitchTty(sess), k)
          IN  sess' = IF b.win[Taskbar].alive
                      THEN [RefreshTaskbar(ToggleStart(b, kmenu)) EXCEPT !.pc = "loop"]
                      ELSE Stopped(b)
    BY <1>1 DEF StartSession
  <2> DEFINE w == SwitchTty(sess)
             b == BootTaskbar(w, k)
             m == RefreshTaskbar(ToggleStart(b, kmenu))
             loop == "loop"
             r == PcFields(m, loop)
  <2>3. Booting(w) /\ SameRegistry(w, sess)
    BY <2>1, TtySwitched
  <2> HIDE DEF w
  <2>4. /\ b.win[Taskbar].alive => Standing(b)
        /\ Endable(b)
        /\ SameRegistry(b, w)
    BY <1>0, <2>3, BootStands
  <2>5. sess' = IF b.win[Taskbar].alive THEN r ELSE Stopped(b)
    BY <2>2 DEF PcFields, w
  <2> HIDE DEF b, loop
  <2>6. CASE b.win[Taskbar].alive
    <3> DEFINE o == ToggleStart(b, kmenu)
    <3>1. Standing(o) /\ SameRegistry(o, b)
      BY <1>0, <2>4, <2>6, ToggleStartStands
    <3> HIDE DEF o
    <3>2. Standing(RefreshTaskbar(o)) /\ SameRegistry(RefreshTaskbar(o), o)
      BY <1>0, <3>1, RefreshTaskbarStands DEF Standing
    <3>3. m = RefreshTaskbar(o)
      BY DEF o
    <3> HIDE DEF m
    <3>4. loop \in {"start", "loop", "done"}
      BY DEF loop
    <3>5. Standing(r) /\ r.pc = loop /\ r.pids = m.pids
      BY <3>2, <3>3, <3>4, PcChanged
    <3> HIDE DEF r
    <3>6. sess' = r /\ r.pids = sess.pids
      BY <2>3, <2>4, <2>5, <2>6, <3>1, <3>2, <3>3, <3>5 DEF SameRegistry
    <3>7. Standing(sess)'
      BY <3>5, <3>6 DEF Standing, Drawable, NoAppWindow, NoneChosen, KernelKnows
    <3>8. Registered(sess, procs)'
      BY <2>1, <3>6 DEF UwmInv, Registered
    <3> QED BY <1>0, <2>1, <3>5, <3>6, <3>7, <3>8 DEF UwmInv, UwmProcs, Standing, Drawable, loop
  <2>7. CASE ~b.win[Taskbar].alive
    <3>1. sess' = Stopped(b) /\ b.pids = sess.pids
      BY <2>3, <2>4, <2>5, <2>7 DEF SameRegistry
    <3> QED BY <2>1, <2>4, <3>1, StopStep
  <2> QED BY <2>6, <2>7
<1>2. CASE KeyQuit
  <2>1. InLoop /\ sess' = Stopped(sess) /\ procs' = procs /\ foreign' = foreign
    BY <1>2 DEF KeyQuit, KeyArrives
  <2>2. Endable(sess)
    BY <1>a, <2>1 DEF Drawable, Endable
  <2> QED BY <2>1, <2>2, StopStep
<1>3. CASE KeyTab
  <2>1. InLoop /\ procs' = procs /\ foreign' = foreign
    BY <1>3 DEF KeyTab, KeyArrives
  <2>2. PICK k \in Answers : sess' = FocusNext(sess, k)
    BY <1>3 DEF KeyTab
  <2>3. Standing(sess') /\ SameRegistry(sess', sess)
    BY <1>0, <1>a, <2>1, <2>2, FocusNextStands
  <2> QED BY <1>a, <2>1, <2>3, LoopStep
<1>4. ASSUME NEW a \in Apps, KeyLaunch(a) PROVE UwmInv'
  <2>1. InLoop /\ foreign' = foreign
    BY <1>4 DEF KeyLaunch, KeyArrives
  <2>2. PICK k \in Answers : /\ sess' = LaunchOrRestore(sess, a, k)[1]
                             /\ procs' = LaunchOrRestore(sess, a, k)[2]
    BY <1>4 DEF KeyLaunch
  <2> QED BY <1>a, <1>b, <2>1, <2>2, LaunchStep
<1>5. ASSUME NEW a \in Apps, PressStartEntry(a) PROVE UwmInv'
  <2>1. InLoop /\ foreign' = foreign
    BY <1>5 DEF PressStartEntry
  <2>2. PICK k \in Answers : /\ sess' = LaunchOrRestore(CloseStart(sess, k), a, k)[1]
                             /\ procs' = LaunchOrRestore(CloseStart(sess, k), a, k)[2]
    BY <1>5 DEF PressStartEntry
  <2> DEFINE s == CloseStart(sess, k)
  <2>3. Standing(s) /\ SameRegistry(s, sess)
    BY <1>0, <1>a, <2>1, CloseStartStands
  <2>4. sess' = LaunchOrRestore(s, a, k)[1] /\ procs' = LaunchOrRestore(s, a, k)[2]
    BY <2>2
  <2> HIDE DEF s
  <2> QED BY <1>a, <2>1, <2>3, <2>4, LaunchStep
<1>6. ASSUME NEW key \in WindowKeys, KeyWindow(key) PROVE UwmInv'
  <2>1. InLoop /\ procs' = procs /\ foreign' = foreign
    BY <1>6 DEF KeyWindow, KeyArrives
  <2>2. sess.active \notin Apps
    BY <1>a, <2>1, WindowNumbers DEF Drawable, NoneChosen
  <2>3. sess' = sess
    BY <1>6, <2>2 DEF KeyWindow, KeyOnWindow
  <2> QED BY <1>a, <1>b, <2>1, <2>3, LoopStep
<1>7. CASE PressStartButton
  <2>1. InLoop /\ procs' = procs /\ foreign' = foreign
    BY <1>7 DEF PressStartButton
  <2>2. PICK k \in Answers : sess' = ToggleStart(sess, k)
    BY <1>7 DEF PressStartButton
  <2>3. Standing(sess') /\ SameRegistry(sess', sess)
    BY <1>0, <1>a, <2>1, <2>2, ToggleStartStands
  <2> QED BY <1>a, <2>1, <2>3, LoopStep
<1>8. CASE PressTaskbarButton
  <2>1. InLoop /\ procs' = procs /\ foreign' = foreign
    BY <1>8 DEF PressTaskbarButton
  <2>2. PICK b \in RenderTaskbar(sess).buttons, k \in Answers :
          sess' = ClickTaskbarButton(sess, b, k)
    BY <1>8 DEF PressTaskbarButton
  <2>3. b \in Int
    BY <1>0, <2>2, WindowNumbers DEF RenderTaskbar
  <2>4. Standing(sess') /\ SameRegistry(sess', sess)
    BY <1>0, <1>a, <2>1, <2>2, <2>3, TaskbarClickStands
  <2> QED BY <1>a, <2>1, <2>4, LoopStep
<1>9. CASE PressStartPower
  <2>1. InLoop /\ procs' = procs /\ foreign' = foreign
    BY <1>9 DEF PressStartPower
  <2>2. PICK k \in Answers : sess' = CloseStart(sess, k)
    BY <1>9 DEF PressStartPower
  <2>3. Standing(sess') /\ SameRegistry(sess', sess)
    BY <1>0, <1>a, <2>1, <2>2, CloseStartStands
  <2> QED BY <1>a, <2>1, <2>3, LoopStep
<1>10. CASE OwnWindowEvent
  <2>1. InLoop /\ procs' = procs /\ foreign' = foreign
    BY <1>10 DEF OwnWindowEvent
  <2>2. PICK i \in Receives : sess' = EndDrag(sess, i) \/ i \in Apps \/ sess' = sess
    BY <1>10 DEF OwnWindowEvent
  <2>3. i \in Windows /\ i \notin Apps
    BY <1>a, <2>1 DEF Receives, Drawable, NoAppWindow
  <2>4. Standing(EndDrag(sess, i)) /\ SameRegistry(EndDrag(sess, i), sess)
    BY <1>a, <2>1, <2>3, EndDragStands
  <2>5. Standing(sess') /\ SameRegistry(sess', sess)
    BY <1>a, <1>b, <2>1, <2>2, <2>3, <2>4
  <2> QED BY <1>a, <2>1, <2>5, LoopStep
<1>11. CASE RegistryTick
  <2> DEFINE r == RegistryAll(sess)
             b == RefreshTaskbar(r)
  <2>1. InLoop /\ procs' = procs /\ foreign' = foreign
        /\ (sess' = Refresh(b, StartMenu) \/ sess' = b)
    BY <1>11 DEF RegistryTick
  <2>2. r \in UwmSessions /\ SameWindows(r, sess) /\ r.pc = sess.pc /\ Registered(r, procs)
    BY <1>0, RegistryReadAll DEF UwmInv
  <2> HIDE DEF r
  <2>3. Drawable(r)
    BY <1>a, <2>1, <2>2, AlikeDrawable
  <2>4. Standing(b) /\ SameRegistry(b, r)
    BY <1>0, <2>3, RefreshTaskbarStands
  <2> HIDE DEF b
  <2>5. Standing(Refresh(b, StartMenu)) /\ SameRegistry(Refresh(b, StartMenu), b)
    BY <2>4, RefreshMenuStands
  <2>6. Standing(sess') /\ sess'.pids = r.pids /\ sess'.pc = "loop"
    BY <1>a, <2>1, <2>2, <2>4, <2>5 DEF SameRegistry
  <2>7. Standing(sess)'
    BY <2>6 DEF Standing, Drawable, NoAppWindow, NoneChosen, KernelKnows
  <2>8. Registered(sess, procs)'
    BY <2>1, <2>2, <2>6 DEF Registered
  <2> QED BY <1>0, <2>1, <2>6, <2>7, <2>8 DEF UwmInv, UwmProcs, Standing, Drawable
<1>12. ASSUME NEW p \in Pids,
              ProcRuns(p) \/ ProcOpensWindow(p) \/ ProcExits(p) \/ ProcReaped(p)
       PROVE  UwmInv'
  BY <1>12, ProgramsKeep
<1> QED BY <1>1, <1>2, <1>3, <1>4, <1>5, <1>6, <1>7, <1>8, <1>9, <1>10, <1>11, <1>12 DEF UwmNext

LEMMA UwmInvSound ==
  ASSUME UwmSizes, UwmInv
  PROVE  SessionSound
<1>0. sess \in UwmSessions
  BY DEF UwmInv
<1>1. OneProcessPerApp
  BY DEF UwmInv, Registered, OneProcessPerApp, Alive
<1>2. KernelKnows(sess) /\ NoAppWindow(sess.win) /\ NoneChosen(sess)
  <2>1. sess.pc \in {"start", "loop", "done"}
    BY <1>0 DEF UwmSessions
  <2> QED BY <2>1 DEF UwmInv, Booting, Endable, Standing, Drawable, Over, KernelKnows
<1>3. ScreenMatchesSession
  BY <1>2 DEF UwmInv, ScreenMatchesSession, InLoop, Receives, KernelKnows, Standing, Drawable, Over
<1>4. SessionWindowsStayClosed
  BY <1>2 DEF SessionWindowsStayClosed, NoAppWindow, NoneChosen
<1> QED BY <1>1, <1>3, <1>4 DEF SessionSound

\* For any number of applications and processes, and any order of keys, clicks
\* and ends of programs: ush_uwm_app_registry_running never lets a second live
\* process of an application be started, ush_uwm_toggle_start and
\* ush_uwm_start leave screen and session in agreement when they fail, and
\* nothing is left when uwm ends.
THEOREM WindowManagerIsSound == UwmSpec => []SessionSound
<1> USE UwmAssumption
<1>1. UwmInit => UwmInv
  BY UwmStarts
<1>2. UwmInv /\ [UwmNext]_uwmVars => UwmInv'
  <2> SUFFICES ASSUME UwmInv, [UwmNext]_uwmVars PROVE UwmInv'
    OBVIOUS
  <2>1. CASE UwmNext
    BY <2>1, UwmKept
  <2>2. CASE UNCHANGED uwmVars
    <3>1. sess' = sess /\ procs' = procs /\ foreign' = foreign
      BY <2>2 DEF uwmVars
    <3> QED BY <3>1 DEF UwmInv, UwmProcs, Registered, Booting, Endable, Standing, Drawable, Over,
                        NoAppWindow, NoneChosen, KernelKnows
  <2> QED BY <2>1, <2>2
<1>3. UwmInv => SessionSound
  BY UwmInvSound
<1> QED BY <1>1, <1>2, <1>3, PTL DEF UwmSpec

(***************************************************************************)
(* The file explorer: the listing.                                         *)
(***************************************************************************)

FxEntry == [child : DOMAIN Name, type : {"dir", "file", "unknown"}]

FolderEntry(e) == e \in FxEntry /\ (e.type = "dir" => e.child \in DOMAIN Folders)

\* One entry of a listing may stand before another.
MayPrecede(e, f) == f.type = "dir" => e.type = "dir" /\ Name[e.child] <= Name[f.child]
SortedTypes(e, f) == e.type = f.type => Name[e.child] <= Name[f.child]

AllKnown(s) == \A k \in 1..Len(s) : s[k].type # "unknown"

InOrder(s) ==
    \A i, j \in 1..Len(s) : i < j =>
      MayPrecede(s[i], s[j]) /\ (AllKnown(s) => SortedTypes(s[i], s[j]))

IsListing(s) ==
    /\ s \in Seq(FxEntry) /\ InOrder(s)
    /\ \A i \in 1..Len(s) : FolderEntry(s[i])

\* A key put behind the first at entries.
PutBehind(s, at, key) == SubSeq(s, 1, at) \o <<key>> \o SubSeq(s, at + 1, Len(s))

LEMMA PutBehindEntries ==
  ASSUME NEW s \in Seq(FxEntry), NEW at \in 0..Len(s), NEW key \in FxEntry
  PROVE  /\ PutBehind(s, at, key) \in Seq(FxEntry)
         /\ Len(PutBehind(s, at, key)) = Len(s) + 1
         /\ \A i \in 1..at : PutBehind(s, at, key)[i] = s[i]
         /\ PutBehind(s, at, key)[at + 1] = key
         /\ \A i \in (at + 2)..(Len(s) + 1) : PutBehind(s, at, key)[i] = s[i - 1]
<1> DEFINE a == SubSeq(s, 1, at)
           k == <<key>>
           b == SubSeq(s, at + 1, Len(s))
           ak == a \o k
<1>0. Len(s) \in Nat /\ at \in Nat
  BY LenProperties
<1>1. a \in Seq(FxEntry) /\ Len(a) = at /\ \A i \in 1..at : a[i] = s[i]
  <2>1. \A i \in 1..at : s[i] \in FxEntry
    BY <1>0, ElementOfSeq
  <2> QED BY <1>0, <2>1, SubSeqProperties
<1>2. b \in Seq(FxEntry) /\ Len(b) = Len(s) - at /\ \A i \in 1..(Len(s) - at) : b[i] = s[at + i]
  BY <1>0, SubSeqProperties, ElementOfSeq
<1>3. k \in Seq(FxEntry) /\ Len(k) = 1 /\ k[1] = key
  OBVIOUS
<1> HIDE DEF a, b, k
<1>4. /\ ak \in Seq(FxEntry) /\ Len(ak) = at + 1
      /\ \A i \in 1..at : ak[i] = s[i]
      /\ ak[at + 1] = key
  <2>1. ak \in Seq(FxEntry) /\ Len(ak) = at + 1
        /\ \A i \in 1..(at + 1) : ak[i] = IF i <= at THEN a[i] ELSE k[i - at]
    <3>1. /\ ak \in Seq(FxEntry)
          /\ Len(ak) = Len(a) + Len(k)
          /\ \A i \in 1..(Len(a) + Len(k)) : ak[i] = IF i <= Len(a) THEN a[i] ELSE k[i - Len(a)]
      BY <1>1, <1>3, ConcatProperties, Zenon
    <3> HIDE DEF ak
    <3> QED BY <1>1, <1>3, <3>1
  <2> HIDE DEF ak
  <2> QED BY <1>0, <1>1, <1>3, <2>1
<1> HIDE DEF ak
<1>5. /\ ak \o b \in Seq(FxEntry) /\ Len(ak \o b) = Len(s) + 1
      /\ \A i \in 1..(Len(s) + 1) :
           (ak \o b)[i] = IF i <= at + 1 THEN ak[i] ELSE b[i - (at + 1)]
  BY <1>0, <1>2, <1>4, ConcatProperties
<1>6. PutBehind(s, at, key) = ak \o b
  BY DEF PutBehind, ak, a, k, b
<1>7. \A i \in (at + 2)..(Len(s) + 1) : b[i - (at + 1)] = s[i - 1]
  <2> TAKE i \in (at + 2)..(Len(s) + 1)
  <2>1. i - (at + 1) \in 1..(Len(s) - at)
    BY <1>0
  <2>2. at + (i - (at + 1)) = i - 1
    BY <1>0
  <2> QED BY <1>2, <2>1, <2>2
<1> QED BY <1>0, <1>4, <1>5, <1>6, <1>7

LEMMA GreatestEntry ==
  ASSUME NEW n \in Nat, NEW S, S \subseteq 1..n, S # {}
  PROVE  \E m \in S : \A y \in S : m >= y
<1> DEFINE D == {n - x : x \in S}
<1>0. \A x \in S : n - x \in Nat
  OBVIOUS
<1>1. D \subseteq Nat /\ D # {}
  BY <1>0, Zenon
<1>2. PICK d \in D : \A y \in D : d <= y
  BY <1>1, LeastPid
<1>3. PICK m \in S : d = n - m
  BY <1>2
<1>4. \A y \in S : m >= y
  <2> TAKE y \in S
  <2>1. n - m <= n - y
    BY <1>2, <1>3
  <2> QED BY <2>1
<1> QED BY <1>4

\* fx_sort_entries puts the key behind an entry that it does not move past,
\* and before entries that it moves past.
LEMMA InsertKeepsOrder ==
  ASSUME FxFolders, NEW s, IsListing(s), NEW key, FolderEntry(key)
  PROVE  IsListing(InsertEntry(s, key))
<1> DEFINE stay == {i \in 1..Len(s) : ~MovesBehind(s[i], key)}
           at == IF stay = {} THEN 0 ELSE CHOOSE i \in stay : \A j \in stay : i >= j
           r == PutBehind(s, at, key)
           n == Len(s)
<1>0. s \in Seq(FxEntry) /\ n \in Nat /\ key \in FxEntry
  BY LenProperties DEF IsListing, FolderEntry
<1>1. InsertEntry(s, key) = r
  BY DEF InsertEntry, InsertBehind, PutBehind
<1>2. /\ at \in 0..n
      /\ at # 0 => ~MovesBehind(s[at], key)
      /\ \A i \in (at + 1)..n : MovesBehind(s[i], key)
  <2>1. CASE stay = {}
    BY <1>0, <2>1
  <2>2. CASE stay # {}
    <3>1. \E i \in stay : \A j \in stay : i >= j
      BY <1>0, <2>2, GreatestEntry
    <3>2. at \in stay /\ \A j \in stay : at >= j
      BY <2>2, <3>1
    <3> HIDE DEF at
    <3> QED BY <1>0, <3>2
  <2> QED BY <2>1, <2>2
<1> HIDE DEF at, stay
<1>3. /\ r \in Seq(FxEntry) /\ Len(r) = n + 1
      /\ \A i \in 1..at : r[i] = s[i]
      /\ r[at + 1] = key
      /\ \A i \in (at + 2)..(n + 1) : r[i] = s[i - 1]
  BY <1>0, <1>2, PutBehindEntries
<1> HIDE DEF r
<1>4. \A i \in 1..n : s[i] \in FxEntry
  BY <1>0, ElementOfSeq
<1>n. \A e \in FxEntry : Name[e.child] \in Int
  BY DEF FxFolders, FxEntry
<1>5. \A i \in 1..Len(r) : FolderEntry(r[i])
  <2> TAKE i \in 1..Len(r)
  <2>1. i \in 1..at \/ i = at + 1 \/ i \in (at + 2)..(n + 1)
    BY <1>0, <1>2, <1>3
  <2>2. \A j \in 1..n : FolderEntry(s[j])
    BY DEF IsListing
  <2>3. i \in (at + 2)..(n + 1) => i - 1 \in 1..n
    BY <1>0, <1>2
  <2>4. i \in 1..at => i \in 1..n
    BY <1>0, <1>2
  <2> QED BY <1>3, <2>1, <2>2, <2>3, <2>4
<1>6. AllKnown(r) => AllKnown(s) /\ key.type # "unknown"
  <2> SUFFICES ASSUME AllKnown(r) PROVE AllKnown(s) /\ key.type # "unknown"
    OBVIOUS
  <2>1. at + 1 \in 1..Len(r)
    BY <1>0, <1>2, <1>3
  <2>2. ASSUME NEW j \in 1..n PROVE s[j].type # "unknown"
    <3>1. CASE j <= at
      <4>1. j \in 1..at /\ j \in 1..Len(r)
        BY <1>0, <1>2, <1>3, <3>1
      <4> QED BY <1>3, <4>1 DEF AllKnown
    <3>2. CASE j > at
      <4>1. j + 1 \in (at + 2)..(n + 1) /\ j + 1 \in 1..Len(r) /\ (j + 1) - 1 = j
        BY <1>0, <1>2, <1>3, <3>2
      <4>2. r[j + 1] = s[j]
        BY <1>3, <4>1
      <4> QED BY <4>1, <4>2 DEF AllKnown
    <3> QED BY <1>0, <1>2, <3>1, <3>2
  <2> QED BY <1>3, <2>1, <2>2 DEF AllKnown
\* The entries before the key: each stands before the last of them, which the
\* key does not move past.
<1>7. ASSUME NEW i \in 1..at
      PROVE  MayPrecede(s[i], key) /\ (AllKnown(r) => SortedTypes(s[i], key))
  <2>1. i \in 1..n /\ at \in 1..n /\ at # 0
    BY <1>0, <1>2
  <2>2. s[i] \in FxEntry /\ s[at] \in FxEntry
    BY <1>4, <2>1
  <2>3. MayPrecede(s[at], key) /\ SortedTypes(s[at], key)
    BY <1>0, <1>2, <1>n, <2>1, <2>2 DEF MovesBehind, MayPrecede, SortedTypes
  <2>4. CASE i = at
    BY <2>3, <2>4
  <2>5. CASE i # at
    <3>1. i < at
      BY <1>2, <2>5
    <3>2. MayPrecede(s[i], s[at]) /\ (AllKnown(s) => SortedTypes(s[i], s[at]))
      BY <2>1, <3>1 DEF IsListing, InOrder
    <3>3. Name[s[i].child] \in Int /\ Name[s[at].child] \in Int /\ Name[key.child] \in Int
      BY <1>0, <1>n, <2>2
    <3>4. MayPrecede(s[i], key)
      BY <2>3, <3>2, <3>3 DEF MayPrecede
    <3>5. ASSUME AllKnown(r), s[i].type = key.type
          PROVE  Name[s[i].child] <= Name[key.child]
      <4>1. CASE key.type = "dir"
        BY <3>4, <4>1 DEF MayPrecede
      <4>2. CASE key.type # "dir"
        <5>1. s[at].type # "unknown" /\ key.type # "unknown" /\ AllKnown(s)
          BY <1>6, <2>1, <3>5 DEF AllKnown
        <5>2. s[at].type # "dir"
          BY <3>2, <3>5, <4>2 DEF MayPrecede
        <5>3. s[at].type = key.type
          BY <1>0, <2>2, <4>2, <5>1, <5>2 DEF FxEntry
        <5> QED BY <2>3, <3>2, <3>3, <3>5, <5>1, <5>3 DEF SortedTypes
      <4> QED BY <4>1, <4>2
    <3> QED BY <3>4, <3>5 DEF SortedTypes
  <2> QED BY <2>4, <2>5
\* The entries behind the key, which it moves past.
<1>8. ASSUME NEW j \in (at + 1)..n
      PROVE  MayPrecede(key, s[j]) /\ SortedTypes(key, s[j])
  <2>1. j \in 1..n
    BY <1>0, <1>2
  <2>2. s[j] \in FxEntry
    BY <1>4, <2>1
  <2> QED BY <1>0, <1>2, <1>n, <2>2 DEF MovesBehind, MayPrecede, SortedTypes
<1>9. InOrder(r)
  <2> SUFFICES ASSUME NEW i \in 1..Len(r), NEW j \in 1..Len(r), i < j
               PROVE  MayPrecede(r[i], r[j]) /\ (AllKnown(r) => SortedTypes(r[i], r[j]))
    BY DEF InOrder
  <2>0. i \in 1..(n + 1) /\ j \in 1..(n + 1) /\ at \in 0..n
    BY <1>2, <1>3
  <2>1. CASE j <= at
    <3>1. i \in 1..at /\ j \in 1..at /\ i \in 1..n /\ j \in 1..n
      BY <1>0, <2>0, <2>1
    <3> QED BY <1>3, <1>6, <3>1 DEF IsListing, InOrder
  <2>2. CASE j = at + 1
    <3>1. i \in 1..at
      BY <1>0, <2>0, <2>2
    <3> QED BY <1>3, <1>7, <2>2, <3>1
  <2>3. CASE j > at + 1
    <3>1. j \in (at + 2)..(n + 1) /\ j - 1 \in (at + 1)..n /\ j - 1 \in 1..n
      BY <1>0, <2>0, <2>3
    <3>2. r[j] = s[j - 1]
      BY <1>3, <3>1
    <3>3. CASE i <= at
      <4>1. i \in 1..at /\ i \in 1..n /\ i < j - 1
        BY <1>0, <2>0, <2>3, <3>3
      <4> QED BY <1>3, <1>6, <3>1, <3>2, <4>1 DEF IsListing, InOrder
    <3>4. CASE i = at + 1
      BY <1>3, <1>8, <3>1, <3>2, <3>4
    <3>5. CASE i > at + 1
      <4>1. i \in (at + 2)..(n + 1) /\ i - 1 \in 1..n /\ i - 1 < j - 1
        BY <1>0, <2>0, <3>5
      <4>2. r[i] = s[i - 1]
        BY <1>3, <4>1
      <4> QED BY <1>6, <3>1, <3>2, <4>1, <4>2 DEF IsListing, InOrder
    <3> QED BY <2>0, <3>3, <3>4, <3>5
  <2> QED BY <2>0, <2>1, <2>2, <2>3
<1> QED BY <1>1, <1>3, <1>5, <1>9 DEF IsListing

\* f holds the listings of the first children of the folder, up to n of them.
ReadsUpTo(f, path, skip, unknown, n) ==
    f = [m \in 0..n |-> IF m = 0 THEN <<>> ELSE Entered(f[m - 1], Folders[path][m], skip, unknown)]

LEMMA ReadingExists ==
  ASSUME NEW path, NEW skip, NEW unknown, NEW n \in Nat
  PROVE  \E f : ReadsUpTo(f, path, skip, unknown, n)
<1> DEFINE bad == {m \in Nat : ~\E f : ReadsUpTo(f, path, skip, unknown, m)}
<1> SUFFICES ASSUME bad # {} PROVE FALSE
  OBVIOUS
<1>1. PICK m \in bad : \A y \in bad : m <= y
  BY LeastPid
<1>2. m # 0
  <2> SUFFICES ASSUME m = 0 PROVE FALSE
    OBVIOUS
  <2> DEFINE f == [k \in 0 .. 0 |-> <<>>]
  <2>1. ReadsUpTo(f, path, skip, unknown, 0)
    BY DEF ReadsUpTo
  <2> QED BY <1>1, <2>1
<1>3. m - 1 \in Nat /\ m - 1 \notin bad
  BY <1>1, <1>2
<1>4. PICK g : ReadsUpTo(g, path, skip, unknown, m - 1)
  BY <1>3
<1> DEFINE next(s, k) == Entered(s, Folders[path][k], skip, unknown)
           f == [k \in 0..m |-> IF k = m THEN next(g[m - 1], m) ELSE g[k]]
<1>5. ASSUME NEW k \in 0..m
      PROVE  f[k] = IF k = 0 THEN <<>> ELSE next(f[k - 1], k)
  <2> HIDE DEF next
  <2>1. CASE k = m
    <3>1. f[k] = next(g[m - 1], m) /\ f[m - 1] = g[m - 1]
      BY <1>2, <1>3, <2>1
    <3> QED BY <1>2, <2>1, <3>1
  <2>2. CASE k # m /\ k = 0
    <3>1. g[0] = <<>>
      BY <1>3, <1>4 DEF ReadsUpTo
    <3> QED BY <2>2, <3>1
  <2>3. CASE k # m /\ k # 0
    <3>1. f[k] = g[k] /\ f[k - 1] = g[k - 1] /\ k \in 0..(m - 1)
      BY <1>3, <2>3
    <3>2. g[k] = next(g[k - 1], k)
      BY <1>4, <2>3, <3>1 DEF ReadsUpTo, next
    <3> QED BY <2>3, <3>1, <3>2
  <2> QED BY <2>1, <2>2, <2>3
<1>6. ReadsUpTo(f, path, skip, unknown, m)
  <2> DEFINE g2 == [k \in 0..m |-> IF k = 0 THEN <<>> ELSE next(f[k - 1], k)]
  <2>1. f = g2
    BY <1>5
  <2> HIDE DEF f
  <2> QED BY <2>1 DEF ReadsUpTo
<1> QED BY <1>1, <1>6

\* fx_load_dir makes a listing in order, whatever it cannot read.
LEMMA ListingIsOne ==
  ASSUME FxFolders, NEW path \in DOMAIN Folders, NEW skip, NEW unknown
  PROVE  IsListing(Listing(path, skip, unknown))
<1> DEFINE n == ReadCount(path)
           children == Folders[path]
           read == CHOOSE f : f = [m \in 0..n |->
                     IF m = 0 THEN <<>> ELSE Entered(f[m - 1], children[m], skip, unknown)]
<1>0. children \in Seq(DOMAIN Name) /\ n \in Nat /\ n <= Len(children)
  BY LenProperties DEF FxFolders, ReadCount
<1>1. PICK g : ReadsUpTo(g, path, skip, unknown, n)
  BY <1>0, ReadingExists
<1>2. g = [m \in 0..n |-> IF m = 0 THEN <<>> ELSE Entered(g[m - 1], children[m], skip, unknown)]
  BY <1>1 DEF ReadsUpTo
<1>3. read = [m \in 0..n |-> IF m = 0 THEN <<>> ELSE Entered(read[m - 1], children[m], skip, unknown)]
  BY <1>2
<1>4. Listing(path, skip, unknown) = read[n]
  BY DEF Listing
<1> HIDE DEF read, n
<1> DEFINE bad == {m \in 0..n : ~IsListing(read[m])}
<1>5. bad = {}
  <2> SUFFICES ASSUME bad # {} PROVE FALSE
    OBVIOUS
  <2>1. PICK m \in bad : \A y \in bad : m <= y
    <3>1. bad \subseteq Nat
      BY <1>0
    <3> QED BY <3>1, LeastPid
  <2>2. CASE m = 0
    <3>1. read[m] = <<>>
      BY <1>0, <1>3, <2>2
    <3>2. Len(read[m]) = 0 /\ read[m] \in Seq(FxEntry)
      BY <3>1
    <3>3. IsListing(read[m])
      BY <3>2 DEF IsListing, InOrder
    <3> QED BY <2>1, <3>3
  <2>3. CASE m # 0
    <3> DEFINE c == children[m]
               s == read[m - 1]
    <3>1. m \in 1..Len(children) /\ m - 1 \in 0..n /\ m \in 0..n
      BY <1>0, <2>1, <2>3
    <3>2. IsListing(s)
      BY <1>0, <2>1, <3>1
    <3>3. c \in DOMAIN Name
      BY <1>0, <3>1, ElementOfSeq
    <3>4. read[m] = Entered(s, c, skip, unknown)
      BY <1>3, <2>3, <3>1
    <3> HIDE DEF s, c
    <3>5. FolderEntry(EntryOf(c, unknown))
      BY <3>3 DEF FolderEntry, EntryOf, FxEntry, FxFolders
    <3>6. IsListing(Entered(s, c, skip, unknown))
      BY <3>2, <3>5, InsertKeepsOrder DEF Entered
    <3> QED BY <2>1, <3>4, <3>6
  <2> QED BY <2>2, <2>3
<1>6. n \in 0..n
  BY <1>0
<1> QED BY <1>4, <1>5, <1>6

(***************************************************************************)
(* The file explorer: selection and clicks.                                *)
(***************************************************************************)

FxMarks == FxEntry \cup {NoEntry}

FxApps ==
    [run : BOOLEAN, cwd : DOMAIN Folders, entries : Seq(FxEntry), selected : Int, scroll : Int,
     preview : BOOLEAN, last : Int, clicked : FxMarks, opened : FxMarks]

FullVisible == IF FullRows < 1 THEN 1 ELSE FullRows

SelectionNamesRow(a) ==
    \/ a.selected = NoRow /\ a.entries = <<>>
    \/ /\ a.selected \in 0..(EntryCount(a) - 1) /\ a.scroll \in 0..a.selected
       /\ a.selected < a.scroll + FullVisible

\* The click before was on a row of this listing, or the folder was read since.
ClickNamesEntry(a) ==
    a.clicked # NoEntry => a.last \in 0..(EntryCount(a) - 1) /\ a.clicked = Entry(a, a.last)

\* A state of fx_app between two events.
FxSteady(a) ==
    a \in FxApps /\ IsListing(a.entries) /\ SelectionNamesRow(a) /\ ClickNamesEntry(a)

\* A handler's work on fx_app.
FxKeeps(a, b) == FxSteady(b) /\ b.opened = a.opened

FxInv == FxSteady(fx)

LEMMA VisibleRowsPositive ==
  ASSUME FxFolders, NEW a
  PROVE  VisibleRows(a) \in Nat \ {0} /\ VisibleRows(a) <= FullVisible /\ FullVisible \in Nat
BY DEF VisibleRows, FullVisible, FxFolders

LEMMA CountIsNumber ==
  ASSUME NEW a \in FxApps
  PROVE  EntryCount(a) \in Nat /\ (a.entries # <<>> => EntryCount(a) > 0)
BY EmptySeq, LenProperties DEF EntryCount, FxApps

LEMMA RowIsEntry ==
  ASSUME NEW a \in FxApps, NEW row \in 0..(EntryCount(a) - 1)
  PROVE  Entry(a, row) \in FxEntry
<1>1. row + 1 \in 1..Len(a.entries)
  BY CountIsNumber DEF EntryCount
<1>2. a.entries \in Seq(FxEntry)
  BY DEF FxApps
<1> QED BY <1>1, <1>2, ElementOfSeq DEF Entry

LEMMA LoadDirSteady ==
  ASSUME FxFolders, NEW a \in FxApps, NEW path \in DOMAIN Folders, NEW skip, NEW unknown
  PROVE  FxKeeps(a, LoadDir(a, path, skip, unknown))
<1> DEFINE entries == Listing(path, skip, unknown)
           z == 0
           f == FALSE
           no == NoEntry
           sel == IF entries = <<>> THEN NoRow ELSE 0
           b == [a EXCEPT !.cwd = path, !.entries = entries, !.scroll = z, !.preview = f,
                          !.clicked = no, !.selected = sel]
<1>1. IsListing(entries) /\ entries \in Seq(FxEntry)
  BY ListingIsOne DEF IsListing
<1>2. sel \in Int /\ z \in Int /\ f \in BOOLEAN /\ no \in FxMarks
  BY DEF NoRow, FxMarks
<1>3. LoadDir(a, path, skip, unknown) = b
  BY DEF LoadDir
<1>4. entries # <<>> => Len(entries) \in Nat /\ Len(entries) > 0
  BY <1>1, EmptySeq, LenProperties
<1>5. FullVisible \in Nat /\ FullVisible > 0
  BY DEF FullVisible, FxFolders
<1> HIDE DEF entries, z, f, sel, no
<1>6. b \in FxApps /\ b.entries = entries /\ b.selected = sel /\ b.scroll = z /\ b.clicked = no
      /\ b.opened = a.opened
  BY <1>1, <1>2 DEF FxApps
<1> HIDE DEF b
<1>7. SelectionNamesRow(b)
  BY <1>4, <1>5, <1>6 DEF SelectionNamesRow, EntryCount, sel, z
<1>8. ClickNamesEntry(b)
  BY <1>6 DEF ClickNamesEntry, no
<1> QED BY <1>1, <1>3, <1>6, <1>7, <1>8 DEF FxSteady, FxKeeps

LEMMA NavigateSteady ==
  ASSUME FxFolders, NEW a, FxSteady(a), NEW path \in DOMAIN Folders, NEW there, NEW skip,
         NEW unknown
  PROVE  FxKeeps(a, Navigate(a, path, there, skip, unknown))
<1>1. CASE there
  BY <1>1, LoadDirSteady DEF Navigate, FxSteady
<1>2. CASE ~there
  BY <1>2 DEF Navigate, FxKeeps
<1> QED BY <1>1, <1>2

LEMMA FieldsSteady ==
  ASSUME NEW a, FxSteady(a), NEW b \in FxApps, b.entries = a.entries,
         b.selected = a.selected, b.scroll = a.scroll, b.clicked = a.clicked, b.last = a.last
  PROVE  FxSteady(b)
BY DEF FxSteady, SelectionNamesRow, EntryCount, ClickNamesEntry, Entry

LEMMA SelectionMadeVisible ==
  ASSUME FxFolders, NEW a \in FxApps, IsListing(a.entries), ClickNamesEntry(a),
         NEW row \in 0..(EntryCount(a) - 1), a.scroll >= 0
  PROVE  FxKeeps(a, EnsureSelectedVisible([a EXCEPT !.selected = row]))
<1> DEFINE c == [a EXCEPT !.selected = row]
           v == VisibleRows(c)
           up == IF row < a.scroll THEN row ELSE a.scroll
           down == IF row >= up + v THEN row - v + 1 ELSE up
           to == IF down < 0 THEN 0 ELSE down
           b == [c EXCEPT !.scroll = to]
<1>0. EntryCount(a) \in Nat /\ a.scroll \in Int /\ row \in Int /\ row >= 0 /\ v \in Nat \ {0}
      /\ v <= FullVisible /\ FullVisible \in Nat
  BY CountIsNumber, VisibleRowsPositive DEF FxApps
<1>1. c \in FxApps /\ c.entries = a.entries /\ c.selected = row /\ c.scroll = a.scroll
      /\ c.clicked = a.clicked /\ c.last = a.last /\ c.opened = a.opened
  BY <1>0 DEF FxApps
<1> HIDE DEF c, v
<1>2. to \in 0..row /\ to \in Int /\ row < to + FullVisible
  BY <1>0
<1>3. EnsureSelectedVisible(c) = b
  BY <1>0, <1>1 DEF EnsureSelectedVisible, v
<1> HIDE DEF to
<1>4. b \in FxApps /\ b.entries = c.entries /\ b.selected = c.selected /\ b.scroll = to
      /\ b.clicked = c.clicked /\ b.last = c.last /\ b.opened = c.opened
  BY <1>1, <1>2 DEF FxApps
<1> HIDE DEF b
<1>5. SelectionNamesRow(b)
  BY <1>1, <1>2, <1>4 DEF SelectionNamesRow, EntryCount
<1>6. ClickNamesEntry(b)
  BY <1>1, <1>4 DEF ClickNamesEntry, EntryCount, Entry
<1> QED BY <1>1, <1>3, <1>4, <1>5, <1>6 DEF FxSteady, FxKeeps, c

LEMMA SelectDeltaSteady ==
  ASSUME FxFolders, NEW a, FxSteady(a), NEW delta \in Int
  PROVE  FxKeeps(a, SelectDelta(a, delta))
<1> DEFINE last == EntryCount(a) - 1
           to == IF a.selected < 0 THEN 0 ELSE
                 IF a.selected + delta < 0 THEN 0 ELSE
                 IF a.selected + delta > last THEN last ELSE a.selected + delta
<1>1. a \in FxApps /\ EntryCount(a) \in Nat /\ a.selected \in Int /\ IsListing(a.entries)
      /\ ClickNamesEntry(a)
  BY CountIsNumber DEF FxSteady, FxApps
<1>2. CASE a.entries = <<>>
  BY <1>2 DEF SelectDelta, FxKeeps
<1>3. CASE a.entries # <<>>
  <2>1. EntryCount(a) > 0 /\ a.scroll >= 0 /\ a.selected >= 0
    BY <1>1, <1>3, CountIsNumber DEF FxSteady, SelectionNamesRow
  <2>2. to \in 0..(EntryCount(a) - 1)
    BY <1>1, <2>1
  <2>3. SelectDelta(a, delta) = EnsureSelectedVisible([a EXCEPT !.selected = to])
    BY <1>3 DEF SelectDelta
  <2> HIDE DEF to
  <2> QED BY <1>1, <2>1, <2>2, <2>3, SelectionMadeVisible
<1> QED BY <1>2, <1>3

LEMMA OpenSteady ==
  ASSUME FxFolders, NEW a, FxSteady(a), NEW there, NEW skip, NEW unknown, NEW reads \in BOOLEAN
  PROVE  FxKeeps(a, OpenSelected(a, there, skip, unknown, reads))
<1> DEFINE e == Entry(a, a.selected)
           p == TypeOf[e.child] # "elf" /\ reads
           b == [a EXCEPT !.preview = p]
<1>0. a \in FxApps
  BY DEF FxSteady
<1>1. CASE a.selected \notin 0..(EntryCount(a) - 1) \/ e.type = "unknown"
  BY <1>1 DEF OpenSelected, FxKeeps
<1>2. CASE a.selected \in 0..(EntryCount(a) - 1) /\ e.type = "dir"
  <2>1. a.selected + 1 \in 1..Len(a.entries)
    BY <1>0, <1>2, CountIsNumber DEF EntryCount
  <2>2. e.child \in DOMAIN Folders
    BY <1>2, <2>1 DEF FxSteady, IsListing, FolderEntry, Entry
  <2>3. OpenSelected(a, there, skip, unknown, reads) = Navigate(a, e.child, there, skip, unknown)
    BY <1>2 DEF OpenSelected
  <2> HIDE DEF e
  <2> QED BY <2>2, <2>3, NavigateSteady
<1>3. CASE a.selected \in 0..(EntryCount(a) - 1) /\ e.type \notin {"dir", "unknown"}
  <2>1. OpenSelected(a, there, skip, unknown, reads) = b
    BY <1>3 DEF OpenSelected
  <2>2. p \in BOOLEAN
    BY reads = TRUE \/ reads = FALSE
  <2> HIDE DEF p
  <2>3. b \in FxApps /\ b.entries = a.entries /\ b.selected = a.selected /\ b.scroll = a.scroll
        /\ b.clicked = a.clicked /\ b.last = a.last /\ b.opened = a.opened
    BY <1>0, <2>2 DEF FxApps
  <2> HIDE DEF b
  <2> QED BY <2>1, <2>3, FieldsSteady DEF FxKeeps
<1> QED BY <1>1, <1>2, <1>3

LEMMA FxStarts ==
  ASSUME FxFolders, FxInit
  PROVE  FxInv
<1> DEFINE e == <<>>
           n == NoRow
           z == 0
           none == {}
           t == TRUE
           f == FALSE
           no == NoEntry
           root == FxRoot
           a == [run |-> t, cwd |-> root, entries |-> e, selected |-> n, scroll |-> z,
                 preview |-> f, last |-> n, clicked |-> no, opened |-> no]
<1>1. PICK path \in DOMAIN Folders : fx = LoadDir(a, path, none, none)
  BY DEF FxInit, FxStart
<1>2. /\ e \in Seq(FxEntry) /\ n \in Int /\ z \in Int /\ no \in FxMarks
      /\ t \in BOOLEAN /\ f \in BOOLEAN /\ root \in DOMAIN Folders
  BY DEF NoRow, FxFolders, FxMarks
<1> HIDE DEF e, n, z, t, f, no, root, none
<1>3. a \in FxApps
  BY <1>2 DEF FxApps
<1> HIDE DEF a
<1> QED BY <1>1, <1>3, LoadDirSteady DEF FxInv, FxKeeps

\* A handler starts from fx_app with no entry opened.
LEMMA WaitingSteady ==
  ASSUME FxInv
  PROVE  /\ FxSteady(FxWaiting) /\ FxWaiting.opened = NoEntry /\ FxWaiting \in FxApps
         /\ FxWaiting.entries = fx.entries /\ FxWaiting.cwd = fx.cwd
<1> DEFINE no == NoEntry
           b == [fx EXCEPT !.opened = no]
<1>1. fx \in FxApps /\ no \in FxMarks
  BY DEF FxInv, FxSteady, FxMarks
<1>2. FxWaiting = b
  BY DEF FxWaiting
<1> HIDE DEF no
<1>3. b \in FxApps /\ b.entries = fx.entries /\ b.selected = fx.selected /\ b.scroll = fx.scroll
      /\ b.clicked = fx.clicked /\ b.last = fx.last /\ b.opened = no /\ b.cwd = fx.cwd
  BY <1>1 DEF FxApps
<1> HIDE DEF b
<1> QED BY <1>2, <1>3, FieldsSteady DEF FxInv, no

\* fx_handle_mouse_button, on a row.
LEMMA ClickKept ==
  ASSUME FxFolders, FxInv, FxClickRow
  PROVE  FxInv' /\ ClickOpensTheClicked
<1>0. FxSteady(FxWaiting) /\ FxWaiting.opened = NoEntry /\ FxWaiting \in FxApps
      /\ FxWaiting.entries = fx.entries /\ IsListing(FxWaiting.entries)
      /\ EntryCount(FxWaiting) = EntryCount(fx) /\ EntryCount(fx) \in Nat
      /\ SelectionNamesRow(FxWaiting)
  <2>1. fx \in FxApps
    BY DEF FxInv, FxSteady
  <2> QED BY <2>1, WaitingSteady, CountIsNumber DEF FxSteady, EntryCount
<1>1. PICK row \in RowsAt(fx), soon \in BOOLEAN, there \in BOOLEAN, reads \in BOOLEAN :
        \E l \in Losses(IF Entry(fx, row).type = "dir" THEN Entry(fx, row).child ELSE FxRoot) :
          LET e == Entry(fx, row)
              click == [FxWaiting EXCEPT !.last = row, !.clicked = e]
          IN  IF row = fx.selected /\ row = fx.last /\ soon
              THEN Handle(OpenSelected([click EXCEPT !.opened = e], there, l.skip, l.unknown, reads))
              ELSE Handle([EnsureSelectedVisible([click EXCEPT !.selected = row])
                             EXCEPT !.preview = FALSE])
  BY DEF FxClickRow
<1> DEFINE e == Entry(fx, row)
           f == FALSE
           click == [FxWaiting EXCEPT !.last = row, !.clicked = e]
           opening == [click EXCEPT !.opened = e]
           chosen == EnsureSelectedVisible([click EXCEPT !.selected = row])
           shut == [chosen EXCEPT !.preview = f]
<1>2. row \in 0..(EntryCount(fx) - 1) /\ row \in Int
  BY <1>0 DEF RowsAt
<1>3. e \in FxMarks /\ e = Entry(FxWaiting, row)
  <2>1. Entry(FxWaiting, row) = Entry(fx, row)
    BY <1>0 DEF Entry
  <2>2. Entry(FxWaiting, row) \in FxEntry
    BY <1>0, <1>2, RowIsEntry
  <2> QED BY <2>1, <2>2 DEF FxMarks
<1> HIDE DEF e
<1>4. click \in FxApps /\ click.entries = fx.entries /\ click.selected = FxWaiting.selected
      /\ click.scroll = FxWaiting.scroll /\ click.clicked = e /\ click.last = row
      /\ click.opened = NoEntry
  BY <1>0, <1>2, <1>3 DEF FxApps
<1> HIDE DEF click
<1>5. FxSteady(click)
  <2>1. SelectionNamesRow(click)
    BY <1>0, <1>4 DEF SelectionNamesRow, EntryCount
  <2>2. ClickNamesEntry(click)
    BY <1>0, <1>2, <1>3, <1>4 DEF ClickNamesEntry, EntryCount, Entry
  <2> QED BY <1>0, <1>4, <2>1, <2>2 DEF FxSteady
<1>6. opening \in FxApps /\ FxSteady(opening) /\ opening.opened = e
  <2>1. opening \in FxApps /\ opening.entries = click.entries
        /\ opening.selected = click.selected /\ opening.scroll = click.scroll
        /\ opening.clicked = click.clicked /\ opening.last = click.last /\ opening.opened = e
    BY <1>3, <1>4 DEF FxApps
  <2> HIDE DEF opening
  <2> QED BY <1>5, <2>1, FieldsSteady
<1> HIDE DEF opening
<1>7. FxKeeps(click, chosen)
  <2>1. click.scroll >= 0
    <3>1. EntryCount(fx) > 0 /\ fx.entries # <<>>
      BY <1>0, <1>2 DEF EntryCount
    <3> QED BY <1>0, <1>4, <3>1 DEF SelectionNamesRow, FxApps
  <2>2. row \in 0..(EntryCount(click) - 1)
    BY <1>2, <1>4 DEF EntryCount
  <2>3. ClickNamesEntry(click) /\ IsListing(click.entries)
    BY <1>5 DEF FxSteady
  <2> QED BY <1>4, <2>1, <2>2, <2>3, SelectionMadeVisible
<1> HIDE DEF chosen
<1>8. FxSteady(shut) /\ shut.opened = NoEntry
  <2>1. chosen \in FxApps /\ f \in BOOLEAN /\ FxSteady(chosen) /\ chosen.opened = NoEntry
    BY <1>4, <1>7 DEF FxSteady, FxKeeps
  <2> HIDE DEF f
  <2>2. shut \in FxApps /\ shut.entries = chosen.entries /\ shut.selected = chosen.selected
        /\ shut.scroll = chosen.scroll /\ shut.clicked = chosen.clicked
        /\ shut.last = chosen.last /\ shut.opened = chosen.opened
    BY <2>1 DEF FxApps
  <2> HIDE DEF shut
  <2> QED BY <2>1, <2>2, FieldsSteady
<1> HIDE DEF shut
<1>9. CASE row = fx.selected /\ row = fx.last /\ soon
  <2>1. PICK l \in Losses(IF Entry(fx, row).type = "dir" THEN Entry(fx, row).child ELSE FxRoot) :
          fx' = OpenSelected(opening, there, l.skip, l.unknown, reads)
    BY <1>1, <1>9 DEF Handle, e, click, opening
  <2>2. FxSteady(fx') /\ fx'.opened = e
    BY <1>6, <2>1, OpenSteady DEF FxKeeps
  <2>3. fx.clicked \in {e, NoEntry}
    BY <1>9 DEF FxInv, FxSteady, ClickNamesEntry, e
  <2> QED BY <1>2, <1>9, <2>2, <2>3 DEF FxInv, ClickOpensTheClicked, FxSteady, SelectionNamesRow,
                                     EntryCount, Entry, IsListing, ClickNamesEntry, e
<1>10. CASE ~(row = fx.selected /\ row = fx.last /\ soon)
  <2>1. fx' = shut
    BY <1>1, <1>10 DEF Handle, e, click, chosen, shut, f
  <2> QED BY <1>8, <2>1 DEF FxInv, ClickOpensTheClicked, FxSteady, SelectionNamesRow,
                            EntryCount, Entry, IsListing, ClickNamesEntry
<1> QED BY <1>9, <1>10

LEMMA FxKept ==
  ASSUME FxFolders, FxInv, FxNext
  PROVE  FxInv' /\ ClickOpensTheClicked
<1>0. FxSteady(FxWaiting) /\ FxWaiting.opened = NoEntry /\ FxWaiting \in FxApps
      /\ fx.cwd \in DOMAIN Folders
  BY WaitingSteady DEF FxInv, FxSteady, FxApps
<1>1. ASSUME NEW a, FxKeeps(FxWaiting, a), fx' = a
      PROVE  FxInv' /\ ClickOpensTheClicked
  BY <1>0, <1>1 DEF FxKeeps, FxInv, ClickOpensTheClicked, FxSteady, SelectionNamesRow,
                    EntryCount, Entry, IsListing, ClickNamesEntry
<1>2. CASE FxMove
  <2>1. PICK delta \in {-1, 1} : fx' = SelectDelta(FxWaiting, delta)
    BY <1>2 DEF FxMove, Handle
  <2>2. FxKeeps(FxWaiting, SelectDelta(FxWaiting, delta))
    BY <1>0, SelectDeltaSteady
  <2> QED BY <1>1, <2>1, <2>2
<1>3. CASE FxOpen
  <2>1. PICK l \in Losses(Target(fx)), there \in BOOLEAN, reads \in BOOLEAN :
          fx' = OpenSelected(FxWaiting, there, l.skip, l.unknown, reads)
    BY <1>3 DEF FxOpen, Handle
  <2>2. FxKeeps(FxWaiting, OpenSelected(FxWaiting, there, l.skip, l.unknown, reads))
    BY <1>0, OpenSteady
  <2> QED BY <1>1, <2>1, <2>2
<1>4. CASE FxGo
  <2>1. PICK path \in {ParentOf[fx.cwd], fx.cwd, FxRoot} \cup QuickPaths, there \in BOOLEAN :
          \E l \in Losses(path) : fx' = Navigate(FxWaiting, path, there, l.skip, l.unknown)
    BY <1>4 DEF FxGo, Handle
  <2>2. PICK l \in Losses(path) : fx' = Navigate(FxWaiting, path, there, l.skip, l.unknown)
    BY <2>1
  <2>3. path \in DOMAIN Folders
    BY <1>0 DEF FxFolders
  <2>4. FxKeeps(FxWaiting, Navigate(FxWaiting, path, there, l.skip, l.unknown))
    BY <1>0, <2>3, NavigateSteady
  <2> QED BY <1>1, <2>2, <2>4
<1>5. CASE FxClickRow
  BY <1>5, ClickKept
<1>6. CASE FxQuit
  <2> DEFINE f == FALSE
             b == [FxWaiting EXCEPT !.run = f]
  <2>1. fx' = b
    BY <1>6 DEF FxQuit, Handle
  <2>2. f \in BOOLEAN
    OBVIOUS
  <2> HIDE DEF f
  <2>3. b \in FxApps /\ b.entries = FxWaiting.entries /\ b.selected = FxWaiting.selected
        /\ b.scroll = FxWaiting.scroll /\ b.clicked = FxWaiting.clicked /\ b.last = FxWaiting.last
        /\ b.opened = FxWaiting.opened
    BY <1>0, <2>2 DEF FxApps
  <2> HIDE DEF b
  <2>4. FxKeeps(FxWaiting, b)
    BY <1>0, <2>3, FieldsSteady DEF FxKeeps
  <2> QED BY <1>1, <2>1, <2>4
<1> QED BY <1>2, <1>3, <1>4, <1>5, <1>6 DEF FxNext

LEMMA FxInvSound ==
  ASSUME FxInv
  PROVE  ListingInOrder /\ SelectionInListing
<1>0. fx \in FxApps /\ IsListing(fx.entries) /\ SelectionNamesRow(fx) /\ EntryCount(fx) \in Nat
  BY CountIsNumber DEF FxInv, FxSteady
<1>1. ListingInOrder
  <2> SUFFICES ASSUME NEW i \in 1..EntryCount(fx), NEW j \in 1..EntryCount(fx), i < j
               PROVE  /\ fx.entries[j].type = "dir" =>
                           /\ fx.entries[i].type = "dir"
                           /\ Name[fx.entries[i].child] <= Name[fx.entries[j].child]
                      /\ ((\A k \in 1..EntryCount(fx) : fx.entries[k].type # "unknown")
                           /\ fx.entries[i].type = fx.entries[j].type =>
                         Name[fx.entries[i].child] <= Name[fx.entries[j].child])
    BY DEF ListingInOrder
  <2> QED BY <1>0 DEF IsListing, InOrder, MayPrecede, SortedTypes, AllKnown, EntryCount
<1>2. SelectionInListing
  <2> DEFINE f == FALSE
             b == [fx EXCEPT !.preview = f]
  <2>1. fx.selected = NoRow => fx.entries = <<>>
    BY <1>0 DEF SelectionNamesRow, NoRow
  <2>2. fx.selected # NoRow => fx.scroll \in 0..fx.selected
                               /\ fx.selected < fx.scroll + FullVisible
    BY <1>0 DEF SelectionNamesRow
  <2>3. fx.selected = NoRow \/ fx.selected \in 0..(EntryCount(fx) - 1)
    BY <1>0 DEF SelectionNamesRow
  <2>4. VisibleRows(b) = FullVisible
    <3>1. b.preview = f
      BY <1>0 DEF FxApps
    <3> HIDE DEF b
    <3> QED BY <3>1 DEF VisibleRows, FullVisible, f
  <2> QED BY <2>1, <2>2, <2>3, <2>4 DEF SelectionInListing, b, f
<1> QED BY <1>1, <1>2

\* For any tree of folders, any window and any children that go while they are
\* read: fx_load_dir and fx_sort_entries leave the listing in order, after every
\* key and click the selection is a row of the listing within the window, and a
\* double click opens what its first click was on unless the folder was read in
\* between.
THEOREM ExplorerIsSound == FxSpec => ExplorerSound
<1> USE FxAssumption
<1>1. FxInit => FxInv
  BY FxStarts
<1>2. FxInv /\ [FxNext]_fx => FxInv' /\ [ClickOpensTheClicked]_fx
  <2> SUFFICES ASSUME FxInv, [FxNext]_fx PROVE FxInv' /\ [ClickOpensTheClicked]_fx
    OBVIOUS
  <2>1. CASE FxNext
    BY <2>1, FxKept
  <2>2. CASE UNCHANGED fx
    <3>1. fx' = fx
      BY <2>2
    <3> QED BY <3>1 DEF FxInv, FxSteady, SelectionNamesRow, EntryCount, Entry, IsListing,
                        ClickNamesEntry
  <2> QED BY <2>1, <2>2
<1>3. FxInv => ListingInOrder /\ SelectionInListing
  BY FxInvSound
<1> QED BY <1>1, <1>2, <1>3, PTL DEF FxSpec, ExplorerSound

(***************************************************************************)
(* The task manager.                                                       *)
(***************************************************************************)

TmApps ==
    [run : BOOLEAN, include_exited : BOOLEAN, rows : Seq(Tasks), selected : Int, scroll : Int,
     pid : Tasks \cup {NoTask}, shown : Tasks \cup {NoTask}]

\* The remembered process is that of the selected row, which the window shows.
PidIsRow(a) ==
    /\ a.rows = <<>> => a.selected = -1 /\ a.pid = NoTask
    /\ a.rows # <<>> =>
         /\ a.selected \in 0..(RowCount(a) - 1)
         /\ a.pid = a.rows[a.selected + 1]
         /\ TmRows > 0 => a.selected \in a.scroll..(a.scroll + TmRows - 1)

TmSteady(a) == a \in TmApps /\ PidIsRow(a)

TmInv == TmSteady(tm) /\ tm.shown = tm.pid

\* f holds the rows after the first processes of the table, up to n of them.
AddsUpTo(f, a, t, n) ==
    f = [p \in 0..n |-> IF p = 0 THEN <<>> ELSE Added(f[p - 1], p, a, t)]

LEMMA AddingExists ==
  ASSUME NEW a, NEW t, NEW n \in Nat
  PROVE  \E f : AddsUpTo(f, a, t, n)
<1> DEFINE bad == {m \in Nat : ~\E f : AddsUpTo(f, a, t, m)}
<1> SUFFICES ASSUME bad # {} PROVE FALSE
  OBVIOUS
<1>1. PICK m \in bad : \A y \in bad : m <= y
  BY LeastPid
<1>2. m # 0
  <2> SUFFICES ASSUME m = 0 PROVE FALSE
    OBVIOUS
  <2> DEFINE f == [k \in 0 .. 0 |-> <<>>]
  <2>1. AddsUpTo(f, a, t, 0)
    BY DEF AddsUpTo
  <2> QED BY <1>1, <2>1
<1>3. m - 1 \in Nat /\ m - 1 \notin bad
  BY <1>1, <1>2
<1>4. PICK g : AddsUpTo(g, a, t, m - 1)
  BY <1>3
<1> DEFINE next(s, k) == Added(s, k, a, t)
           f == [k \in 0..m |-> IF k = m THEN next(g[m - 1], m) ELSE g[k]]
<1>5. ASSUME NEW k \in 0..m
      PROVE  f[k] = IF k = 0 THEN <<>> ELSE next(f[k - 1], k)
  <2> HIDE DEF next
  <2>1. CASE k = m
    <3>1. f[k] = next(g[m - 1], m) /\ f[m - 1] = g[m - 1]
      BY <1>2, <1>3, <2>1
    <3> QED BY <1>2, <2>1, <3>1
  <2>2. CASE k # m /\ k = 0
    <3>1. g[0] = <<>>
      BY <1>3, <1>4 DEF AddsUpTo
    <3> QED BY <2>2, <3>1
  <2>3. CASE k # m /\ k # 0
    <3>1. f[k] = g[k] /\ f[k - 1] = g[k - 1] /\ k \in 0..(m - 1)
      BY <1>3, <2>3
    <3>2. g[k] = next(g[k - 1], k)
      BY <1>4, <2>3, <3>1 DEF AddsUpTo, next
    <3> QED BY <2>3, <3>1, <3>2
  <2> QED BY <2>1, <2>2, <2>3
<1>6. AddsUpTo(f, a, t, m)
  <2> DEFINE g2 == [k \in 0..m |-> IF k = 0 THEN <<>> ELSE next(f[k - 1], k)]
  <2>1. f = g2
    BY <1>5
  <2> HIDE DEF f
  <2> QED BY <2>1 DEF AddsUpTo
<1> QED BY <1>1, <1>6

LEMMA RowsAreTasks ==
  ASSUME TmSizes, NEW a, NEW t
  PROVE  ReloadedRows(a, t) \in Seq(Tasks)
<1> DEFINE rows == CHOOSE f : f = [p \in 0..MaxTask |->
                     IF p = 0 THEN <<>> ELSE Added(f[p - 1], p, a, t)]
<1>1. PICK g : AddsUpTo(g, a, t, MaxTask)
  BY AddingExists DEF TmSizes
<1>2. g = [p \in 0..MaxTask |-> IF p = 0 THEN <<>> ELSE Added(g[p - 1], p, a, t)]
  BY <1>1 DEF AddsUpTo
<1>3. rows = [p \in 0..MaxTask |-> IF p = 0 THEN <<>> ELSE Added(rows[p - 1], p, a, t)]
  BY <1>2
<1>4. ReloadedRows(a, t) = rows[MaxTask]
  BY DEF ReloadedRows
<1> HIDE DEF rows
<1> DEFINE bad == {m \in 0..MaxTask : rows[m] \notin Seq(Tasks)}
<1>5. bad = {}
  <2> SUFFICES ASSUME bad # {} PROVE FALSE
    OBVIOUS
  <2>1. PICK m \in bad : \A y \in bad : m <= y
    <3>1. bad \subseteq Nat
      OBVIOUS
    <3> QED BY <3>1, LeastPid
  <2>2. CASE m = 0
    BY <1>3, <2>1, <2>2
  <2>3. CASE m # 0
    <3>1. m - 1 \in 0..MaxTask /\ m \in 0..MaxTask /\ m \in Tasks
      BY <2>1, <2>3 DEF TmSizes, Tasks
    <3>2. rows[m - 1] \in Seq(Tasks)
      BY <2>1, <3>1
    <3>3. rows[m] = Added(rows[m - 1], m, a, t)
      BY <1>3, <2>3, <3>1
    <3>4. Append(rows[m - 1], m) \in Seq(Tasks)
      BY <3>1, <3>2, AppendProperties
    <3> QED BY <2>1, <3>2, <3>3, <3>4 DEF Added
  <2> QED BY <2>2, <2>3
<1>6. MaxTask \in 0..MaxTask
  BY DEF TmSizes
<1> QED BY <1>4, <1>5, <1>6

LEMMA RowsCounted ==
  ASSUME NEW a \in TmApps
  PROVE  RowCount(a) \in Nat /\ (a.rows # <<>> => RowCount(a) > 0)
BY EmptySeq, LenProperties DEF RowCount, TmApps

\* tm_clamp_selection brings the remembered process up to date.
LEMMA ClampedSteady ==
  ASSUME TmSizes, NEW a \in TmApps
  PROVE  TmSteady(ClampSelection(a)) /\ ClampSelection(a).shown = a.shown
<1> DEFINE n == RowCount(a)
           r == TmRows
           sel == IF a.selected \in 0..(n - 1) THEN a.selected ELSE 0
           max == IF n > r THEN n - r ELSE 0
           low == Clampi(a.scroll, 0, max)
           up == IF sel < low THEN sel ELSE low
           down == IF sel >= up + r THEN sel - r + 1 ELSE up
           to == IF r <= 0 THEN 0 ELSE down
           p == a.rows[sel + 1]
<1>1. n \in Nat /\ r \in Int /\ a.selected \in Int /\ a.scroll \in Int /\ a.rows \in Seq(Tasks)
  BY RowsCounted DEF TmApps, TmSizes
<1>2. CASE a.rows = <<>>
  <2> DEFINE m == -1
             z == 0
             none == NoTask
             b == [a EXCEPT !.selected = m, !.pid = none, !.scroll = z]
  <2>1. ClampSelection(a) = b
    BY <1>2 DEF ClampSelection
  <2>2. m \in Int /\ z \in Int /\ none \in Tasks \cup {NoTask}
    OBVIOUS
  <2> HIDE DEF m, z, none
  <2>3. b \in TmApps /\ b.rows = a.rows /\ b.selected = m /\ b.pid = none /\ b.shown = a.shown
    BY <2>2 DEF TmApps
  <2> HIDE DEF b
  <2>4. PidIsRow(b)
    BY <1>2, <2>3 DEF PidIsRow, m, none
  <2> QED BY <2>1, <2>3, <2>4 DEF TmSteady
<1>3. CASE a.rows # <<>>
  <2> DEFINE b == [a EXCEPT !.selected = sel, !.pid = p, !.scroll = to]
  <2>1. ClampSelection(a) = b
    BY <1>3 DEF ClampSelection
  <2>2. n > 0
    BY <1>3, RowsCounted
  <2>3. sel \in 0..(n - 1) /\ sel \in Int
    BY <1>1, <2>2
  <2>4. low \in Int
    BY <1>1 DEF Clampi
  <2> HIDE DEF low
  <2>5. to \in Int /\ (r > 0 => sel \in to..(to + r - 1))
    BY <1>1, <2>3, <2>4
  <2>6. p \in Tasks
    <3>1. sel + 1 \in 1..Len(a.rows)
      BY <1>1, <2>3 DEF RowCount
    <3> QED BY <1>1, <3>1, ElementOfSeq
  <2> HIDE DEF to, sel, p
  <2>7. b \in TmApps /\ b.rows = a.rows /\ b.selected = sel /\ b.pid = p /\ b.scroll = to
        /\ b.shown = a.shown
    BY <2>3, <2>5, <2>6 DEF TmApps
  <2> HIDE DEF b
  <2>8. RowCount(b) = n
    BY <2>7 DEF RowCount
  <2> HIDE DEF n
  <2>9. PidIsRow(b)
    BY <1>3, <2>3, <2>5, <2>7, <2>8 DEF PidIsRow, p
  <2> QED BY <2>1, <2>7, <2>9 DEF TmSteady
<1> QED BY <1>2, <1>3

LEMMA ReloadSteady ==
  ASSUME TmSizes, NEW a \in TmApps, NEW t
  PROVE  TmSteady(ReloadFrom(a, t))
<1> DEFINE rows == ReloadedRows(a, t)
           same == {i \in 1..Len(rows) : rows[i] = a.pid}
           sel == IF same # {} THEN (CHOOSE i \in same : TRUE) - 1 ELSE IF rows = <<>> THEN -1 ELSE 0
           b == [a EXCEPT !.rows = rows, !.selected = sel]
<1>1. rows \in Seq(Tasks)
  BY RowsAreTasks
<1>2. sel \in Int
  <2>1. \A i \in same : i \in Int
    BY <1>1, LenProperties
  <2> HIDE DEF same
  <2> QED BY <2>1
<1>3. ReloadFrom(a, t) = ClampSelection(b)
  BY DEF ReloadFrom
<1> HIDE DEF rows, sel
<1>4. b \in TmApps
  BY <1>1, <1>2 DEF TmApps
<1> QED BY <1>3, <1>4, ClampedSteady

\* tm_render marks the row of the remembered process.
LEMMA RenderedSteady ==
  ASSUME NEW a, TmSteady(a)
  PROVE  TmSteady(Rendered(a)) /\ Rendered(a).shown = Rendered(a).pid
<1> DEFINE p == a.pid
           b == [a EXCEPT !.shown = p]
<1>1. a \in TmApps /\ p \in Tasks \cup {NoTask}
  BY DEF TmSteady, TmApps
<1>2. Rendered(a) = b
  BY DEF Rendered
<1> HIDE DEF p
<1>3. b \in TmApps /\ b.rows = a.rows /\ b.selected = a.selected /\ b.scroll = a.scroll
      /\ b.pid = a.pid /\ b.shown = p
  BY <1>1 DEF TmApps
<1> HIDE DEF b
<1>4. PidIsRow(b)
  BY <1>3 DEF TmSteady, PidIsRow, RowCount
<1> QED BY <1>2, <1>3, <1>4 DEF TmSteady, p

LEMMA SelectSteady ==
  ASSUME TmSizes, NEW a, TmSteady(a), NEW row \in Int
  PROVE  TmSteady(SelectRow(a, row))
<1> DEFINE to == Clampi(row, 0, RowCount(a) - 1)
           b == [a EXCEPT !.selected = to]
<1>1. a \in TmApps /\ RowCount(a) \in Nat
  BY RowsCounted DEF TmSteady
<1>2. CASE a.rows = <<>>
  <2> DEFINE m == -1
             none == NoTask
             c == [a EXCEPT !.selected = m, !.pid = none]
  <2>1. SelectRow(a, row) = c
    BY <1>2 DEF SelectRow
  <2>2. a.selected = m /\ a.pid = none
    BY <1>2 DEF TmSteady, PidIsRow
  <2> HIDE DEF m, none
  <2>3. c = a
    BY <1>1, <2>2 DEF TmApps
  <2> QED BY <2>1, <2>3
<1>3. CASE a.rows # <<>>
  <2>1. SelectRow(a, row) = ClampSelection(b)
    BY <1>3 DEF SelectRow
  <2>2. to \in Int
    BY <1>1 DEF Clampi
  <2> HIDE DEF to
  <2>3. b \in TmApps
    BY <1>1, <2>2 DEF TmApps
  <2> QED BY <2>1, <2>3, ClampedSteady
<1> QED BY <1>2, <1>3

LEMMA RefreshedSteady ==
  ASSUME TmSizes, NEW a \in TmApps
  PROVE  TmSteady(Refreshed(a)) /\ Refreshed(a).shown = Refreshed(a).pid
<1>1. TmSteady(Reload(a))
  BY ReloadSteady DEF Reload
<1> QED BY <1>1, RenderedSteady DEF Refreshed

LEMMA TmStarts == ASSUME TmSizes PROVE TmInit => TmInv
<1> SUFFICES ASSUME TmInit PROVE TmInv
  OBVIOUS
<1>1. TmStart \in TmApps
  <2>1. <<>> \in Seq(Tasks)
    OBVIOUS
  <2> QED BY <2>1 DEF TmStart, TmApps
<1>2. tm = Refreshed(TmStart)
  BY DEF TmInit
<1> QED BY <1>1, <1>2, RefreshedSteady DEF TmInv

LEMMA MoveSteady ==
  ASSUME TmSizes, NEW a, TmSteady(a), NEW d \in Int
  PROVE  TmSteady(MoveSelection(a, d))
<1>1. a.selected + d \in Int
  BY DEF TmSteady, TmApps
<1>2. CASE a.rows = <<>>
  BY <1>2 DEF MoveSelection
<1>3. CASE a.rows # <<>>
  <2>1. MoveSelection(a, d) = SelectRow(a, a.selected + d)
    BY <1>3 DEF MoveSelection
  <2> QED BY <1>1, <2>1, SelectSteady
<1> QED BY <1>2, <1>3

LEMMA TmKept ==
  ASSUME TmSizes, TmInv, [TmNext]_tmVars
  PROVE  TmInv' /\ (ended' # ended => ended' = tm.shown /\ ended' # Self)
<1>1. tm \in TmApps /\ TmSteady(tm) /\ tm.shown = tm.pid
  BY DEF TmInv, TmSteady
<1>2. ASSUME NEW a, tm' = a, TmSteady(a), a.shown = a.pid
      PROVE  TmInv'
  BY <1>2 DEF TmInv
<1>3. CASE TmTimer
  <2>1. tm' = Refreshed(tm) /\ ended' = ended
    BY <1>3 DEF TmTimer
  <2> QED BY <1>1, <1>2, <2>1, RefreshedSteady
<1>4. CASE TmToggleExited
  <2> DEFINE all == ~tm.include_exited
             b == [tm EXCEPT !.include_exited = all]
  <2>1. tm' = Refreshed(b) /\ ended' = ended
    BY <1>4 DEF TmToggleExited
  <2>2. all \in BOOLEAN
    OBVIOUS
  <2> HIDE DEF all
  <2>3. b \in TmApps
    BY <1>1, <2>2 DEF TmApps
  <2> HIDE DEF b
  <2> QED BY <1>2, <2>1, <2>3, RefreshedSteady
<1>5. CASE TmMove
  <2>1. PICK d \in {-1, 1, -TmRows, TmRows} : tm' = Rendered(MoveSelection(tm, d))
    BY <1>5 DEF TmMove
  <2>2. ended' = ended
    BY <1>5 DEF TmMove
  <2>3. d \in Int
    BY DEF TmSizes
  <2>4. TmSteady(MoveSelection(tm, d))
    BY <1>1, <2>3, MoveSteady
  <2> QED BY <1>2, <2>1, <2>2, <2>4, RenderedSteady
<1>6. CASE TmClickRow
  <2>1. PICK i \in 0..(TmRows - 1) : tm' = Rendered(SelectRow(tm, tm.scroll + i))
    BY <1>6 DEF TmClickRow
  <2>2. ended' = ended
    BY <1>6 DEF TmClickRow
  <2>3. tm.scroll + i \in Int
    BY <1>1 DEF TmApps
  <2>4. TmSteady(SelectRow(tm, tm.scroll + i))
    BY <1>1, <2>3, SelectSteady
  <2> QED BY <1>2, <2>1, <2>2, <2>4, RenderedSteady
<1>7. CASE TmKill
  <2> DEFINE target == IF tm.selected \in 0..(RowCount(tm) - 1)
                       THEN tm.rows[tm.selected + 1] ELSE NoTask
             sent == target \notin {NoTask, Self} /\ tasks[target] = "running"
  <2>1. /\ ended' = IF sent THEN target ELSE ended
        /\ tm' = IF sent THEN Rendered(ReloadFrom(tm, tasks')) ELSE Rendered(tm)
    BY <1>7 DEF TmKill
  <2>2. CASE sent
    <3>1. target # NoTask /\ target # Self
      BY <2>2
    <3>2. tm.selected \in 0..(RowCount(tm) - 1) /\ target = tm.rows[tm.selected + 1]
      BY <3>1
    <3>3. tm.rows # <<>>
      BY <3>2 DEF RowCount
    <3>4. target = tm.shown
      BY <1>1, <3>2, <3>3 DEF TmSteady, PidIsRow
    <3>5. ended' = target /\ tm' = Rendered(ReloadFrom(tm, tasks'))
      BY <2>1, <2>2
    <3> HIDE DEF target
    <3>6. TmSteady(ReloadFrom(tm, tasks'))
      BY <1>1, ReloadSteady
    <3>7. TmInv'
      BY <1>2, <3>5, <3>6, RenderedSteady
    <3> QED BY <3>1, <3>4, <3>5, <3>7
  <2>3. CASE ~sent
    <3>1. ended' = ended /\ tm' = Rendered(tm)
      BY <2>1, <2>3
    <3>2. TmInv'
      BY <1>1, <1>2, <3>1, RenderedSteady
    <3> QED BY <3>1, <3>2
  <2> QED BY <2>2, <2>3
<1>8. CASE TmQuit
  <2> DEFINE off == FALSE
             b == [tm EXCEPT !.run = off]
  <2>1. tm' = b /\ ended' = ended
    BY <1>8 DEF TmQuit
  <2>2. off \in BOOLEAN
    OBVIOUS
  <2> HIDE DEF off
  <2>3. b \in TmApps /\ b.rows = tm.rows /\ b.selected = tm.selected /\ b.scroll = tm.scroll
        /\ b.pid = tm.pid /\ b.shown = tm.shown
    BY <1>1, <2>2 DEF TmApps
  <2> HIDE DEF b
  <2>4. PidIsRow(b)
    BY <1>1, <2>3 DEF TmSteady, PidIsRow, RowCount
  <2> QED BY <1>1, <1>2, <2>1, <2>3, <2>4 DEF TmSteady
<1>9. CASE \E p \in Tasks : TaskChanges(p)
  <2>1. tm' = tm /\ ended' = ended
    BY <1>9 DEF TaskChanges
  <2> QED BY <1>1, <1>2, <2>1
<1>10. CASE UNCHANGED tmVars
  <2>1. tm' = tm /\ ended' = ended
    BY <1>10 DEF tmVars
  <2> QED BY <1>1, <1>2, <2>1
<1> QED BY <1>3, <1>4, <1>5, <1>6, <1>7, <1>8, <1>9, <1>10 DEF TmNext

LEMMA TmInvShows == TmInv => TmSelectionIsShown
BY DEF TmInv, TmSteady, PidIsRow, TmSelectionIsShown

\* End task reaches only the process whose row was marked when the user asked,
\* never the task manager, and the selection stays on a row the window shows.
THEOREM TaskManagerIsRight == TmSpec => [][TmEndsTheMarkedTask]_tmVars /\ []TmSelectionIsShown
<1> USE TmAssumption
<1>1. TmInit => TmInv
  BY TmStarts
<1>2. TmInv /\ [TmNext]_tmVars => TmInv' /\ TmEndsTheMarkedTask
  BY TmKept DEF TmEndsTheMarkedTask
<1> QED BY <1>1, <1>2, TmInvShows, PTL DEF TmSpec

(***************************************************************************)
(* Job control.  fg looks at the table when it picks and again when it      *)
(* continues the job; between the two every process goes on.  The invariant *)
(* says what such steps leave of the picked job: it is still the same        *)
(* user's process on the same terminal.                                     *)
(***************************************************************************)

JobEntry ==
    [state : {"unused", "reaped", "exited"} \cup Live, tty : JobTtys \cup {1},
     user : BOOLEAN, tool : BOOLEAN]

\* The process that fg picked.
PickedIsUsers(t, f) ==
    f.pc = "look" /\ f.picked =>
      f.target \in JobPids /\ t[f.target].user /\ t[f.target].tty = 1 /\ t[f.target].state # "unused"

FgState == [pid : Int, pc : {"none", "pick", "look", "wait"}, target : Int, picked : BOOLEAN]

JobInv ==
    /\ jobTable \in [JobPids -> JobEntry]
    /\ jobFg \in FgState
    /\ PickedIsUsers(jobTable, jobFg)

\* The greatest number of a set of process numbers, and 0 without any.
LEMMA GreatestPid ==
  ASSUME JobSizes, NEW S, S \subseteq JobPids
  PROVE  /\ Max({0} \cup S) \in {0} \cup S
         /\ \A y \in {0} \cup S : Max({0} \cup S) >= y
<1> DEFINE U == {0} \cup S
<1>1. \E m \in U : \A y \in U : m >= y
  <2>1. CASE S = {}
    BY <2>1
  <2>2. CASE S # {}
    <3>1. PICK m \in S : \A y \in S : m >= y
      <4>1. S \subseteq 1..JobMax
        BY DEF JobPids
      <4> QED BY <2>2, <4>1, GreatestEntry DEF JobSizes
    <3>2. m >= 0
      BY DEF JobPids
    <3> QED BY <3>1, <3>2
  <2> QED BY <2>1, <2>2
<1>2. Max(U) = CHOOSE x \in U : \A y \in U : x >= y
  BY DEF Max
<1> HIDE DEF U
<1>3. Max(U) \in U /\ \A y \in U : Max(U) >= y
  BY <1>1, <1>2
<1> QED BY <1>3 DEF U

\* spawn_pathv gives a number that no process has.
LEMMA NextPidIsFree ==
  ASSUME JobSizes, NextPid \in JobPids
  PROVE  jobTable[NextPid].state = "unused"
<1> DEFINE S == {p \in JobPids : jobTable[p].state # "unused"}
<1>1. NextPid = 1 + Max({0} \cup S)
  BY DEF NextPid
<1>2. /\ Max({0} \cup S) \in {0} \cup S
      /\ \A y \in {0} \cup S : Max({0} \cup S) >= y
  <2>1. S \subseteq JobPids
    OBVIOUS
  <2> HIDE DEF S
  <2> QED BY <2>1, GreatestPid
<1>3. Max({0} \cup S) \in Int
  BY <1>2 DEF JobPids
<1>4. NextPid \notin S
  <2> HIDE DEF S
  <2> SUFFICES ASSUME NextPid \in S PROVE FALSE
    OBVIOUS
  <2>1. Max({0} \cup S) >= NextPid
    BY <1>2
  <2> QED BY <1>1, <1>3, <2>1
<1> QED BY <1>4

\* One entry changes in its state only, and not to a free one: what fg picked
\* stays what it was.
LEMMA EntryMoves ==
  ASSUME NEW t \in [JobPids -> JobEntry], NEW f, PickedIsUsers(t, f), NEW p \in JobPids,
         NEW e \in JobEntry,
         e.user = t[p].user, e.tty = t[p].tty, t[p].state # "unused" => e.state # "unused"
  PROVE  [t EXCEPT ![p] = e] \in [JobPids -> JobEntry] /\ PickedIsUsers([t EXCEPT ![p] = e], f)
BY DEF PickedIsUsers

\* A free entry is taken.
LEMMA EntryTaken ==
  ASSUME NEW t \in [JobPids -> JobEntry], NEW f, PickedIsUsers(t, f), NEW p \in JobPids,
         NEW e \in JobEntry, t[p].state = "unused"
  PROVE  [t EXCEPT ![p] = e] \in [JobPids -> JobEntry] /\ PickedIsUsers([t EXCEPT ![p] = e], f)
BY DEF PickedIsUsers

LEMMA StateSet ==
  ASSUME NEW e \in JobEntry, NEW s \in {"reaped", "exited"} \cup Live
  PROVE  /\ [e EXCEPT !.state = s] \in JobEntry
         /\ [e EXCEPT !.state = s].user = e.user /\ [e EXCEPT !.state = s].tty = e.tty
         /\ [e EXCEPT !.state = s].state = s /\ s # "unused"
BY DEF JobEntry, Live

LEMMA StateSetAt ==
  ASSUME NEW t \in [JobPids -> JobEntry], NEW f, PickedIsUsers(t, f), NEW p \in JobPids,
         NEW s \in {"reaped", "exited"} \cup Live
  PROVE  /\ [t EXCEPT ![p].state = s] \in [JobPids -> JobEntry]
         /\ PickedIsUsers([t EXCEPT ![p].state = s], f)
<1> DEFINE e == [t[p] EXCEPT !.state = s]
<1>1. e \in JobEntry /\ e.user = t[p].user /\ e.tty = t[p].tty /\ e.state # "unused"
  BY StateSet
<1>2. [t EXCEPT ![p].state = s] = [t EXCEPT ![p] = e]
  OBVIOUS
<1> HIDE DEF e
<1> QED BY <1>1, <1>2, EntryMoves

\* proc_kill.
LEMMA KilledEntry ==
  ASSUME NEW e \in JobEntry, NEW g
  PROVE  /\ proc_kill(e, g)[2] \in JobEntry
         /\ proc_kill(e, g)[2].user = e.user /\ proc_kill(e, g)[2].tty = e.tty
         /\ e.state # "unused" => proc_kill(e, g)[2].state # "unused"
<1> DEFINE stopped == "stopped"  exited == "exited"  pending == "pending"
           a == [e EXCEPT !.state = stopped]
           b == [e EXCEPT !.state = exited]
           c == [e EXCEPT !.state = pending]
<1>1. stopped \in Live /\ exited \in {"reaped", "exited"} /\ pending \in Live
  BY DEF Live
<1>2. proc_kill(e, g)[2] \in {e, a, b, c}
  BY DEF proc_kill
<1> HIDE DEF stopped, exited, pending
<1>3. a \in JobEntry /\ a.user = e.user /\ a.tty = e.tty /\ a.state # "unused"
  BY <1>1, StateSet
<1>4. b \in JobEntry /\ b.user = e.user /\ b.tty = e.tty /\ b.state # "unused"
  BY <1>1, StateSet
<1>5. c \in JobEntry /\ c.user = e.user /\ c.tty = e.tty /\ c.state # "unused"
  BY <1>1, StateSet
<1> QED BY <1>2, <1>3, <1>4, <1>5

LEMMA StartedEntry ==
  ASSUME NEW shown_tty \in JobTtys \cup {1}, NEW user \in BOOLEAN, NEW tool \in BOOLEAN
  PROVE  Started(shown_tty, user, tool) \in JobEntry
BY DEF Started, JobEntry, Live

LEMMA JobStarts == ASSUME JobSizes PROVE JobInit => JobInv
<1> SUFFICES ASSUME JobInit PROVE JobInv
  OBVIOUS
<1> DEFINE pending == "pending"
           first == [Started(1, TRUE, TRUE) EXCEPT !.state = pending]
<1>1. jobTable = [p \in JobPids |-> IF p = 1 THEN first ELSE Free]
  BY DEF JobInit
<1>2. first \in JobEntry
  <2>1. pending \in Live /\ Started(1, TRUE, TRUE) \in JobEntry
    BY StartedEntry DEF Live
  <2> HIDE DEF pending
  <2> QED BY <2>1, StateSet
<1>3. Free \in JobEntry
  BY DEF Free, JobEntry
<1> HIDE DEF first
<1>4. jobTable \in [JobPids -> JobEntry]
  BY <1>1, <1>2, <1>3
<1>5. jobFg \in FgState /\ jobFg.pc = "none"
  <2>1. jobFg = NoFg
    BY DEF JobInit
  <2> QED BY <2>1 DEF NoFg, FgState
<1> QED BY <1>4, <1>5 DEF JobInv, PickedIsUsers

\* fg ends: nothing is picked.
LEMMA FgEnds ==
  ASSUME JobInv, NEW what, FgEnd(what)
  PROVE  JobInv' /\ jobFg'.pc = "none"
<1> DEFINE gone == "reaped"
<1>1. jobTable \in [JobPids -> JobEntry] /\ gone \in {"reaped", "exited"}
  BY DEF JobInv
<1>2. jobTable' = [jobTable EXCEPT ![jobFg.pid].state = gone] /\ jobFg' = NoFg
  BY DEF FgEnd
<1> HIDE DEF gone
<1>3. jobTable' \in [JobPids -> JobEntry]
  <2>1. CASE jobFg.pid \in JobPids
    <3>1. PickedIsUsers(jobTable, jobFg)
      BY DEF JobInv
    <3> QED BY <1>1, <1>2, <2>1, <3>1, StateSetAt
  <2>2. CASE jobFg.pid \notin JobPids
    BY <1>1, <1>2, <2>2
  <2> QED BY <2>1, <2>2
<1>4. jobFg' \in FgState /\ jobFg'.pc = "none"
  BY <1>2 DEF NoFg, FgState
<1> QED BY <1>3, <1>4 DEF JobInv, PickedIsUsers

\* fg takes what jobs lists: the live user processes of the shown terminal.
LEMMA PickIsListed ==
  ASSUME JobInv
  PROVE  ush_fg_pick_latest_job(jobTable) = LastListed(FALSE)
<1>1. jobTable \in [JobPids -> JobEntry]
  BY DEF JobInv
<1>2. ASSUME NEW p \in JobPids
      PROVE  (jobTable[p].tty = 1 /\ jobTable[p].user /\ jobTable[p].state \in Live)
             <=> JobShown(p, FALSE)
  <2>1. jobTable[p] \in JobEntry
    BY <1>1
  <2>2. jobTable[p].state \in Live
        <=> jobTable[p].state \notin {"unused", "reaped"} /\ jobTable[p].state # "exited"
    BY <2>1 DEF JobEntry, Live
  <2> QED BY <2>2 DEF JobShown
<1>3. {p \in JobPids : jobTable[p].tty = 1 /\ jobTable[p].user /\ jobTable[p].state \in Live}
      = {p \in JobPids : JobShown(p, FALSE)}
  BY <1>2, Zenon
<1> QED BY <1>3 DEF ush_fg_pick_latest_job, LastListed

LEMMA FgPickKept ==
  ASSUME JobSizes, JobInv, FgPick
  PROVE  JobInv' /\ FgTakesListedJob
<1> DEFINE p == ush_fg_pick_latest_job(jobTable)
<1>1. jobFg.pc = "pick" /\ jobFg \in FgState /\ jobTable \in [JobPids -> JobEntry]
  BY DEF FgPick, JobInv
<1>2. CASE p = 0
  <2>1. FgEnd("no job")
    BY <1>2 DEF FgPick
  <2>2. JobInv' /\ jobFg'.pc = "none"
    BY <2>1, FgEnds
  <2> QED BY <1>1, <2>2 DEF FgTakesListedJob
<1>3. CASE p # 0
  <2> DEFINE look == "look"
             g == [jobFg EXCEPT !.pc = look, !.target = p]
             S == {q \in JobPids : jobTable[q].tty = 1 /\ jobTable[q].user /\ jobTable[q].state \in Live}
  <2>1. jobFg' = g /\ jobTable' = jobTable
    BY <1>3 DEF FgPick
  <2>2. p \in {0} \cup S
    <3>1. p = Max({0} \cup S)
      BY DEF ush_fg_pick_latest_job
    <3>2. S \subseteq JobPids
      OBVIOUS
    <3> HIDE DEF S, p
    <3> QED BY <3>1, <3>2, GreatestPid
  <2>3. p \in JobPids /\ jobTable[p].tty = 1 /\ jobTable[p].user /\ jobTable[p].state # "unused"
    BY <1>3, <2>2 DEF Live
  <2>4. p = LastListed(FALSE)
    BY PickIsListed
  <2>5. look \in {"none", "pick", "look", "wait"} /\ p \in Int
    BY <2>3 DEF JobPids
  <2> HIDE DEF look, p
  <2>6. g \in FgState /\ g.target = p /\ g.pc = look
    BY <1>1, <2>5 DEF FgState
  <2> HIDE DEF g
  <2>7. PickedIsUsers(jobTable, g)
    BY <2>3, <2>6 DEF PickedIsUsers
  <2>8. JobInv'
    BY <1>1, <2>1, <2>6, <2>7 DEF JobInv
  <2> QED BY <1>1, <2>1, <2>4, <2>6, <2>8 DEF FgTakesListedJob
<1> QED BY <1>2, <1>3

LEMMA FgLookKept ==
  ASSUME JobSizes, JobInv, FgLook
  PROVE  JobInv' /\ FgTakesListedJob
<1> DEFINE t == jobTable[jobFg.target]
           r == proc_kill(t, "CONT")
<1>1. jobFg.pc = "look" /\ jobFg \in FgState /\ jobTable \in [JobPids -> JobEntry]
      /\ PickedIsUsers(jobTable, jobFg)
  BY DEF FgLook, JobInv
<1>2. FgTakesListedJob
  BY <1>1 DEF FgTakesListedJob, PickedIsUsers
<1>3. CASE t.state \in {"unused", "reaped"} \/ ~(t.state # "stopped" \/ r[1] = "sent")
  <2>1. FgEnd("missing") \/ FgEnd("refused")
    BY <1>3 DEF FgLook
  <2> QED BY <1>2, <2>1, FgEnds
<1>4. CASE ~(t.state \in {"unused", "reaped"} \/ ~(t.state # "stopped" \/ r[1] = "sent"))
  <2> DEFINE wait == "wait"
             e == IF t.state = "stopped" THEN r[2] ELSE t
             g == [jobFg EXCEPT !.pc = wait]
  <2>1. jobTable' = [jobTable EXCEPT ![jobFg.target] = e] /\ jobFg' = g
    BY <1>4 DEF FgLook
  <2>2. wait \in {"none", "pick", "look", "wait"} /\ wait # "look"
    OBVIOUS
  <2> HIDE DEF wait
  <2>3. g \in FgState /\ g.pc # "look"
    BY <1>1, <2>2 DEF FgState
  <2> HIDE DEF g
  <2>4. jobTable' \in [JobPids -> JobEntry]
    <3>1. CASE jobFg.target \in JobPids
      <4>1. t \in JobEntry
        BY <1>1, <3>1
      <4>2. e \in JobEntry
        BY <4>1, KilledEntry
      <4> HIDE DEF e
      <4> QED BY <1>1, <2>1, <3>1, <4>2
    <3>2. CASE jobFg.target \notin JobPids
      BY <1>1, <2>1, <3>2
    <3> QED BY <3>1, <3>2
  <2>5. JobInv'
    BY <2>1, <2>3, <2>4 DEF JobInv, PickedIsUsers
  <2> QED BY <1>2, <2>5
<1> QED BY <1>3, <1>4

\* The processes of the table go on while fg is anywhere.
LEMMA OthersKept ==
  ASSUME JobSizes, JobInv, jobFg' = jobFg,
         jobTable' \in [JobPids -> JobEntry], PickedIsUsers(jobTable', jobFg)
  PROVE  JobInv' /\ FgTakesListedJob
<1>1. JobInv'
  BY DEF JobInv
<1>2. FgTakesListedJob
  BY DEF FgTakesListedJob
<1> QED BY <1>1, <1>2

LEMMA JobKept ==
  ASSUME JobSizes, JobInv, [JobNext]_jobVars
  PROVE  JobInv' /\ FgTakesListedJob
<1>1. jobTable \in [JobPids -> JobEntry] /\ jobFg \in FgState /\ PickedIsUsers(jobTable, jobFg)
  BY DEF JobInv
<1>2. ASSUME NEW p \in JobPids, NEW s \in {"reaped", "exited"} \cup Live,
             jobFg' = jobFg, jobTable' = [jobTable EXCEPT ![p].state = s]
      PROVE  JobInv' /\ FgTakesListedJob
  BY <1>1, <1>2, StateSetAt, OthersKept
<1>3. ASSUME NEW p \in JobPids, NEW e \in JobEntry, jobTable[p].state = "unused",
             jobTable' = [jobTable EXCEPT ![p] = e]
      PROVE  jobTable' \in [JobPids -> JobEntry] /\ PickedIsUsers(jobTable', jobFg)
  BY <1>1, <1>3, EntryTaken
<1>4. ASSUME NEW p \in JobPids, NEW g, NEW done, Signal(p, g, done)
      PROVE  JobInv' /\ FgTakesListedJob
  <2> DEFINE e == proc_kill(jobTable[p], g)[2]
  <2>1. jobTable' = [jobTable EXCEPT ![p] = e] /\ jobFg' = jobFg
    BY <1>4 DEF Signal
  <2>2. jobTable[p] \in JobEntry
    BY <1>1
  <2>3. e \in JobEntry /\ e.user = jobTable[p].user /\ e.tty = jobTable[p].tty
        /\ (jobTable[p].state # "unused" => e.state # "unused")
    BY <2>2, KilledEntry
  <2> HIDE DEF e
  <2>4. jobTable' \in [JobPids -> JobEntry] /\ PickedIsUsers(jobTable', jobFg)
    BY <1>1, <2>1, <2>3, EntryMoves
  <2> QED BY <2>1, <2>4, OthersKept
<1>5. ASSUME UNCHANGED <<jobTable, jobFg>>
      PROVE  JobInv' /\ FgTakesListedJob
  BY <1>1, <1>5, OthersKept
<1>6. ASSUME NEW p \in JobPids, Schedule(p) PROVE JobInv' /\ FgTakesListedJob
  <2>1. jobFg' = jobFg
    BY <1>6 DEF Schedule
  <2>2. PICK s \in {"reaped", "exited"} \cup Live : jobTable' = [jobTable EXCEPT ![p].state = s]
    BY <1>6 DEF Schedule, Live
  <2> QED BY <1>2, <2>1, <2>2
<1>7. ASSUME NEW p \in JobPids, ush_bg_resume_pid(p) PROVE JobInv' /\ FgTakesListedJob
  BY <1>4, <1>7 DEF ush_bg_resume_pid
<1>8. ASSUME NEW p \in JobPids, ush_cmd_wait(p) PROVE JobInv' /\ FgTakesListedJob
  BY <1>5, <1>8 DEF ush_cmd_wait
<1>9. ASSUME NEW p \in JobPids, NEW s \in {"TERM", "STOP", "CONT"}, ush_cmd_kill(p, s)
      PROVE  JobInv' /\ FgTakesListedJob
  BY <1>4, <1>9 DEF ush_cmd_kill
<1>10. ASSUME NEW t \in JobTtys, ush_cmd_spawn(t, TRUE) PROVE JobInv' /\ FgTakesListedJob
  <2> DEFINE e == Started(t, TRUE, FALSE)
  <2>1. NextPid \in JobPids /\ jobTable' = [jobTable EXCEPT ![NextPid] = e] /\ jobFg' = jobFg
    BY <1>10 DEF ush_cmd_spawn
  <2>2. e \in JobEntry
    BY StartedEntry
  <2> HIDE DEF e
  <2>3. jobTable[NextPid].state = "unused"
    BY <2>1, NextPidIsFree
  <2> QED BY <1>3, <2>1, <2>2, <2>3, OthersKept
<1>11. CASE SystemStarts
  <2> DEFINE e == Started(1, FALSE, FALSE)
  <2>1. NextPid \in JobPids /\ jobTable' = [jobTable EXCEPT ![NextPid] = e] /\ jobFg' = jobFg
    BY <1>11 DEF SystemStarts
  <2>2. e \in JobEntry
    BY StartedEntry
  <2> HIDE DEF e
  <2>3. jobTable[NextPid].state = "unused"
    BY <2>1, NextPidIsFree
  <2> QED BY <1>3, <2>1, <2>2, <2>3, OthersKept
<1>12. ASSUME NEW all \in BOOLEAN, ush_cmd_jobs(all) PROVE JobInv' /\ FgTakesListedJob
  BY <1>5, <1>12 DEF ush_cmd_jobs
<1>13. CASE FgStart
  <2> DEFINE running == "running"
             e == [Started(1, TRUE, TRUE) EXCEPT !.state = running]
  <2>1. jobFg.pc = "none" /\ NextPid \in JobPids /\ jobTable' = [jobTable EXCEPT ![NextPid] = e]
    BY <1>13 DEF FgStart
  <2>2. PICK p \in JobPids \cup {0} :
          jobFg' = [pid |-> NextPid, pc |-> IF p = 0 THEN "pick" ELSE "look", target |-> p,
                    picked |-> p = 0]
    BY <1>13 DEF FgStart
  <2>3. e \in JobEntry
    <3>1. running \in Live /\ Started(1, TRUE, TRUE) \in JobEntry
      BY StartedEntry DEF Live
    <3> HIDE DEF running
    <3> QED BY <3>1, StateSet
  <2> HIDE DEF e
  <2>4. jobTable[NextPid].state = "unused"
    BY <2>1, NextPidIsFree
  <2>5. jobTable' \in [JobPids -> JobEntry]
    BY <1>3, <2>1, <2>3, <2>4
  <2>6. p \in Int /\ NextPid \in Int
    BY <2>1 DEF JobPids
  <2>7. jobFg' \in FgState
    BY <2>2, <2>6 DEF FgState
  <2>8. PickedIsUsers(jobTable', jobFg')
    BY <2>2 DEF PickedIsUsers
  <2>9. FgTakesListedJob
    BY <2>1 DEF FgTakesListedJob
  <2> QED BY <2>5, <2>7, <2>8, <2>9 DEF JobInv
<1>14. CASE FgWait
  <2>1. jobFg.pc = "wait" /\ FgEnd(WaitAnswer(jobFg.target))
    BY <1>14 DEF FgWait
  <2>2. JobInv'
    BY <2>1, FgEnds
  <2> QED BY <2>1, <2>2 DEF FgTakesListedJob
<1>15. CASE UNCHANGED jobVars
  BY <1>5, <1>15 DEF jobVars
<1> QED BY <1>6, <1>7, <1>8, <1>9, <1>10, <1>11, <1>12, <1>13, <1>14, <1>15,
        FgPickKept, FgLookKept DEF JobNext, FgStep

\* fg takes the job that jobs would list at that moment, and what it continues
\* is still a process of the user on the shown terminal.
THEOREM JobsAreRight == JobSpec => [][FgTakesListedJob]_jobVars
<1> USE JobAssumption
<1>1. JobInit => JobInv
  BY JobStarts
<1>2. JobInv /\ [JobNext]_jobVars => JobInv' /\ FgTakesListedJob
  BY JobKept
<1> QED BY <1>1, <1>2, PTL DEF JobSpec

\* The package window shows its list, with the marks last read, and the task
\* manager's selection is a row of its window (pg_render, tm_render).
THEOREM ListsAreShown == PgSpec /\ TmSpec => []ListsShown
<1>1. PgSpec => []PackagesShown
  BY PackageWindowIsTrue
<1>2. TmSpec => []TmSelectionIsShown
  BY TaskManagerIsRight, PTL
<1> QED BY <1>1, <1>2, PTL DEF ListsShown

\* End task reaches the marked row's process and fg a job that jobs lists,
\* whatever processes start, end or are reaped between what the user saw and
\* what the program does.
THEOREM TheRightProcess == TmSpec /\ JobSpec => RightProcess
<1>1. TmSpec => [][TmEndsTheMarkedTask]_tmVars
  BY TaskManagerIsRight, PTL
<1>2. [TmEndsTheMarkedTask]_tmVars /\ [FgTakesListedJob]_jobVars
      => [TmEndsTheMarkedTask /\ FgTakesListedJob]_<<tmVars, jobVars>>
  <2>1. UNCHANGED tmVars => TmEndsTheMarkedTask
    BY DEF tmVars, TmEndsTheMarkedTask
  <2>2. UNCHANGED jobVars => FgTakesListedJob
    BY DEF jobVars, FgTakesListedJob
  <2> QED BY <2>1, <2>2
<1> QED BY <1>1, <1>2, JobsAreRight, PTL DEF RightProcess

(***************************************************************************)
(* The desktop.                                                            *)
(***************************************************************************)

\* The terminal as a whole: what a command prints stays in the grid, what is
\* presented fits the window, and nothing is left behind (terminal.c).  The
\* arrays have room for a character at least; sizes and ttys are numbers.
THEOREM TerminalIsSound == TermSpec /\ TwSpec => []TerminalSound
<1>1. TermSpec => []TermGridSafe
  BY TerminalGridSafe
<1>2. TwSpec => [](TermPixelsFitWindow /\ TermLeavesNoTrace)
  BY TerminalWindowSafe
<1> QED BY <1>1, <1>2, PTL DEF TerminalSound

\* A behaviour of the desktop is one of each of its programs, those that do
\* not run standing still.
THEOREM DesktopRunsEach ==
  DesktopSpec =>
    /\ UwmSpec /\ FxSpec /\ TmSpec /\ PgSpec
    /\ TermSpec /\ TwSpec /\ JobSpec /\ RsSpec
<1>1. DesktopInit =>
        /\ UwmInit /\ FxInit /\ TmInit /\ PgInit
        /\ TermInit /\ TwInit /\ JobInit /\ RsInit
  BY DEF DesktopInit
<1>2. [DesktopNext]_desktopVars =>
        /\ [UwmNext]_uwmVars /\ [FxNext]_fx /\ [TmNext]_tmVars /\ [PgNext]_pgVars
        /\ [TermNext]_term /\ [TwNext]_twVars /\ [JobNext]_jobVars /\ [RsNext]_rsVars
  BY DEF DesktopNext, desktopVars
<1> QED BY <1>1, <1>2, PTL
        DEF DesktopSpec, UwmSpec, FxSpec, TmSpec, PgSpec, TermSpec, TwSpec, JobSpec, RsSpec

\* What the run of the desktop checks on its instance, for every instance: the
\* windows, lists and prompts of all its programs are sound, and what they end
\* or continue is what the user saw.
THEOREM DesktopIsSound ==
  DesktopSpec =>
    /\ [](SessionSound /\ ListsShown /\ TerminalSound /\ RemoteSound)
    /\ ExplorerSound /\ RightProcess
<1>1. UwmSpec => []SessionSound
  BY WindowManagerIsSound
<1>2. FxSpec => ExplorerSound
  BY ExplorerIsSound
<1>3. PgSpec /\ TmSpec => []ListsShown
  BY ListsAreShown
<1>4. TermSpec /\ TwSpec => []TerminalSound
  BY TerminalIsSound
<1>5. RsSpec => []RemoteSound
  BY RemoteIsSound
<1>6. TmSpec /\ JobSpec => RightProcess
  BY TheRightProcess
<1> QED BY <1>1, <1>2, <1>3, <1>4, <1>5, <1>6, DesktopRunsEach, PTL
=============================================================================
