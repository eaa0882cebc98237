--------------------------- MODULE Installer_proof ---------------------------
(***************************************************************************)
(* The installer, for any images and programs, any number of commands,     *)
(* failed steps, damaged writes and power losses.                          *)
(***************************************************************************)
EXTENDS Installer, SequenceTheorems, WellFoundedInduction, TLAPS

(***************************************************************************)
(* Lists.                                                                  *)
(***************************************************************************)

\* A non-empty set of naturals has a least element.
LEMMA LeastIndex ==
  ASSUME NEW S, S \subseteq Nat, S # {}
  PROVE  \E m \in S : \A y \in S : m <= y
<1>1. PICK m \in S : \A y \in S : ~(<<y, m>> \in OpToRel(<,Nat))
  BY NatLessThanWellFounded, WFMin, Zenon
<1>2. \A y \in S : m <= y
  <2> SUFFICES ASSUME NEW y \in S, y < m PROVE FALSE
    OBVIOUS
  <2>1. <<y, m>> \in Nat \X Nat /\ <<y, m>>[1] < <<y, m>>[2]
    OBVIOUS
  <2>2. <<y, m>> \in OpToRel(<,Nat)
    BY <2>1 DEF OpToRel
  <2> QED BY <2>2, <1>1
<1> QED BY <1>2

\* f holds what InOrder keeps of the first elements, up to n.
PicksUpTo(f, s, kept, n) ==
    f = [m \in 0..n |->
            IF m = 0 THEN <<>> ELSE IF s[m] \in kept THEN Append(f[m - 1], s[m]) ELSE f[m - 1]]

LEMMA PickingExists ==
  ASSUME NEW s, NEW kept, NEW n \in Nat
  PROVE  \E f : PicksUpTo(f, s, kept, n)
<1> DEFINE bad == {m \in Nat : ~\E f : PicksUpTo(f, s, kept, m)}
<1> SUFFICES ASSUME bad # {} PROVE FALSE
  OBVIOUS
<1>1. PICK m \in bad : \A y \in bad : m <= y
  BY LeastIndex
<1>2. m # 0
  <2> SUFFICES ASSUME m = 0 PROVE FALSE
    OBVIOUS
  <2> DEFINE f == [k \in 0..0 |-> <<>>]
  <2>1. PicksUpTo(f, s, kept, 0)
    BY DEF PicksUpTo
  <2> QED BY <1>1, <2>1
<1>3. m - 1 \in Nat /\ m - 1 \notin bad
  BY <1>1, <1>2
<1>4. PICK g : PicksUpTo(g, s, kept, m - 1)
  BY <1>3
<1> DEFINE next(l, k) == IF s[k] \in kept THEN Append(l, s[k]) ELSE l
           f == [k \in 0..m |-> IF k = m THEN next(g[m - 1], m) ELSE g[k]]
<1>5. ASSUME NEW k \in 0..m PROVE f[k] = IF k = 0 THEN <<>> ELSE next(f[k - 1], k)
  <2>1. CASE k = m
    <3>1. f[k] = next(g[m - 1], m) /\ f[m - 1] = g[m - 1]
      BY <1>2, <1>3, <2>1
    <3> QED BY <1>2, <2>1, <3>1
  <2>2. CASE k # m /\ k = 0
    BY <1>3, <1>4, <2>2 DEF PicksUpTo
  <2>3. CASE k # m /\ k # 0
    <3>1. f[k] = g[k] /\ f[k - 1] = g[k - 1] /\ k \in 0..(m - 1)
      BY <1>3, <2>3
    <3>2. g[k] = next(g[k - 1], k)
      BY <1>4, <2>3, <3>1 DEF PicksUpTo
    <3> QED BY <2>3, <3>1, <3>2
  <2> QED BY <2>1, <2>2, <2>3
<1>6. PicksUpTo(f, s, kept, m)
  <2> DEFINE g2 == [k \in 0..m |-> IF k = 0 THEN <<>> ELSE next(f[k - 1], k)]
  <2>1. f = g2
    BY <1>5
  <2> HIDE DEF f
  <2> QED BY <2>1 DEF PicksUpTo
<1> QED BY <1>1, <1>6

\* InOrder keeps those of the sequence that are in the set.
LEMMA InOrderKeeps ==
  ASSUME NEW S, NEW s \in Seq(S), NEW kept
  PROVE  /\ InOrder(s, kept) \in Seq(S)
         /\ Range(InOrder(s, kept)) = Range(s) \cap kept
<1>0. Len(s) \in Nat /\ DOMAIN s = 1..Len(s)
  BY LenProperties
<1> DEFINE F == CHOOSE f : f = [n \in 0..Len(s) |->
                   IF n = 0 THEN <<>> ELSE IF s[n] \in kept THEN Append(f[n - 1], s[n]) ELSE f[n - 1]]
<1>1. PICK g : PicksUpTo(g, s, kept, Len(s))
  BY <1>0, PickingExists
<1>2. F = [n \in 0..Len(s) |->
             IF n = 0 THEN <<>> ELSE IF s[n] \in kept THEN Append(F[n - 1], s[n]) ELSE F[n - 1]]
  BY <1>1 DEF PicksUpTo
<1>3. InOrder(s, kept) = F[Len(s)]
  BY DEF InOrder
<1> HIDE DEF F
<1> DEFINE Good(n) == F[n] \in Seq(S) /\ Range(F[n]) = {s[i] : i \in 1..n} \cap kept
           bad == {n \in 0..Len(s) : ~Good(n)}
<1>4. Good(0)
  <2>1. F[0] = <<>>
    BY <1>0, <1>2
  <2>2. <<>> \in Seq(S) /\ Range(<<>>) = {}
    BY DEF Range
  <2> QED BY <2>1, <2>2
<1>5. ASSUME NEW n \in 1..Len(s), Good(n - 1) PROVE Good(n)
  <2>0. n \in 0..Len(s) /\ n # 0 /\ n - 1 \in 0..Len(s)
    BY <1>0
  <2>1. F[n] = IF s[n] \in kept THEN Append(F[n - 1], s[n]) ELSE F[n - 1]
    <3> DEFINE body(k) == IF k = 0 THEN <<>> ELSE IF s[k] \in kept THEN Append(F[k - 1], s[k]) ELSE F[k - 1]
    <3>1. F = [k \in 0..Len(s) |-> body(k)]
      BY <1>2, Zenon
    <3>2. F[n] = body(n)
      <4> HIDE DEF body
      <4> QED BY <2>0, <3>1
    <3> QED BY <2>0, <3>2
  <2>2. {s[i] : i \in 1..n} = {s[i] : i \in 1..(n - 1)} \cup {s[n]}
    BY <1>0
  <2>3. s[n] \in S
    BY <1>0, ElementOfSeq
  <2>4. CASE s[n] \in kept
    <3>1. Append(F[n - 1], s[n]) \in Seq(S)
      BY <1>5, <2>3
    <3>2. Append(F[n - 1], s[n]) = F[n - 1] \o <<s[n]>>
      BY <1>5, <2>3, AppendIsConcat
    <3>3. <<s[n]>> \in Seq(S) /\ Range(<<s[n]>>) = {s[n]}
      BY <2>3 DEF Range
    <3>4. Range(F[n - 1] \o <<s[n]>>) = Range(F[n - 1]) \cup {s[n]}
      <4> DEFINE x == F[n - 1]  y == <<s[n]>>
      <4>1. x \in Seq(S) /\ y \in Seq(S)
        BY <1>5, <3>3
      <4>2. Range(x \o y) = Range(x) \cup Range(y)
        <5> HIDE DEF x, y
        <5> QED BY <4>1, RangeConcatenation
      <4> QED BY <4>2, <3>3
    <3> QED BY <1>5, <2>1, <2>2, <2>4, <3>1, <3>2, <3>4
  <2>5. CASE s[n] \notin kept
    BY <1>5, <2>1, <2>2, <2>5
  <2> QED BY <2>4, <2>5
<1>6. bad = {}
  <2> SUFFICES ASSUME bad # {} PROVE FALSE
    OBVIOUS
  <2> HIDE DEF Good
  <2>0. bad \subseteq Nat
    BY <1>0
  <2>1. PICK n \in bad : \A y \in bad : n <= y
    <3> HIDE DEF bad
    <3> QED BY <2>0, LeastIndex
  <2>2. n # 0
    BY <1>4, <2>1
  <2>3. n \in 1..Len(s) /\ n - 1 \in 0..Len(s) /\ n - 1 \notin bad
    BY <1>0, <2>1, <2>2
  <2>4. Good(n - 1)
    BY <2>3
  <2> QED BY <1>5, <2>1, <2>3, <2>4
<1>7. Good(Len(s))
  <2> HIDE DEF Good
  <2>1. Len(s) \in 0..Len(s) /\ Len(s) \notin bad
    BY <1>0, <1>6
  <2> QED BY <2>1
<1>8. Range(s) = {s[i] : i \in 1..Len(s)}
  BY <1>0 DEF Range
<1> QED BY <1>3, <1>7, <1>8

\* The first of a sequence, and the rest.
LEMMA HeadAndTail ==
  ASSUME NEW S, NEW t \in Seq(S), t # <<>>
  PROVE  /\ t[1] \in S /\ Tail(t) \in Seq(S)
         /\ Range(t) = {t[1]} \cup Range(Tail(t))
         /\ Len(t) # 1 => Tail(t) # <<>>
         /\ Len(t) = 1 => Tail(t) = <<>>
<1>1. Len(t) \in Nat \ {0} /\ DOMAIN t = 1..Len(t)
  BY LenProperties, EmptySeq
<1>2. /\ Tail(t) \in Seq(S) /\ Len(Tail(t)) = Len(t) - 1
      /\ \A i \in 1..Len(Tail(t)) : Tail(t)[i] = t[i + 1]
  BY HeadTailProperties
<1>3. DOMAIN Tail(t) = 1..(Len(t) - 1)
  BY <1>2, LenProperties
<1>4. t[1] \in S
  BY <1>1, ElementOfSeq
<1>5. Range(t) = {t[1]} \cup Range(Tail(t))
  <2>1. ASSUME NEW x \in Range(t) PROVE x = t[1] \/ x \in Range(Tail(t))
    <3>1. PICK i \in 1..Len(t) : x = t[i]
      BY <1>1 DEF Range
    <3>2. i = 1 \/ (i - 1 \in 1..(Len(t) - 1) /\ t[i] = Tail(t)[i - 1])
      BY <1>1, <1>2
    <3> QED BY <1>3, <3>1, <3>2 DEF Range
  <2>2. ASSUME NEW x \in Range(Tail(t)) PROVE x \in Range(t)
    <3>1. PICK i \in 1..(Len(t) - 1) : x = Tail(t)[i]
      BY <1>3 DEF Range
    <3>2. i + 1 \in 1..Len(t) /\ x = t[i + 1]
      BY <1>1, <1>2, <3>1
    <3> QED BY <1>1, <3>2 DEF Range
  <2>3. t[1] \in Range(t)
    BY <1>1 DEF Range
  <2> QED BY <2>1, <2>2, <2>3
<1> QED BY <1>1, <1>2, <1>4, <1>5, EmptySeq

LEMMA WiderSeq ==
    ASSUME NEW A, NEW B, A \subseteq B, NEW x \in Seq(A)
    PROVE  x \in Seq(B)
<1>1. Len(x) \in Nat /\ \A i \in 1..Len(x) : x[i] \in B
  BY LenProperties, ElementOfSeq
<1>2. x = [i \in 1..Len(x) |-> x[i]]
  BY LenProperties
<1> QED BY <1>1, <1>2, IsASeq

(***************************************************************************)
(* Steps.                                                                  *)
(***************************************************************************)

InstOps == WriteOps \cup
    {"format", "table", "root account", "state", "delete", "verified?", "create manifest", "entry"}
InstStep == [op : InstOps, file : Files]

Entries(t) == \A s \in Range(t) : s.op = "entry"

\* A plan that renews the manifest: it is created, nothing but entries
\* follows, and those of fs are among them.
Renews(t, fs) ==
    \E k \in 1..Len(t) :
        /\ t[k].op = "create manifest"
        /\ \A j \in 1..Len(t) : j > k => t[j].op = "entry"
        /\ \A f \in fs : \E j \in 1..Len(t) : j > k /\ t[j] = Step("entry", f)

LEMMA ScanNames ==
    /\ Scan \in Seq(Files)
    /\ Kernel \in Files /\ Efi \in Files /\ Release \in Files /\ Users \in Files /\ Installer \in Files
<1> DEFINE a == <<Kernel, Efi>>
           b == <<Installer, Release, Users>>
           names == STRING \cup {Kernel, Efi, Installer, Release, Users}
<1>1. a \in Seq(names) /\ b \in Seq(names) /\ ShellFiles \in Seq(names)
  <2>1. Kernel \in names /\ Efi \in names /\ Installer \in names /\ Release \in names /\ Users \in names
    OBVIOUS
  <2>2. STRING \subseteq names
    OBVIOUS
  <2> HIDE DEF names
  <2>3. ShellFiles \in Seq(names)
    BY <2>2, WiderSeq, InstallerAssumption
  <2> QED BY <2>1, <2>3
<1>2. a \o ShellFiles \in Seq(names) /\ Scan = (a \o ShellFiles) \o b
  BY <1>1, ConcatProperties DEF Scan
<1>3. Scan \in Seq(names)
  BY <1>1, <1>2, ConcatProperties
<1>4. Scan \in Seq(Files)
  BY <1>3, SeqOfRange DEF Files
<1>5. Files = Range(a) \cup Range(ShellFiles) \cup Range(b)
  <2>1. Range(a \o ShellFiles) = Range(a) \cup Range(ShellFiles)
    BY <1>1, RangeConcatenation
  <2>2. Range((a \o ShellFiles) \o b) = Range(a \o ShellFiles) \cup Range(b)
    <3> DEFINE c == a \o ShellFiles
    <3>1. c \in Seq(names) /\ b \in Seq(names)
      BY <1>1, <1>2
    <3> HIDE DEF c, b, names
    <3>2. Range(c \o b) = Range(c) \cup Range(b)
      BY <3>1, RangeConcatenation
    <3> QED BY <3>2 DEF c
  <2> QED BY <1>2, <2>1, <2>2 DEF Files
<1>6. Range(a) = {Kernel, Efi} /\ Range(b) = {Installer, Release, Users}
  <2>1. DOMAIN a = {1, 2} /\ DOMAIN b = {1, 2, 3}
    OBVIOUS
  <2> QED BY <2>1 DEF Range
<1> QED BY <1>4, <1>5, <1>6

LEMMA ShellFilesAreFiles == ShellFiles \in Seq(Files)
<1> DEFINE a == <<Kernel, Efi>>
           b == <<Installer, Release, Users>>
           c == a \o ShellFiles
<1>1. /\ Len(ShellFiles) \in Nat
      /\ \A i \in 1..Len(ShellFiles) : Scan[i + 2] = ShellFiles[i] /\ i + 2 \in DOMAIN Scan
  <2> DEFINE names == STRING \cup {Kernel, Efi, Installer, Release, Users}
  <2>1. a \in Seq(names) /\ b \in Seq(names) /\ Len(a) = 2 /\ Len(b) = 3
    OBVIOUS
  <2>2. ShellFiles \in Seq(names)
    BY WiderSeq, InstallerAssumption
  <2> HIDE DEF a, b, names
  <2>3. /\ c \in Seq(names) /\ Len(ShellFiles) \in Nat /\ Len(c) = 2 + Len(ShellFiles)
        /\ \A i \in 1..Len(c) : c[i] = IF i <= 2 THEN a[i] ELSE ShellFiles[i - 2]
    <3>1. /\ c \in Seq(names) /\ Len(c) = Len(a) + Len(ShellFiles)
          /\ \A i \in 1..Len(a) + Len(ShellFiles) : c[i] = IF i <= Len(a) THEN a[i] ELSE ShellFiles[i - Len(a)]
      BY <2>1, <2>2, ConcatProperties
    <3>2. Len(ShellFiles) \in Nat
      BY <2>2, LenProperties
    <3> HIDE DEF c
    <3> QED BY <2>1, <3>1, <3>2
  <2>4. Scan = c \o b
    BY DEF Scan, a, b
  <2> HIDE DEF c
  <2>5. /\ Scan \in Seq(names) /\ Len(Scan) = Len(c) + 3
        /\ \A i \in 1..Len(Scan) : Scan[i] = IF i <= Len(c) THEN c[i] ELSE b[i - Len(c)]
    <3>1. /\ c \o b \in Seq(names) /\ Len(c \o b) = Len(c) + Len(b)
          /\ \A i \in 1..Len(c) + Len(b) : (c \o b)[i] = IF i <= Len(c) THEN c[i] ELSE b[i - Len(c)]
      BY <2>1, <2>3, ConcatProperties
    <3> QED BY <2>1, <2>4, <3>1
  <2>6. DOMAIN Scan = 1..Len(Scan)
    BY <2>5, LenProperties
  <2> QED BY <2>3, <2>5, <2>6
<1>2. \A i \in 1..Len(ShellFiles) : ShellFiles[i] \in Files
  BY <1>1 DEF Files, Range
<1>3. ShellFiles = [i \in 1..Len(ShellFiles) |-> ShellFiles[i]]
  BY InstallerAssumption, LenProperties
<1> QED BY <1>1, <1>2, <1>3, IsASeq

LEMMA StepTyped ==
    ASSUME NEW op \in InstOps, NEW f \in Files
    PROVE  Step(op, f) \in InstStep /\ Step(op, f).op = op /\ Step(op, f).file = f
BY DEF Step, InstStep

LEMMA OneStep ==
    ASSUME NEW op \in InstOps, NEW f \in Files
    PROVE  <<Step(op, f)>> \in Seq(InstStep) /\ Range(<<Step(op, f)>>) = {Step(op, f)}
BY StepTyped DEF Range

LEMMA StepsTyped ==
    ASSUME NEW op \in InstOps, NEW fs \in Seq(Files)
    PROVE  /\ Steps(op, fs) \in Seq(InstStep)
           /\ Range(Steps(op, fs)) = {Step(op, f) : f \in Range(fs)}
<1>1. Len(fs) \in Nat /\ DOMAIN fs = 1..Len(fs)
  BY LenProperties
<1>2. ASSUME NEW i \in 1..Len(fs) PROVE Step(op, fs[i]) \in InstStep
  <2>1. fs[i] \in Files
    BY <1>1, ElementOfSeq
  <2> QED BY <2>1, StepTyped
<1>3. Steps(op, fs) = [i \in 1..Len(fs) |-> Step(op, fs[i])]
  BY DEF Steps
<1>4. Steps(op, fs) \in Seq(InstStep)
  <2> DEFINE e(i) == Step(op, fs[i])
  <2>1. \A i \in 1..Len(fs) : e(i) \in InstStep
    BY <1>2
  <2>2. [i \in 1..Len(fs) |-> e(i)] \in Seq(InstStep)
    <3> HIDE DEF e
    <3> QED BY <1>1, <2>1, IsASeq
  <2> QED BY <1>3, <2>2
<1>5. Range(Steps(op, fs)) = {Step(op, f) : f \in Range(fs)}
  BY <1>1, <1>3 DEF Range
<1> QED BY <1>4, <1>5

\* Two plans, one after the other.
LEMMA Joined ==
    ASSUME NEW S, NEW a \in Seq(S), NEW b \in Seq(S)
    PROVE  a \o b \in Seq(S) /\ Range(a \o b) = Range(a) \cup Range(b)
BY RangeConcatenation, ConcatProperties

LEMMA PlansJoined ==
    ASSUME NEW a \in Seq(InstStep), NEW b \in Seq(InstStep)
    PROVE  a \o b \in Seq(InstStep) /\ Range(a \o b) = Range(a) \cup Range(b)
BY Joined

LEMMA RenewsAfter ==
    ASSUME NEW a \in Seq(InstStep), NEW b \in Seq(InstStep), NEW fs, Renews(b, fs)
    PROVE  Renews(a \o b, fs)
<1> DEFINE c == a \o b
<1>1. /\ Len(a) \in Nat /\ Len(b) \in Nat /\ Len(c) = Len(a) + Len(b)
      /\ \A i \in 1..Len(c) : c[i] = IF i <= Len(a) THEN a[i] ELSE b[i - Len(a)]
  BY ConcatProperties, LenProperties
<1>2. PICK k \in 1..Len(b) :
        /\ b[k].op = "create manifest"
        /\ \A j \in 1..Len(b) : j > k => b[j].op = "entry"
        /\ \A f \in fs : \E j \in 1..Len(b) : j > k /\ b[j] = Step("entry", f)
  BY DEF Renews
<1> HIDE DEF c
<1>3. k + Len(a) \in 1..Len(c) /\ c[k + Len(a)] = b[k]
  BY <1>1
<1>4. ASSUME NEW j \in 1..Len(c), j > k + Len(a) PROVE c[j].op = "entry"
  <2>1. j - Len(a) \in 1..Len(b) /\ j - Len(a) > k /\ c[j] = b[j - Len(a)]
    BY <1>1, <1>4
  <2> QED BY <1>2, <2>1
<1>5. ASSUME NEW f \in fs PROVE \E j \in 1..Len(c) : j > k + Len(a) /\ c[j] = Step("entry", f)
  <2>1. PICK j \in 1..Len(b) : j > k /\ b[j] = Step("entry", f)
    BY <1>2
  <2>2. j + Len(a) \in 1..Len(c) /\ j + Len(a) > k + Len(a) /\ c[j + Len(a)] = b[j]
    BY <1>1, <2>1
  <2> QED BY <2>1, <2>2
<1>6. Renews(c, fs)
  BY <1>2, <1>3, <1>4, <1>5 DEF Renews
<1> QED BY <1>6 DEF c

LEMMA RenewsFrom ==
    ASSUME NEW b \in Seq(InstStep), Entries(b), NEW fs, \A f \in fs : Step("entry", f) \in Range(b)
    PROVE  Renews(<<Step("create manifest", Kernel)>> \o b, fs)
<1> DEFINE a == <<Step("create manifest", Kernel)>>
           c == a \o b
<1>0. a \in Seq(InstStep) /\ Len(a) = 1 /\ a[1].op = "create manifest"
  BY OneStep, ScanNames, StepTyped DEF InstOps
<1>1. /\ Len(b) \in Nat /\ Len(c) = 1 + Len(b) /\ DOMAIN b = 1..Len(b)
      /\ \A i \in 1..Len(c) : c[i] = IF i <= 1 THEN a[i] ELSE b[i - 1]
  <2> HIDE DEF a
  <2>1. Len(b) \in Nat /\ DOMAIN b = 1..Len(b)
    BY LenProperties
  <2>2. /\ Len(c) = Len(a) + Len(b)
        /\ \A i \in 1..Len(c) : c[i] = IF i <= Len(a) THEN a[i] ELSE b[i - Len(a)]
    BY <1>0, ConcatProperties
  <2> HIDE DEF c
  <2> QED BY <1>0, <2>1, <2>2
<1> HIDE DEF a, c
<1>2. 1 \in 1..Len(c) /\ c[1].op = "create manifest"
  <2>1. 1 \in 1..Len(c)
    BY <1>1
  <2>2. c[1] = a[1]
    BY <1>1, <2>1
  <2> QED BY <1>0, <2>1, <2>2
<1>3. ASSUME NEW j \in 1..Len(c), j > 1 PROVE c[j].op = "entry"
  <2>1. j - 1 \in 1..Len(b) /\ c[j] = b[j - 1]
    BY <1>1, <1>3
  <2> QED BY <1>1, <2>1 DEF Entries, Range
<1>4. ASSUME NEW f \in fs PROVE \E j \in 1..Len(c) : j > 1 /\ c[j] = Step("entry", f)
  <2>1. PICK j \in 1..Len(b) : b[j] = Step("entry", f)
    BY <1>1 DEF Range
  <2>2. j + 1 \in 1..Len(c) /\ j + 1 > 1 /\ c[j + 1] = b[j]
    BY <1>1
  <2> QED BY <2>1, <2>2
<1>5. Renews(c, fs)
  BY <1>2, <1>3, <1>4 DEF Renews
<1> QED BY <1>5 DEF a, c

(***************************************************************************)
(* The inductive invariant: what the rest of a command is still to do, and  *)
(* what is done of it.                                                      *)
(***************************************************************************)

Renewing == {"update shell", "install", "repair manifest", "repair file"}
UpdateOps == {"state", "copy", "overwrite", "delete", "verified?", "create manifest", "entry"}
InstallOps == {"format", "copy whole", "overwrite", "root account", "table", "create manifest", "entry"}

KeepsUsers(cmd, t) ==
    cmd # "install" =>
        \A s \in Range(t) :
            /\ s.op \notin {"format", "root account"}
            /\ s.op \in WriteOps \cup {"delete"} /\ s.file = Users => cmd = "repair file"

Wanted(v) == {f \in IsoFiles[v] : ShellIncludes(f)}

\* Each file of the update is there, still to be copied, or known to be bad.
Brings(t, b, v, d) ==
    /\ \A f \in Wanted(v) : d[f] = v \/ Step("copy", f) \in Range(t) \/ b
    /\ \A s \in Range(t) :
          /\ s.op \in UpdateOps
          /\ s.op = "delete" => s.file \notin Wanted(v)
          /\ s.op = "overwrite" => s.file = Release

\* ManifestHolds, of a manifest and a disk.
Holds(m, d) == m # NoManifest /\ \A e \in Range(m) : d[e.path] = e.hash

Renewed(t, fs, d, m) ==
    \/ Renews(t, fs)
    \/ /\ Entries(t) /\ Holds(m, d)
       /\ \A f \in fs : Step("entry", f) \in Range(t) \/ m # <<>>

NoFormat(t) == \A s \in Range(t) : s.op # "format"

Installs(t, d, tab) ==
    /\ \A s \in Range(t) : s.op \in InstallOps
    /\ \A i \in 1..Len(t) : i > 1 => t[i].op # "format"
    /\ Step("table", Kernel) \in Range(t) \/ (tab /\ NoFormat(t))
    /\ \A f \in {Kernel, Efi} : Step("overwrite", f) \in Range(t) \/ (d[f] # Absent /\ NoFormat(t))
    /\ Step("root account", Users) \in Range(t) \/ (d[Users] # Absent /\ NoFormat(t))

Must(cmd) == IF cmd = "install" THEN {Kernel} ELSE {}

OnCourse(cmd, t, b, v, d, tab, m) ==
    /\ KeepsUsers(cmd, t)
    /\ cmd = "update shell" => Brings(t, b, v, d)
    /\ cmd \in Renewing => Renewed(t, Must(cmd), d, m)
    /\ cmd = "install" => Installs(t, d, tab)

ManifestEntry == [path : Files \cup {"none"}, hash : Int]

InstTyped ==
    /\ iso \in Isos
    /\ disk \in [Files -> Int]
    /\ table \in BOOLEAN
    /\ manifest \in Seq(ManifestEntry)
    /\ job \in [cmd : Commands \cup {"none", "repair file"}, todo : Seq(InstStep), bad : BOOLEAN]

InstInv ==
    /\ InstTyped
    /\ job.cmd # "none" =>
          job.todo # <<>> /\ OnCourse(job.cmd, job.todo, job.bad, iso, disk, table, manifest)

(***************************************************************************)
(* One step of a command.                                                  *)
(***************************************************************************)

\* The step h is done, or passed with a note: the disk d, the table, the
\* manifest m and the note b become d2, tab2, m2 and b2.
Passes(h, v, d, tab, m, b, d2, tab2, m2, b2) ==
    \/ /\ h.op \in WriteOps
       /\ \E x \in Int :
            /\ d2 = [d EXCEPT ![h.file] = x]
            /\ x = v \/ (x = Damaged /\ (NoticesDamage(h.op) => b2)) \/ (h.op = "checked" /\ b2)
       /\ (b => b2) /\ tab2 = tab /\ m2 = m
    \/ /\ h.op \notin WriteOps
       /\ d2 = CASE h.op = "format" -> [f \in Files |-> Absent]
                 [] h.op = "delete" -> [d EXCEPT ![h.file] = Absent]
                 [] h.op = "root account" -> [d EXCEPT ![Users] = Own]
                 [] OTHER -> d
       /\ tab2 = (h.op = "table" \/ (tab /\ h.op # "format"))
       /\ m2 = CASE h.op = "format" -> NoManifest
                 [] h.op = "create manifest" -> <<>>
                 [] h.op = "entry" -> Append(m, [path |-> h.file, hash |-> d[h.file]])
                 [] OTHER -> m
       /\ b2 = b
       /\ h.op = "entry" => d[h.file] # Absent

LEMMA BringsOn ==
    ASSUME NEW t \in Seq(InstStep), t # <<>>, NEW v \in Isos, NEW d \in [Files -> Int], NEW tab, NEW m,
           NEW b \in BOOLEAN, NEW d2, NEW tab2, NEW m2, NEW b2 \in BOOLEAN,
           Passes(t[1], v, d, tab, m, b, d2, tab2, m2, b2), Brings(t, b, v, d)
    PROVE  Brings(Tail(t), b2, v, d2)
<1> DEFINE h == t[1]
<1>1. h \in InstStep /\ h.op \in InstOps /\ h.file \in Files /\ Range(t) = {h} \cup Range(Tail(t))
  <2>1. h \in InstStep /\ Range(t) = {h} \cup Range(Tail(t))
    BY HeadAndTail
  <2> HIDE DEF h
  <2> QED BY <2>1 DEF InstStep
<1>2. h.op \in UpdateOps /\ (h.op = "delete" => h.file \notin Wanted(v)) /\ (h.op = "overwrite" => h.file = Release)
  BY <1>1 DEF Brings
<1>3. Wanted(v) \subseteq Files /\ Release \notin Wanted(v)
  BY InstallerAssumption DEF Isos, Wanted, ShellIncludes, ManifestIncludes
<1>4. ASSUME NEW f \in Wanted(v), d[f] = v \/ h = Step("copy", f) \/ b
      PROVE  d2[f] = v \/ b2
  <2>1. CASE h.op \in WriteOps
    <3>1. PICK x \in Int : /\ d2 = [d EXCEPT ![h.file] = x]
                           /\ x = v \/ (x = Damaged /\ (NoticesDamage(h.op) => b2)) \/ (h.op = "checked" /\ b2)
      BY <2>1 DEF Passes
    <3>2. b => b2
      BY <2>1 DEF Passes
    <3>3. h.op = "copy" \/ (h.op = "overwrite" /\ h.file # f)
      BY <1>2, <1>3, <2>1 DEF UpdateOps, WriteOps
    <3>4. CASE h.op = "copy"
      <4>1. x = v \/ b2
        BY <3>1, <3>4 DEF NoticesDamage
      <4>2. h = Step("copy", f) => h.file = f
        BY DEF Step
      <4> QED BY <1>1, <1>3, <1>4, <3>1, <3>2, <4>1, <4>2
    <3>5. CASE h.op = "overwrite" /\ h.file # f
      <4>1. h # Step("copy", f)
        BY <3>5 DEF Step
      <4> QED BY <1>1, <1>3, <1>4, <3>1, <3>2, <3>5, <4>1
    <3> QED BY <3>3, <3>4, <3>5
  <2>2. CASE h.op \notin WriteOps
    <3>1. h # Step("copy", f)
      <4> SUFFICES ASSUME h = Step("copy", f) PROVE FALSE
        OBVIOUS
      <4>1. h.op = "copy"
        <5> HIDE DEF h
        <5> QED BY DEF Step
      <4> QED BY <2>2, <4>1 DEF WriteOps
    <3>2. d2 = d \/ (h.op = "delete" /\ d2 = [d EXCEPT ![h.file] = Absent])
      BY <1>2, <2>2 DEF Passes, UpdateOps
    <3>3. b2 = b
      BY <2>2 DEF Passes
    <3> QED BY <1>2, <1>3, <1>4, <3>1, <3>2, <3>3
  <2> QED BY <2>1, <2>2
<1> QED BY <1>1, <1>4 DEF Brings

LEMMA HoldsMore ==
    ASSUME NEW m \in Seq(ManifestEntry), NEW d, NEW e \in ManifestEntry,
           Holds(m, d), d[e.path] = e.hash, e.hash # Absent
    PROVE  Holds(Append(m, e), d) /\ Append(m, e) # <<>>
<1> DEFINE a == Append(m, e)
<1>1. /\ a \in Seq(ManifestEntry) /\ Len(m) \in Nat /\ Len(a) = Len(m) + 1 /\ DOMAIN a = 1..Len(a) /\ DOMAIN m = 1..Len(m)
      /\ a[Len(a)] = e /\ \A i \in 1..Len(m) : a[i] = m[i]
  BY AppendProperties, LenProperties
<1> HIDE DEF a
<1>2. ASSUME NEW x \in Range(a) PROVE d[x.path] = x.hash
  <2>1. PICK i \in 1..Len(a) : x = a[i]
    BY <1>1 DEF Range
  <2>2. CASE i = Len(a)
    BY <1>1, <2>1, <2>2
  <2>3. CASE i # Len(a)
    <3>1. i \in 1..Len(m) /\ x = m[i]
      BY <1>1, <2>1, <2>3
    <3>2. x \in Range(m)
      BY <1>1, <3>1 DEF Range
    <3> QED BY <3>2 DEF Holds
  <2> QED BY <2>2, <2>3
<1>3. a # NoManifest
  <2> SUFFICES ASSUME a = NoManifest PROVE FALSE
    OBVIOUS
  <2>1. Len(a) = 1 /\ a[1] = [path |-> "none", hash |-> Absent]
    BY DEF NoManifest
  <2>2. e.hash = Absent
    BY <1>1, <2>1
  <2> QED BY <2>2
<1>4. a # <<>>
  BY <1>1
<1> QED BY <1>2, <1>3, <1>4 DEF Holds, a

LEMMA RenewedOn ==
    ASSUME NEW t \in Seq(InstStep), t # <<>>, NEW v, NEW d \in [Files -> Int], NEW tab,
           NEW m \in Seq(ManifestEntry), NEW b, NEW d2, NEW tab2, NEW m2, NEW b2, NEW fs,
           Passes(t[1], v, d, tab, m, b, d2, tab2, m2, b2), Renewed(t, fs, d, m)
    PROVE  Renewed(Tail(t), fs, d2, m2)
<1> DEFINE h == t[1]
           r == Tail(t)
<1>1. /\ Len(t) \in Nat \ {0} /\ r \in Seq(InstStep) /\ Len(r) = Len(t) - 1 /\ DOMAIN r = 1..Len(r)
      /\ \A i \in 1..Len(r) : r[i] = t[i + 1]
  BY HeadTailProperties, LenProperties, EmptySeq
<1>2. h \in InstStep /\ Range(t) = {h} \cup Range(r)
  BY HeadAndTail
<1> HIDE DEF r
<1>3. CASE Renews(t, fs)
  <2>1. PICK k \in 1..Len(t) :
          /\ t[k].op = "create manifest"
          /\ \A j \in 1..Len(t) : j > k => t[j].op = "entry"
          /\ \A f \in fs : \E j \in 1..Len(t) : j > k /\ t[j] = Step("entry", f)
    BY <1>3 DEF Renews
  <2>2. CASE k = 1
    <3>1. h.op = "create manifest" /\ h.op \notin WriteOps
      BY <2>1, <2>2 DEF WriteOps
    <3>2. m2 = <<>> /\ d2 = d
      BY <3>1 DEF Passes
    <3>3. Holds(m2, d2)
      <4>1. <<>> # NoManifest /\ Range(<<>>) = {}
        BY DEF NoManifest, Range
      <4> QED BY <3>2, <4>1 DEF Holds
    <3>4. Entries(r)
      <4> SUFFICES ASSUME NEW s \in Range(r) PROVE s.op = "entry"
        BY DEF Entries
      <4>1. PICK i \in 1..Len(r) : s = t[i + 1]
        BY <1>1 DEF Range
      <4>2. i + 1 \in 1..Len(t) /\ i + 1 > k
        BY <1>1, <2>2
      <4> QED BY <2>1, <4>1, <4>2
    <3>5. ASSUME NEW f \in fs PROVE Step("entry", f) \in Range(r)
      <4>1. PICK j \in 1..Len(t) : j > k /\ t[j] = Step("entry", f)
        BY <2>1
      <4>2. j - 1 \in 1..Len(r) /\ r[j - 1] = t[j]
        BY <1>1, <2>2, <4>1
      <4> QED BY <1>1, <4>1, <4>2 DEF Range
    <3> QED BY <3>3, <3>4, <3>5 DEF Renewed, r
  <2>3. CASE k # 1
    <3>1. k - 1 \in 1..Len(r) /\ r[k - 1] = t[k]
      BY <1>1, <2>3
    <3>2. ASSUME NEW j \in 1..Len(r), j > k - 1 PROVE r[j].op = "entry"
      <4>1. j + 1 \in 1..Len(t) /\ j + 1 > k /\ r[j] = t[j + 1]
        BY <1>1, <3>2
      <4> QED BY <2>1, <4>1
    <3>3. ASSUME NEW f \in fs PROVE \E j \in 1..Len(r) : j > k - 1 /\ r[j] = Step("entry", f)
      <4>1. PICK j \in 1..Len(t) : j > k /\ t[j] = Step("entry", f)
        BY <2>1
      <4>2. j - 1 \in 1..Len(r) /\ j - 1 > k - 1 /\ r[j - 1] = t[j]
        BY <1>1, <4>1
      <4> QED BY <4>1, <4>2
    <3>4. Renews(r, fs)
      BY <2>1, <3>1, <3>2, <3>3 DEF Renews
    <3> QED BY <3>4 DEF Renewed, r
  <2> QED BY <2>2, <2>3
<1>4. CASE ~Renews(t, fs)
  <2>1. /\ Entries(t) /\ Holds(m, d)
        /\ \A f \in fs : Step("entry", f) \in Range(t) \/ m # <<>>
    BY <1>4 DEF Renewed
  <2>2. h.op = "entry" /\ h.op \notin WriteOps /\ Entries(r)
    BY <1>2, <2>1 DEF Entries, WriteOps
  <2> DEFINE e == [path |-> h.file, hash |-> d[h.file]]
  <2>3. d2 = d /\ m2 = Append(m, e) /\ d[h.file] # Absent
    BY <2>2 DEF Passes
  <2>4. e \in ManifestEntry /\ d[e.path] = e.hash /\ e.hash # Absent
    <3>1. h.file \in Files
      <4> HIDE DEF h
      <4> QED BY <1>2 DEF InstStep
    <3>2. d[h.file] \in Int
      BY <3>1
    <3> QED BY <2>3, <3>1, <3>2 DEF ManifestEntry
  <2>5. Holds(m2, d2) /\ m2 # <<>>
    <3> HIDE DEF e
    <3> QED BY <2>1, <2>3, <2>4, HoldsMore
  <2> QED BY <2>2, <2>5 DEF Renewed, r
<1> QED BY <1>3, <1>4

LEMMA InstallsOn ==
    ASSUME NEW t \in Seq(InstStep), t # <<>>, NEW v \in Isos, NEW d \in [Files -> Int], NEW tab \in BOOLEAN, NEW m,
           NEW b, NEW d2, NEW tab2, NEW m2, NEW b2,
           Passes(t[1], v, d, tab, m, b, d2, tab2, m2, b2), Installs(t, d, tab)
    PROVE  Installs(Tail(t), d2, tab2)
<1> DEFINE h == t[1]
           r == Tail(t)
<1>1. /\ Len(t) \in Nat \ {0} /\ r \in Seq(InstStep) /\ Len(r) = Len(t) - 1 /\ DOMAIN r = 1..Len(r)
      /\ \A i \in 1..Len(r) : r[i] = t[i + 1]
  BY HeadTailProperties, LenProperties, EmptySeq
<1>2. h \in InstStep /\ Range(t) = {h} \cup Range(r)
  BY HeadAndTail
<1>3. v # Absent /\ Kernel \in Files /\ Efi \in Files /\ Users \in Files
  <2>1. v \in Nat \ {0}
    BY InstallerAssumption, LenProperties DEF Isos
  <2> QED BY <2>1, ScanNames DEF Absent
<1> HIDE DEF r
<1>4. NoFormat(r) /\ (\A i \in 1..Len(r) : i > 1 => r[i].op # "format")
  <2>1. ASSUME NEW i \in 1..Len(r) PROVE r[i].op # "format"
    <3>1. i + 1 \in 1..Len(t) /\ i + 1 > 1 /\ r[i] = t[i + 1]
      BY <1>1
    <3> QED BY <3>1 DEF Installs
  <2>2. NoFormat(r)
    BY <1>1, <2>1 DEF NoFormat, Range
  <2> QED BY <2>1, <2>2
<1>5. h.op \in InstallOps /\ \A s \in Range(r) : s.op \in InstallOps
  BY <1>2 DEF Installs
<1>6. h.op # "delete" /\ h.op # "checked"
  BY <1>5 DEF InstallOps
<1>7. ASSUME NEW f \in Files, d[f] # Absent, h.op # "format" PROVE d2[f] # Absent
  <2>1. CASE h.op \in WriteOps
    <3>1. PICK x \in Int : d2 = [d EXCEPT ![h.file] = x] /\ (x = v \/ x = Damaged)
      BY <1>6, <2>1 DEF Passes
    <3>2. x # Absent
      BY <1>3, <3>1 DEF Damaged, Absent
    <3> QED BY <1>7, <3>1, <3>2
  <2>2. CASE h.op \notin WriteOps
    <3>1. d2 = d \/ d2 = [d EXCEPT ![Users] = Own]
      BY <1>6, <1>7, <2>2 DEF Passes
    <3> QED BY <1>7, <3>1 DEF Own, Absent
  <2> QED BY <2>1, <2>2
<1>8. Step("table", Kernel) \in Range(r) \/ tab2
  <2>1. CASE h = Step("table", Kernel)
    <3>1. h.op = "table" /\ h.op \notin WriteOps
      <4>1. h.op = "table"
        <5> HIDE DEF h
        <5> QED BY <2>1 DEF Step
      <4> QED BY <4>1 DEF WriteOps
    <3> QED BY <3>1 DEF Passes
  <2>2. CASE h # Step("table", Kernel)
    <3>1. Step("table", Kernel) \in Range(r) \/ (tab /\ h.op # "format")
      BY <1>2, <2>2 DEF Installs, NoFormat
    <3> QED BY <3>1 DEF Passes
  <2> QED BY <2>1, <2>2
<1>9. ASSUME NEW f \in {Kernel, Efi} PROVE Step("overwrite", f) \in Range(r) \/ d2[f] # Absent
  <2>1. CASE h = Step("overwrite", f)
    <3>1. h.op = "overwrite" /\ h.file = f /\ h.op \in WriteOps
      <4>1. h.op = "overwrite" /\ h.file = f
        <5> HIDE DEF h
        <5> QED BY <2>1 DEF Step
      <4> QED BY <4>1 DEF WriteOps
    <3>2. PICK x \in Int : d2 = [d EXCEPT ![h.file] = x] /\ (x = v \/ x = Damaged)
      BY <1>6, <3>1 DEF Passes
    <3>3. x # Absent
      BY <1>3, <3>2 DEF Damaged, Absent
    <3> QED BY <1>3, <3>1, <3>2, <3>3
  <2>2. CASE h # Step("overwrite", f)
    <3>1. Step("overwrite", f) \in Range(r) \/ (d[f] # Absent /\ h.op # "format")
      BY <1>2, <2>2 DEF Installs, NoFormat
    <3> QED BY <1>3, <1>7, <3>1
  <2> QED BY <2>1, <2>2
<1>10. Step("root account", Users) \in Range(r) \/ d2[Users] # Absent
  <2>1. CASE h = Step("root account", Users)
    <3>1. h.op = "root account" /\ h.op \notin WriteOps
      <4>1. h.op = "root account"
        <5> HIDE DEF h
        <5> QED BY <2>1 DEF Step
      <4> QED BY <4>1 DEF WriteOps
    <3>2. d2 = [d EXCEPT ![Users] = Own]
      BY <3>1 DEF Passes
    <3> QED BY <1>3, <3>2 DEF Own, Absent
  <2>2. CASE h # Step("root account", Users)
    <3>1. Step("root account", Users) \in Range(r) \/ (d[Users] # Absent /\ h.op # "format")
      BY <1>2, <2>2 DEF Installs, NoFormat
    <3> QED BY <1>3, <1>7, <3>1
  <2> QED BY <2>1, <2>2
<1> QED BY <1>4, <1>5, <1>8, <1>9, <1>10 DEF Installs, r

LEMMA OnCourseStays ==
    ASSUME NEW cmd, NEW t \in Seq(InstStep), t # <<>>, NEW v \in Isos, NEW d \in [Files -> Int], NEW tab \in BOOLEAN,
           NEW m \in Seq(ManifestEntry), NEW b \in BOOLEAN, NEW d2, NEW tab2, NEW m2, NEW b2 \in BOOLEAN,
           Passes(t[1], v, d, tab, m, b, d2, tab2, m2, b2), OnCourse(cmd, t, b, v, d, tab, m)
    PROVE  OnCourse(cmd, Tail(t), b2, v, d2, tab2, m2)
<1>1. KeepsUsers(cmd, Tail(t))
  <2>1. Range(Tail(t)) \subseteq Range(t)
    BY HeadAndTail
  <2> QED BY <2>1 DEF OnCourse, KeepsUsers
<1>2. cmd = "update shell" => Brings(Tail(t), b2, v, d2)
  BY BringsOn DEF OnCourse
<1>3. cmd \in Renewing => Renewed(Tail(t), Must(cmd), d2, m2)
  BY RenewedOn DEF OnCourse
<1>4. cmd = "install" => Installs(Tail(t), d2, tab2)
  BY InstallsOn DEF OnCourse
<1> QED BY <1>1, <1>2, <1>3, <1>4 DEF OnCourse

\* A command that has nothing left to do, and no note, has brought what it
\* promises.
LEMMA Arrived ==
    ASSUME NEW cmd, NEW v, NEW d, NEW tab, NEW m, OnCourse(cmd, <<>>, FALSE, v, d, tab, m)
    PROVE  /\ cmd = "update shell" => \A f \in IsoFiles[v] : ShellIncludes(f) => d[f] = v
           /\ cmd \in Renewing => Holds(m, d)
           /\ cmd = "install" => /\ tab /\ \A f \in {Kernel, Efi, Users} : d[f] # Absent
                                 /\ Holds(m, d) /\ m # <<>>
<1>1. Range(<<>>) = {} /\ Len(<<>>) = 0
  BY DEF Range
<1>2. cmd = "update shell" => \A f \in IsoFiles[v] : ShellIncludes(f) => d[f] = v
  BY <1>1 DEF OnCourse, Brings, Wanted
<1>3. ~Renews(<<>>, Must(cmd))
  BY <1>1 DEF Renews
<1>4. cmd \in Renewing => Holds(m, d) /\ (Must(cmd) # {} => m # <<>>)
  BY <1>1, <1>3 DEF OnCourse, Renewed
<1>5. cmd = "install" => tab /\ (\A f \in {Kernel, Efi, Users} : d[f] # Absent) /\ cmd \in Renewing /\ Must(cmd) # {}
  BY <1>1 DEF OnCourse, Installs, Renewing, Must
<1> QED BY <1>2, <1>4, <1>5

UsersStay ==
    disk'[Users] # disk[Users] => job.cmd = "install" \/ (job.cmd = "repair file" /\ Target = Users)

EndsCurrent ==
    job.cmd # "none" /\ job'.cmd = "none" /\ last' =>
         /\ job.cmd = "update shell" =>
              \A f \in IsoFiles[iso] : ShellIncludes(f) => disk'[f] = iso
         /\ job.cmd \in {"update shell", "install", "repair manifest", "repair file"} => ManifestHolds'
         /\ job.cmd = "install" => Verified'

LEMMA HeadTyped ==
    ASSUME InstInv, job.cmd # "none"
    PROVE  /\ job.todo \in Seq(InstStep) /\ job.todo # <<>>
           /\ Op \in InstOps /\ Target \in Files /\ job.todo[1] \in Range(job.todo)
           /\ job.cmd \in Commands \cup {"repair file"} /\ job.bad \in BOOLEAN
<1>1. job.todo \in Seq(InstStep) /\ job.todo # <<>> /\ job.cmd \in Commands \cup {"repair file"} /\ job.bad \in BOOLEAN
  BY DEF InstInv, InstTyped
<1>2. job.todo[1] \in InstStep /\ job.todo[1] \in Range(job.todo)
  BY <1>1, HeadAndTail
<1> QED BY <1>1, <1>2 DEF Op, Target, InstStep

LEMMA Stops ==
    ASSUME InstInv, job.cmd # "none", Ends(FALSE), iso' = iso, disk' \in [Files -> Int],
           table' \in BOOLEAN, manifest' \in Seq(ManifestEntry)
    PROVE  InstInv' /\ EndsCurrent
<1>1. job' = NoCommand /\ last' = FALSE
  BY DEF Ends
<1>2. job' \in [cmd : Commands \cup {"none", "repair file"}, todo : Seq(InstStep), bad : BOOLEAN] /\ job'.cmd = "none"
  BY <1>1 DEF NoCommand
<1> QED BY <1>1, <1>2 DEF InstInv, InstTyped, EndsCurrent

LEMMA Goes ==
    ASSUME InstInv, job.cmd # "none", iso' = iso, disk' \in [Files -> Int],
           table' \in BOOLEAN, manifest' \in Seq(ManifestEntry), NEW b2 \in BOOLEAN,
           Passes(job.todo[1], iso, disk, table, manifest, job.bad, disk', table', manifest', b2), Advance(b2)
    PROVE  InstInv' /\ EndsCurrent
<1>0. job.todo \in Seq(InstStep) /\ job.todo # <<>> /\ job.bad \in BOOLEAN
  BY HeadTyped
<1>1. OnCourse(job.cmd, Tail(job.todo), b2, iso, disk', table', manifest')
  <2>1. /\ iso \in Isos /\ disk \in [Files -> Int] /\ table \in BOOLEAN /\ manifest \in Seq(ManifestEntry)
        /\ OnCourse(job.cmd, job.todo, job.bad, iso, disk, table, manifest)
    BY DEF InstInv, InstTyped
  <2> QED BY <1>0, <2>1, OnCourseStays
<1>2. Tail(job.todo) \in Seq(InstStep) /\ (Len(job.todo) # 1 => Tail(job.todo) # <<>>) /\ (Len(job.todo) = 1 => Tail(job.todo) = <<>>)
  BY <1>0, HeadAndTail
<1>3. CASE Len(job.todo) = 1
  <2>1. job' = NoCommand /\ last' = ~b2
    BY <1>3 DEF Advance, Ends
  <2>2. job' \in [cmd : Commands \cup {"none", "repair file"}, todo : Seq(InstStep), bad : BOOLEAN] /\ job'.cmd = "none"
    BY <2>1 DEF NoCommand
  <2>3. ASSUME last' PROVE OnCourse(job.cmd, <<>>, FALSE, iso, disk', table', manifest')
    <3>1. b2 = FALSE
      BY <2>1, <2>3
    <3> QED BY <1>1, <1>2, <1>3, <3>1
  <2>4. EndsCurrent
    <3> SUFFICES ASSUME last' PROVE EndsCurrent
      BY DEF EndsCurrent
    <3>1. /\ job.cmd = "update shell" => \A f \in IsoFiles[iso] : ShellIncludes(f) => disk'[f] = iso
          /\ job.cmd \in Renewing => Holds(manifest', disk')
          /\ job.cmd = "install" => /\ table' /\ \A f \in {Kernel, Efi, Users} : disk'[f] # Absent
                                    /\ Holds(manifest', disk') /\ manifest' # <<>>
      <4> DEFINE d == disk'  tab == table'  m == manifest'
      <4>1. OnCourse(job.cmd, <<>>, FALSE, iso, d, tab, m)
        BY <2>3
      <4> HIDE DEF d, tab, m
      <4>2. /\ job.cmd = "update shell" => \A f \in IsoFiles[iso] : ShellIncludes(f) => d[f] = iso
            /\ job.cmd \in Renewing => Holds(m, d)
            /\ job.cmd = "install" => /\ tab /\ \A f \in {Kernel, Efi, Users} : d[f] # Absent
                                      /\ Holds(m, d) /\ m # <<>>
        BY <4>1, Arrived
      <4> QED BY <4>2 DEF d, tab, m
    <3>2. Holds(manifest', disk') => ManifestHolds'
      BY DEF Holds, ManifestHolds
    <3>3. job.cmd = "install" => Verified'
      BY <3>1, <3>2 DEF Verified, BootSectorsValid, RequiredThere
    <3> QED BY <3>1, <3>2, <3>3 DEF EndsCurrent, Renewing
  <2> QED BY <2>2, <2>4 DEF InstInv, InstTyped
<1>4. CASE Len(job.todo) # 1
  <2>1. job' = [job EXCEPT !.todo = Tail(job.todo), !.bad = b2]
    BY <1>4 DEF Advance
  <2>2. job \in [cmd : Commands \cup {"none", "repair file"}, todo : Seq(InstStep), bad : BOOLEAN]
    BY DEF InstInv, InstTyped
  <2>3. /\ job' \in [cmd : Commands \cup {"none", "repair file"}, todo : Seq(InstStep), bad : BOOLEAN]
        /\ job'.cmd = job.cmd /\ job'.todo = Tail(job.todo) /\ job'.bad = b2
    BY <1>2, <2>1, <2>2
  <2>4. InstTyped'
    BY <2>3 DEF InstInv, InstTyped
  <2>5. job'.todo # <<>> /\ OnCourse(job'.cmd, job'.todo, job'.bad, iso', disk', table', manifest')
    BY <1>1, <1>2, <1>4, <2>3
  <2> QED BY <2>3, <2>4, <2>5 DEF InstInv, EndsCurrent
<1> QED BY <1>3, <1>4

LEMMA DoWriteKeeps ==
    ASSUME InstInv, DoWrite
    PROVE  InstInv' /\ EndsCurrent /\ UsersStay
<1>1. PICK damaged \in BOOLEAN :
         /\ disk' = [disk EXCEPT ![Target] = IF damaged THEN Damaged ELSE iso]
         /\ Advance(job.bad \/ (damaged /\ NoticesDamage(Op)))
  BY DEF DoWrite
<1>2. job.cmd # "none" /\ Op \in WriteOps /\ iso' = iso /\ table' = table /\ manifest' = manifest
  BY DEF DoWrite
<1>3. /\ Target \in Files /\ job.bad \in BOOLEAN /\ job.todo[1] \in Range(job.todo)
      /\ iso \in Isos /\ disk \in [Files -> Int] /\ table \in BOOLEAN /\ manifest \in Seq(ManifestEntry)
      /\ OnCourse(job.cmd, job.todo, job.bad, iso, disk, table, manifest)
  BY <1>2, HeadTyped DEF InstInv, InstTyped
<1> DEFINE x == IF damaged THEN Damaged ELSE iso
           b2 == job.bad \/ (damaged /\ NoticesDamage(Op))
<1>4. x \in Int
  BY <1>3, InstallerAssumption, LenProperties DEF Damaged, Isos
<1>5. b2 \in BOOLEAN
  BY <1>3 DEF NoticesDamage
<1>6. disk' \in [Files -> Int]
  BY <1>1, <1>3, <1>4
<1>7. Passes(job.todo[1], iso, disk, table, manifest, job.bad, disk', table', manifest', b2)
  <2>1. disk' = [disk EXCEPT ![job.todo[1].file] = x]
    BY <1>1 DEF Target
  <2>2. x = iso \/ (x = Damaged /\ (NoticesDamage(job.todo[1].op) => b2))
    BY DEF Op
  <2>3. job.bad => b2
    OBVIOUS
  <2> HIDE DEF x, b2
  <2> QED BY <1>2, <1>4, <2>1, <2>2, <2>3 DEF Passes, Op
<1>8. InstInv' /\ EndsCurrent
  <2> HIDE DEF x
  <2>1. Advance(b2)
    BY <1>1
  <2> HIDE DEF b2
  <2> QED BY <1>2, <1>3, <1>5, <1>6, <1>7, <2>1, Goes
<1>9. UsersStay
  <2> SUFFICES ASSUME disk'[Users] # disk[Users] PROVE UsersStay
    BY DEF UsersStay
  <2>1. Target = Users
    BY <1>1, <1>3, ScanNames
  <2> QED BY <1>2, <1>3, <2>1 DEF UsersStay, OnCourse, KeepsUsers, Target, Op
<1> QED BY <1>8, <1>9

LEMMA ContentsAreIntegers == Damaged \in Int /\ Absent \in Int /\ Own \in Int
BY DEF Damaged, Absent, Own

LEMMA FailWriteKeeps ==
    ASSUME InstInv, FailWrite
    PROVE  InstInv' /\ EndsCurrent /\ UsersStay
<1>1. PICK left \in {disk[Target], Damaged} \cup (IF Op \in {"copy", "copy whole"} THEN {Absent} ELSE {}) :
         /\ disk' = [disk EXCEPT ![Target] = left]
         /\ IF Op = "checked" /\ left # iso THEN Advance(TRUE) ELSE Ends(FALSE)
  BY DEF FailWrite
<1>2. job.cmd # "none" /\ Op \in WriteOps /\ iso' = iso /\ table' = table /\ manifest' = manifest
  BY DEF FailWrite
<1>3. /\ Target \in Files /\ job.bad \in BOOLEAN /\ job.todo[1] \in Range(job.todo)
      /\ iso \in Isos /\ disk \in [Files -> Int] /\ table \in BOOLEAN /\ manifest \in Seq(ManifestEntry)
      /\ OnCourse(job.cmd, job.todo, job.bad, iso, disk, table, manifest)
  BY <1>2, HeadTyped DEF InstInv, InstTyped
<1>4. left \in Int
  <2>1. disk[Target] \in Int
    BY <1>3
  <2> QED BY <1>1, <2>1, ContentsAreIntegers
<1>6. disk' \in [Files -> Int]
  BY <1>1, <1>3, <1>4
<1>7. UsersStay
  <2> SUFFICES ASSUME disk'[Users] # disk[Users] PROVE UsersStay
    BY DEF UsersStay
  <2>1. Target = Users
    BY <1>1, <1>3, ScanNames
  <2> QED BY <1>2, <1>3, <2>1 DEF UsersStay, OnCourse, KeepsUsers, Target, Op
<1>8. CASE Op = "checked" /\ left # iso
  <2>1. Passes(job.todo[1], iso, disk, table, manifest, job.bad, disk', table', manifest', TRUE)
    BY <1>1, <1>2, <1>4, <1>8 DEF Passes, Op, Target
  <2>2. Advance(TRUE)
    BY <1>1, <1>8
  <2>3. InstInv' /\ EndsCurrent
    BY <1>2, <1>3, <1>6, <2>1, <2>2, Goes
  <2> QED BY <1>7, <2>3
<1>9. CASE ~(Op = "checked" /\ left # iso)
  <2>1. Ends(FALSE) /\ table' \in BOOLEAN /\ manifest' \in Seq(ManifestEntry)
    BY <1>1, <1>2, <1>3, <1>9
  <2>2. InstInv' /\ EndsCurrent
    BY <1>2, <1>6, <2>1, Stops
  <2> QED BY <1>7, <2>2
<1> QED BY <1>8, <1>9

LEMMA DoStepKeeps ==
    ASSUME InstInv, DoStep
    PROVE  InstInv' /\ EndsCurrent /\ UsersStay
<1>1. job.cmd # "none" /\ Op \notin WriteOps /\ iso' = iso
  BY DEF DoStep
<1>2. /\ Op \in InstOps /\ Target \in Files /\ job.bad \in BOOLEAN /\ job.todo[1] \in Range(job.todo)
      /\ iso \in Isos /\ disk \in [Files -> Int] /\ table \in BOOLEAN /\ manifest \in Seq(ManifestEntry)
      /\ OnCourse(job.cmd, job.todo, job.bad, iso, disk, table, manifest)
  BY <1>1, HeadTyped DEF InstInv, InstTyped
<1>3. disk' = CASE Op = "format" -> [f \in Files |-> Absent]
                [] Op = "delete" -> [disk EXCEPT ![Target] = Absent]
                [] Op = "root account" -> [disk EXCEPT ![Users] = Own]
                [] OTHER -> disk
  BY DEF DoStep
<1>4. disk' \in [Files -> Int]
  <2>1. Absent \in Int /\ Own \in Int
    BY DEF Absent, Own
  <2>2. /\ [f \in Files |-> Absent] \in [Files -> Int]
        /\ [disk EXCEPT ![Target] = Absent] \in [Files -> Int]
        /\ [disk EXCEPT ![Users] = Own] \in [Files -> Int]
    BY <1>2, <2>1
  <2>3. CASE Op = "format"
    BY <1>3, <2>2, <2>3
  <2>4. CASE Op = "delete"
    BY <1>3, <2>2, <2>4
  <2>5. CASE Op = "root account"
    BY <1>3, <2>2, <2>5
  <2>6. CASE Op \notin {"format", "delete", "root account"}
    BY <1>2, <1>3, <2>6
  <2> QED BY <2>3, <2>4, <2>5, <2>6
<1>5. table' = (Op = "table" \/ (table /\ Op # "format")) /\ table' \in BOOLEAN
  BY DEF DoStep
<1>6. manifest' = CASE Op = "format" -> NoManifest
                     [] Op = "create manifest" -> <<>>
                     [] Op = "entry" -> Append(manifest, [path |-> Target, hash |-> disk[Target]])
                     [] OTHER -> manifest
  BY DEF DoStep
<1>7. manifest' \in Seq(ManifestEntry)
  <2>1. NoManifest \in Seq(ManifestEntry)
    <3>1. [path |-> "none", hash |-> Absent] \in ManifestEntry
      BY DEF ManifestEntry, Absent
    <3> QED BY <3>1 DEF NoManifest
  <2>2. [path |-> Target, hash |-> disk[Target]] \in ManifestEntry
    <3>1. disk[Target] \in Int
      BY <1>2
    <3> QED BY <1>2, <3>1 DEF ManifestEntry
  <2>3. Append(manifest, [path |-> Target, hash |-> disk[Target]]) \in Seq(ManifestEntry)
    BY <1>2, <2>2
  <2>4. <<>> \in Seq(ManifestEntry)
    OBVIOUS
  <2>5. CASE Op = "format"
    BY <1>6, <2>1, <2>5
  <2>6. CASE Op = "create manifest"
    BY <1>6, <2>4, <2>6
  <2>7. CASE Op = "entry"
    BY <1>6, <2>3, <2>7
  <2>8. CASE Op \notin {"format", "create manifest", "entry"}
    BY <1>2, <1>6, <2>8
  <2> QED BY <2>5, <2>6, <2>7, <2>8
<1>10. UsersStay
  <2> SUFFICES ASSUME disk'[Users] # disk[Users] PROVE UsersStay
    BY DEF UsersStay
  <2>1. Op \in {"format", "root account"} \/ (Op = "delete" /\ Target = Users)
    BY <1>2, <1>3, ScanNames
  <2> QED BY <1>2, <2>1 DEF UsersStay, OnCourse, KeepsUsers, Target, Op
<1>8. CASE (Op = "verified?" /\ job.bad) \/ (Op = "entry" /\ disk[Target] = Absent)
  <2>1. Ends(FALSE)
    BY <1>8 DEF DoStep
  <2>2. InstInv' /\ EndsCurrent
    BY <1>1, <1>4, <1>5, <1>7, <2>1, Stops
  <2> QED BY <1>10, <2>2
<1>9. CASE ~((Op = "verified?" /\ job.bad) \/ (Op = "entry" /\ disk[Target] = Absent))
  <2>1. Advance(job.bad)
    BY <1>9 DEF DoStep
  <2>2. Passes(job.todo[1], iso, disk, table, manifest, job.bad, disk', table', manifest', job.bad)
    BY <1>1, <1>3, <1>5, <1>6, <1>9 DEF Passes, Op, Target
  <2>3. InstInv' /\ EndsCurrent
    BY <1>1, <1>2, <1>4, <1>5, <1>7, <2>1, <2>2, Goes
  <2> QED BY <1>10, <2>3
<1> QED BY <1>8, <1>9

LEMMA FailStepKeeps ==
    ASSUME InstInv, FailStep
    PROVE  InstInv' /\ EndsCurrent /\ UsersStay
<1>1. job.cmd # "none" /\ iso' = iso /\ disk' = disk /\ table' = table /\ Ends(FALSE)
  BY DEF FailStep
<1>2. disk \in [Files -> Int] /\ table \in BOOLEAN /\ manifest \in Seq(ManifestEntry)
  BY DEF InstInv, InstTyped
<1>3. manifest' \in Seq(ManifestEntry)
  <2>1. NoManifest \in Seq(ManifestEntry)
    <3>1. [path |-> "none", hash |-> Absent] \in ManifestEntry
      BY DEF ManifestEntry, Absent
    <3> QED BY <3>1 DEF NoManifest
  <2>2. manifest' \in {manifest, NoManifest}
    BY DEF FailStep
  <2> QED BY <1>2, <2>1, <2>2
<1>4. InstInv' /\ EndsCurrent
  BY <1>1, <1>2, <1>3, Stops
<1> QED BY <1>1, <1>4 DEF UsersStay

LEMMA PowerLossKeeps ==
    ASSUME InstInv, PowerLoss
    PROVE  InstInv' /\ EndsCurrent /\ UsersStay
<1>1. job.cmd # "none" /\ iso' = iso /\ table' = table /\ manifest' = manifest /\ Ends(FALSE)
  BY DEF PowerLoss
<1>2. /\ disk \in [Files -> Int] /\ table \in BOOLEAN /\ manifest \in Seq(ManifestEntry)
      /\ Target \in Files /\ job.todo[1] \in Range(job.todo)
      /\ OnCourse(job.cmd, job.todo, job.bad, iso, disk, table, manifest)
  BY <1>1, HeadTyped DEF InstInv, InstTyped
<1>3. disk' = disk \/ (Op \in WriteOps /\ disk' = [disk EXCEPT ![Target] = Damaged])
  BY DEF PowerLoss
<1>4. disk' \in [Files -> Int]
  BY <1>2, <1>3 DEF Damaged
<1>5. InstInv' /\ EndsCurrent
  BY <1>1, <1>2, <1>4, Stops
<1>6. UsersStay
  <2> SUFFICES ASSUME disk'[Users] # disk[Users] PROVE UsersStay
    BY DEF UsersStay
  <2>1. Target = Users /\ Op \in WriteOps
    BY <1>2, <1>3, ScanNames
  <2> QED BY <1>2, <2>1 DEF UsersStay, OnCourse, KeepsUsers, Target, Op
<1> QED BY <1>5, <1>6

LEMMA BootIsoKeeps ==
    ASSUME InstInv, BootIso
    PROVE  InstInv' /\ EndsCurrent /\ UsersStay
<1>1. job.cmd = "none" /\ iso' \in Isos /\ UNCHANGED <<disk, table, manifest, job, last, faults>>
  BY DEF BootIso
<1>2. InstInv'
  BY <1>1 DEF InstInv, InstTyped
<1> QED BY <1>1, <1>2 DEF EndsCurrent, UsersStay

(***************************************************************************)
(* The plans of the commands.                                              *)
(***************************************************************************)

LEMMA FilesOfIso ==
    ASSUME iso \in Isos
    PROVE  IsoFiles[iso] \subseteq Files
BY InstallerAssumption, ElementOfSeq, LenProperties DEF Isos

\* What the ISO has to bring to a shell update.
LEMMA NewEntriesAre ==
    ASSUME iso \in Isos
    PROVE  /\ NewEntries \in Seq([path : Files, hash : {iso}])
           /\ Range(NewEntries) = {[path |-> f, hash |-> iso] : f \in Wanted(iso)}
           /\ Listed(NewEntries) = Wanted(iso)
<1> DEFINE kept == InOrder(Scan, {f \in IsoFiles[iso] : ShellIncludes(f)})
           e(i) == [path |-> kept[i], hash |-> iso]
<1>1. kept \in Seq(Files) /\ Range(kept) = Wanted(iso)
  <2>1. kept \in Seq(Files) /\ Range(kept) = Range(Scan) \cap {f \in IsoFiles[iso] : ShellIncludes(f)}
    BY ScanNames, InOrderKeeps
  <2>2. Range(Scan) = Files /\ IsoFiles[iso] \subseteq Files
    BY FilesOfIso DEF Files
  <2> HIDE DEF kept
  <2> QED BY <2>1, <2>2 DEF Wanted
<1>2. NewEntries = [i \in 1..Len(kept) |-> e(i)]
  BY DEF NewEntries
<1> HIDE DEF kept
<1>3. Len(kept) \in Nat /\ DOMAIN kept = 1..Len(kept) /\ \A i \in 1..Len(kept) : kept[i] \in Files
  BY <1>1, LenProperties, ElementOfSeq
<1>4. NewEntries \in Seq([path : Files, hash : {iso}])
  <2>1. \A i \in 1..Len(kept) : e(i) \in [path : Files, hash : {iso}]
    BY <1>3
  <2> HIDE DEF e
  <2> QED BY <1>2, <1>3, <2>1, IsASeq
<1>5. Len(NewEntries) = Len(kept) /\ DOMAIN NewEntries = 1..Len(kept)
  BY <1>2, <1>3, <1>4, LenProperties
<1>6. \A i \in 1..Len(kept) : NewEntries[i] = [path |-> kept[i], hash |-> iso]
  BY <1>2
<1>7. Range(NewEntries) = {[path |-> f, hash |-> iso] : f \in Range(kept)}
  BY <1>3, <1>5, <1>6 DEF Range
<1>8. Listed(NewEntries) = Range(kept)
  BY <1>3, <1>5, <1>6 DEF Listed, Range
<1> QED BY <1>1, <1>4, <1>7, <1>8

\* The steps of one kind on the files of a set, in the order of the scan.
LEMMA ScannedSteps ==
    ASSUME NEW op \in InstOps, NEW kept
    PROVE  /\ Steps(op, InOrder(Scan, kept)) \in Seq(InstStep)
           /\ Range(Steps(op, InOrder(Scan, kept))) = {Step(op, f) : f \in Files \cap kept}
<1>1. InOrder(Scan, kept) \in Seq(Files) /\ Range(InOrder(Scan, kept)) = Files \cap kept
  BY ScanNames, InOrderKeeps DEF Files
<1>2. /\ Steps(op, InOrder(Scan, kept)) \in Seq(InstStep)
      /\ Range(Steps(op, InOrder(Scan, kept))) = {Step(op, f) : f \in Range(InOrder(Scan, kept))}
  BY <1>1, StepsTyped
<1> QED BY <1>1, <1>2

LEMMA AreEntries ==
    ASSUME NEW kept
    PROVE  /\ Steps("entry", InOrder(Scan, kept)) \in Seq(InstStep)
           /\ Entries(Steps("entry", InOrder(Scan, kept)))
<1>1. /\ Steps("entry", InOrder(Scan, kept)) \in Seq(InstStep)
      /\ Range(Steps("entry", InOrder(Scan, kept))) = {Step("entry", f) : f \in Files \cap kept}
  BY ScannedSteps DEF InstOps
<1> QED BY <1>1 DEF Entries, Step

LEMMA StepsOp == \A op, f : Step(op, f).op = op /\ Step(op, f).file = f
BY DEF Step

LEMMA RenewsSome ==
    ASSUME NEW t, NEW fs, Renews(t, fs)
    PROVE  t # <<>>
<1> SUFFICES ASSUME t = <<>> PROVE FALSE
  OBVIOUS
<1>1. PICK k \in 1..Len(t) : t[k].op = "create manifest"
  BY DEF Renews
<1>2. 1..Len(t) = {}
  OBVIOUS
<1> QED BY <1>1, <1>2

\* A manifest is generated.
LEMMA GenerateRenews ==
    ASSUME NEW will, NEW fs \in SUBSET Files, \A f \in fs : f \in will /\ ManifestIncludes(f)
    PROVE  /\ Generate(will) \in Seq(InstStep) /\ Generate(will) # <<>> /\ Renews(Generate(will), fs)
           /\ \A s \in Range(Generate(will)) : s.op \in {"create manifest", "entry"}
<1> DEFINE a == <<Step("create manifest", Kernel)>>
           kept == {f \in will : ManifestIncludes(f)}
           b == Steps("entry", InOrder(Scan, kept))
<1>1. b \in Seq(InstStep) /\ Range(b) = {Step("entry", f) : f \in Files \cap kept} /\ Entries(b)
  BY ScannedSteps, AreEntries DEF InstOps
<1>2. a \in Seq(InstStep) /\ Range(a) = {Step("create manifest", Kernel)}
  BY OneStep, ScanNames DEF InstOps
<1>3. \A f \in fs : Step("entry", f) \in Range(b)
  BY <1>1
<1>4. Generate(will) = a \o b
  BY DEF Generate
<1> HIDE DEF b
<1>5. Renews(a \o b, fs)
  BY <1>1, <1>3, RenewsFrom
<1> HIDE DEF a
<1>6. a \o b \in Seq(InstStep) /\ Range(a \o b) = Range(a) \cup Range(b)
  BY <1>1, <1>2, Joined
<1>7. a \o b # <<>>
  BY <1>5, RenewsSome
<1>8. \A s \in Range(a \o b) : s.op \in {"create manifest", "entry"}
  BY <1>1, <1>2, <1>6, StepsOp DEF Entries
<1> QED BY <1>4, <1>5, <1>6, <1>7, <1>8

LEMMA ShellLeaves == \A f \in Files : ShellIncludes(f) => f # Users /\ f # Release
BY DEF ShellIncludes, ManifestIncludes

\* install_update_shell_refresh_manifest.
LEMMA RefreshRenews ==
    ASSUME iso \in Isos, NEW old
    PROVE  /\ Refresh(old) \in Seq(InstStep) /\ Renews(Refresh(old), {})
           /\ \A s \in Range(Refresh(old)) : s.op \in {"create manifest", "entry"}
<1> DEFINE a == <<Step("create manifest", Kernel)>>
           b == Steps("entry", InOrder(Scan, {f \in Listed(old) \cap OnDisk : ~ShellIncludes(f) /\ ManifestIncludes(f)}))
           c == Steps("entry", InOrder(Scan, Listed(NewEntries)))
<1>1. b \in Seq(InstStep) /\ Entries(b) /\ c \in Seq(InstStep) /\ Entries(c)
  BY AreEntries
<1>2. a \in Seq(InstStep) /\ Range(a) = {Step("create manifest", Kernel)}
  BY OneStep, ScanNames DEF InstOps
<1>3. Refresh(old) = (a \o b) \o c
  BY DEF Refresh
<1> HIDE DEF b, c
<1>4. b \o c \in Seq(InstStep) /\ Range(b \o c) = Range(b) \cup Range(c)
  BY <1>1, Joined
<1>5. Entries(b \o c)
  BY <1>1, <1>4 DEF Entries
<1>6. PICK e \in Seq(InstStep) : e = b \o c /\ Entries(e)
  BY <1>4, <1>5
<1>7. Renews(a \o e, {})
  <2> DEFINE none == {}
  <2>1. \A f \in none : Step("entry", f) \in Range(e)
    OBVIOUS
  <2> HIDE DEF none
  <2>2. Renews(<<Step("create manifest", Kernel)>> \o e, none)
    BY <1>6, <2>1, RenewsFrom
  <2> QED BY <2>2 DEF none
<1> HIDE DEF a
<1>8. (a \o b) \o c = a \o e
  <2>1. a \in Seq(InstStep) /\ b \in Seq(InstStep) /\ c \in Seq(InstStep)
    BY <1>1, <1>2
  <2>2. (a \o b) \o c = a \o (b \o c)
    BY <2>1, ConcatAssociative
  <2>3. e = b \o c
    BY <1>6
  <2> QED BY <2>2, <2>3
<1>9. a \o e \in Seq(InstStep) /\ Range(a \o e) = Range(a) \cup Range(e)
  <2>1. a \in Seq(InstStep)
    BY <1>2
  <2> QED BY <2>1, Joined
<1>10. \A s \in Range(a \o e) : s.op \in {"create manifest", "entry"}
  BY <1>2, <1>6, <1>9, StepsOp DEF Entries
<1> QED BY <1>3, <1>7, <1>8, <1>9, <1>10

LEMMA NamesDiffer == Users \notin {Kernel, Efi, Release}
BY DEF Users, Kernel, Efi, Release

LEMMA BootFilesAre ==
    BootFiles \in Seq(InstStep) /\ Range(BootFiles) = {Step("overwrite", f) : f \in {Kernel, Efi}}
<1> DEFINE fs == <<Kernel, Efi>>
<1>1. fs \in Seq(Files)
  BY ScanNames
<1>2. Range(fs) = {Kernel, Efi}
  <2>1. DOMAIN fs = {1, 2}
    OBVIOUS
  <2> QED BY <2>1 DEF Range
<1>3. BootFiles = Steps("overwrite", fs)
  BY DEF BootFiles
<1> HIDE DEF fs
<1>4. Steps("overwrite", fs) \in Seq(InstStep) /\ Range(Steps("overwrite", fs)) = {Step("overwrite", f) : f \in Range(fs)}
  BY <1>1, StepsTyped DEF InstOps, WriteOps
<1> QED BY <1>2, <1>3, <1>4

\* The plans of one step.
LEMMA SingleSteps ==
    /\ OsMetadata \in Seq(InstStep) /\ Range(OsMetadata) = {Step("overwrite", Release)}
    /\ Table \in Seq(InstStep) /\ Range(Table) = {Step("table", Kernel)}
    /\ RootAccount \in Seq(InstStep) /\ Range(RootAccount) = {Step("root account", Users)}
    /\ StateFiles \in Seq(InstStep) /\ Range(StateFiles) = {Step("state", Kernel)}
BY OneStep, ScanNames DEF OsMetadata, Table, RootAccount, StateFiles, InstOps, WriteOps

LEMMA UpdateKernelStarts ==
    ASSUME NEW v, NEW d, NEW tab, NEW m
    PROVE  /\ UpdateKernel \in Seq(InstStep) /\ UpdateKernel # <<>>
           /\ OnCourse("update kernel", UpdateKernel, FALSE, v, d, tab, m)
<1> DEFINE a == <<Step("checked", Kernel)>>
           c == <<Step("checked", Efi)>>
           e == <<Step("verified?", Kernel)>>
<1>1. /\ a \in Seq(InstStep) /\ Range(a) = {Step("checked", Kernel)}
      /\ c \in Seq(InstStep) /\ Range(c) = {Step("checked", Efi)}
      /\ e \in Seq(InstStep) /\ Range(e) = {Step("verified?", Kernel)}
  BY OneStep, ScanNames DEF InstOps, WriteOps
<1>2. UpdateKernel = (((a \o OsMetadata) \o c) \o Table) \o e
  BY DEF UpdateKernel
<1> HIDE DEF a, c, e
<1>3. a \o OsMetadata \in Seq(InstStep) /\ Range(a \o OsMetadata) = Range(a) \cup Range(OsMetadata)
  <2>1. a \in Seq(InstStep) /\ OsMetadata \in Seq(InstStep)
    BY <1>1, SingleSteps
  <2> QED BY <2>1, PlansJoined
<1>4. PICK p \in Seq(InstStep) : p = (a \o OsMetadata) \o c /\ Range(p) = Range(a) \cup Range(OsMetadata) \cup Range(c)
  <2> DEFINE x == a \o OsMetadata
  <2>1. x \in Seq(InstStep) /\ c \in Seq(InstStep) /\ Range(x) = Range(a) \cup Range(OsMetadata)
    BY <1>1, <1>3
  <2> HIDE DEF x
  <2>2. x \o c \in Seq(InstStep) /\ Range(x \o c) = Range(x) \cup Range(c)
    BY <2>1, PlansJoined
  <2> QED BY <2>1, <2>2 DEF x
<1>5. PICK q \in Seq(InstStep) : q = p \o Table /\ Range(q) = Range(p) \cup Range(Table)
  <2>1. Table \in Seq(InstStep)
    BY SingleSteps
  <2>2. p \o Table \in Seq(InstStep) /\ Range(p \o Table) = Range(p) \cup Range(Table)
    BY <2>1, PlansJoined
  <2> QED BY <2>2
<1>6. q \o e \in Seq(InstStep) /\ Range(q \o e) = Range(q) \cup Range(e)
  BY <1>1, Joined
<1>7. UpdateKernel = q \o e
  BY <1>2, <1>4, <1>5
<1>8. Range(UpdateKernel) = {Step("checked", Kernel), Step("overwrite", Release), Step("checked", Efi),
                             Step("table", Kernel), Step("verified?", Kernel)}
  BY <1>1, <1>4, <1>5, <1>6, <1>7, SingleSteps
<1>9. UpdateKernel # <<>>
  <2>1. Range(<<>>) = {}
    BY DEF Range
  <2> QED BY <1>8, <2>1
<1>10. KeepsUsers("update kernel", UpdateKernel)
  <2> SUFFICES ASSUME NEW s \in Range(UpdateKernel)
               PROVE  s.op \notin {"format", "root account"} /\ s.file # Users
    BY DEF KeepsUsers
  <2>1. PICK op \in {"checked", "overwrite", "table", "verified?"}, f \in {Kernel, Efi, Release} : s = Step(op, f)
    BY <1>8
  <2>2. s.op \notin {"format", "root account"} /\ s.file \in {Kernel, Efi, Release}
    <3>1. s.op = op /\ s.file = f
      BY <2>1, StepsOp
    <3> QED BY <3>1
  <2> QED BY <2>2, NamesDiffer
<1>11. OnCourse("update kernel", UpdateKernel, FALSE, v, d, tab, m)
  BY <1>10 DEF OnCourse, Renewing
<1> QED BY <1>6, <1>7, <1>9, <1>11

LEMMA RepairBootStarts ==
    ASSUME NEW v, NEW d, NEW tab, NEW m
    PROVE  /\ RepairBoot \in Seq(InstStep) /\ RepairBoot # <<>>
           /\ OnCourse("repair bootloader", RepairBoot, FALSE, v, d, tab, m)
<1>1. RepairBoot \in Seq(InstStep) /\ Range(RepairBoot) = Range(BootFiles) \cup Range(Table)
  <2>1. BootFiles \in Seq(InstStep) /\ Table \in Seq(InstStep)
    BY BootFilesAre, SingleSteps
  <2> QED BY <2>1, PlansJoined DEF RepairBoot
<1>2. Range(RepairBoot) = {Step("overwrite", Kernel), Step("overwrite", Efi), Step("table", Kernel)}
  BY <1>1, BootFilesAre, SingleSteps
<1>3. RepairBoot # <<>>
  <2>1. Range(<<>>) = {}
    BY DEF Range
  <2> QED BY <1>2, <2>1
<1>4. KeepsUsers("repair bootloader", RepairBoot)
  <2> SUFFICES ASSUME NEW s \in Range(RepairBoot)
               PROVE  s.op \notin {"format", "root account"} /\ s.file # Users
    BY DEF KeepsUsers
  <2>1. PICK op \in {"overwrite", "table"}, f \in {Kernel, Efi, Release} : s = Step(op, f)
    BY <1>2
  <2>2. s.op \notin {"format", "root account"} /\ s.file \in {Kernel, Efi, Release}
    <3>1. s.op = op /\ s.file = f
      BY <2>1, StepsOp
    <3> QED BY <3>1
  <2> QED BY <2>2, NamesDiffer
<1>5. OnCourse("repair bootloader", RepairBoot, FALSE, v, d, tab, m)
  BY <1>4 DEF OnCourse, Renewing
<1> QED BY <1>1, <1>3, <1>5

LEMMA RepairManifestStarts ==
    ASSUME NEW v, NEW d, NEW tab, NEW m
    PROVE  /\ RepairManifest \in Seq(InstStep) /\ RepairManifest # <<>>
           /\ OnCourse("repair manifest", RepairManifest, FALSE, v, d, tab, m)
<1> DEFINE none == {}
<1>1. none \in SUBSET Files /\ \A f \in none : f \in OnDisk /\ ManifestIncludes(f)
  OBVIOUS
<1> HIDE DEF none
<1>2. /\ RepairManifest \in Seq(InstStep) /\ RepairManifest # <<>> /\ Renews(RepairManifest, none)
      /\ \A s \in Range(RepairManifest) : s.op \in {"create manifest", "entry"}
  BY <1>1, GenerateRenews DEF RepairManifest
<1>3. KeepsUsers("repair manifest", RepairManifest)
  BY <1>2 DEF KeepsUsers, WriteOps
<1>4. Renewed(RepairManifest, Must("repair manifest"), d, m)
  BY <1>2 DEF Renewed, Must, none
<1>5. OnCourse("repair manifest", RepairManifest, FALSE, v, d, tab, m)
  BY <1>3, <1>4 DEF OnCourse
<1> QED BY <1>2, <1>5

LEMMA RepairFileStarts ==
    ASSUME NEW f \in Files, NEW v, NEW d, NEW tab, NEW m
    PROVE  /\ RepairFile(f) \in Seq(InstStep) /\ RepairFile(f) # <<>>
           /\ OnCourse("repair file", RepairFile(f), FALSE, v, d, tab, m)
<1> DEFINE none == {}
           a == <<Step("overwrite", f)>>
           b == Generate(OnDisk \cup {f})
<1>0. none \in SUBSET Files /\ \A x \in none : x \in OnDisk \cup {f} /\ ManifestIncludes(x)
  OBVIOUS
<1>1. a \in Seq(InstStep) /\ Range(a) = {Step("overwrite", f)}
  BY OneStep DEF InstOps, WriteOps
<1>2. RepairFile(f) = a \o b
  BY DEF RepairFile
<1> HIDE DEF none, a
<1>3. /\ b \in Seq(InstStep) /\ Renews(b, none)
      /\ \A s \in Range(b) : s.op \in {"create manifest", "entry"}
  BY <1>0, GenerateRenews
<1> HIDE DEF b
<1>4. a \o b \in Seq(InstStep) /\ Range(a \o b) = Range(a) \cup Range(b) /\ Renews(a \o b, none)
  BY <1>1, <1>3, Joined, RenewsAfter
<1>5. a \o b # <<>>
  BY <1>4, RenewsSome
<1>6. KeepsUsers("repair file", a \o b)
  <2>1. \A s \in Range(a \o b) : s.op \in {"overwrite", "create manifest", "entry"}
    BY <1>1, <1>3, <1>4, StepsOp
  <2> QED BY <2>1 DEF KeepsUsers
<1>7. Renewed(a \o b, Must("repair file"), d, m)
  BY <1>4 DEF Renewed, Must, none
<1>8. OnCourse("repair file", a \o b, FALSE, v, d, tab, m)
  BY <1>6, <1>7 DEF OnCourse
<1> QED BY <1>2, <1>4, <1>5, <1>8

LEMMA InstallStarts ==
    ASSUME iso \in Isos, NEW d, NEW tab, NEW m
    PROVE  /\ Install \in Seq(InstStep) /\ Install # <<>>
           /\ OnCourse("install", Install, FALSE, iso, d, tab, m)
<1> DEFINE fs == ShellFiles \o <<Installer, Release, Users>>
           a == <<Step("format", Kernel)>>
           c == CopyTree(fs)
           g == Generate(IsoFiles[iso] \cup {Kernel, Efi})
<1>1. fs \in Seq(Files)
  <2>1. <<Installer, Release, Users>> \in Seq(Files)
    BY ScanNames
  <2>2. ShellFiles \in Seq(Files)
    BY ShellFilesAreFiles
  <2> QED BY <2>1, <2>2, ConcatProperties
<1>2. Install = a \o ((((c \o BootFiles) \o RootAccount) \o Table) \o g)
  BY DEF Install
<1> HIDE DEF fs
<1>3. c \in Seq(InstStep) /\ \A s \in Range(c) : s.op = "copy whole"
  <2>1. InOrder(fs, IsoFiles[iso]) \in Seq(Files)
    BY <1>1, InOrderKeeps
  <2>2. /\ Steps("copy whole", InOrder(fs, IsoFiles[iso])) \in Seq(InstStep)
        /\ Range(Steps("copy whole", InOrder(fs, IsoFiles[iso]))) = {Step("copy whole", f) : f \in Range(InOrder(fs, IsoFiles[iso]))}
    BY <2>1, StepsTyped DEF InstOps, WriteOps
  <2> QED BY <2>2, StepsOp DEF CopyTree
<1>4. /\ g \in Seq(InstStep) /\ Renews(g, {Kernel})
      /\ \A s \in Range(g) : s.op \in {"create manifest", "entry"}
  <2> DEFINE must == {Kernel}
             will == IsoFiles[iso] \cup {Kernel, Efi}
  <2>1. must \in SUBSET Files /\ \A f \in must : f \in will /\ ManifestIncludes(f)
    BY ScanNames DEF ManifestIncludes, Kernel, Release, Users
  <2> HIDE DEF must, will
  <2>2. /\ Generate(will) \in Seq(InstStep) /\ Renews(Generate(will), must)
        /\ \A s \in Range(Generate(will)) : s.op \in {"create manifest", "entry"}
    BY <2>1, GenerateRenews
  <2> QED BY <2>2 DEF must, will
<1>5. a \in Seq(InstStep) /\ Range(a) = {Step("format", Kernel)} /\ Len(a) = 1
  BY OneStep, ScanNames DEF InstOps
<1> HIDE DEF a, c, g
<1>6. PICK p \in Seq(InstStep) : p = c \o BootFiles /\ Range(p) = Range(c) \cup Range(BootFiles)
  BY <1>3, BootFilesAre, Joined
<1>7. PICK q \in Seq(InstStep) : q = p \o RootAccount /\ Range(q) = Range(p) \cup Range(RootAccount)
  <2>1. RootAccount \in Seq(InstStep)
    BY SingleSteps
  <2>2. p \o RootAccount \in Seq(InstStep) /\ Range(p \o RootAccount) = Range(p) \cup Range(RootAccount)
    BY <2>1, PlansJoined
  <2> QED BY <2>2
<1>8. PICK r \in Seq(InstStep) : r = q \o Table /\ Range(r) = Range(q) \cup Range(Table)
  <2>1. Table \in Seq(InstStep)
    BY SingleSteps
  <2>2. q \o Table \in Seq(InstStep) /\ Range(q \o Table) = Range(q) \cup Range(Table)
    BY <2>1, PlansJoined
  <2> QED BY <2>2
<1>9. PICK u \in Seq(InstStep) : u = r \o g /\ Range(u) = Range(r) \cup Range(g) /\ Renews(u, {Kernel})
  <2>1. r \o g \in Seq(InstStep) /\ Range(r \o g) = Range(r) \cup Range(g)
    BY <1>4, Joined
  <2>2. Renews(r \o g, {Kernel})
    BY <1>4, RenewsAfter
  <2> QED BY <2>1, <2>2
<1>10. PICK t \in Seq(InstStep) : t = a \o u /\ Range(t) = Range(a) \cup Range(u) /\ Renews(t, {Kernel})
  <2>1. a \o u \in Seq(InstStep) /\ Range(a \o u) = Range(a) \cup Range(u)
    BY <1>5, Joined
  <2>2. Renews(a \o u, {Kernel})
    BY <1>5, <1>9, RenewsAfter
  <2> QED BY <2>1, <2>2
<1>11. Install = t
  BY <1>2, <1>6, <1>7, <1>8, <1>9, <1>10
<1>12. \A s \in Range(u) : s.op \in InstallOps \ {"format"}
  <2>1. \A s \in Range(c) \cup Range(g) : s.op \in InstallOps \ {"format"}
    BY <1>3, <1>4 DEF InstallOps
  <2>2. \A s \in Range(BootFiles) \cup Range(RootAccount) \cup Range(Table) : s.op \in InstallOps \ {"format"}
    <3> SUFFICES ASSUME NEW s \in Range(BootFiles) \cup Range(RootAccount) \cup Range(Table)
                 PROVE  s.op \in InstallOps \ {"format"}
      OBVIOUS
    <3>1. \/ \E f \in {Kernel, Efi} : s = Step("overwrite", f)
          \/ s = Step("root account", Users) \/ s = Step("table", Kernel)
      BY BootFilesAre, SingleSteps
    <3>2. s.op \in {"overwrite", "root account", "table"}
      BY <3>1, StepsOp
    <3> QED BY <3>2 DEF InstallOps
  <2> QED BY <1>6, <1>7, <1>8, <1>9, <2>1, <2>2
<1>13. \A s \in Range(t) : s.op \in InstallOps
  <2>1. Step("format", Kernel).op = "format"
    BY StepsOp
  <2>2. "format" \in InstallOps
    BY DEF InstallOps
  <2> QED BY <1>5, <1>10, <1>12, <2>1, <2>2
<1>14. ASSUME NEW i \in 1..Len(t), i > 1 PROVE t[i].op # "format"
  <2>1. /\ Len(t) = 1 + Len(u) /\ Len(u) \in Nat /\ t[i] = u[i - 1]
    <3>1. /\ Len(t) = Len(a) + Len(u)
          /\ \A j \in 1..Len(a) + Len(u) : t[j] = IF j <= Len(a) THEN a[j] ELSE u[j - Len(a)]
      BY <1>5, <1>10, ConcatProperties
    <3>2. Len(u) \in Nat
      BY LenProperties
    <3> QED BY <1>5, <1>14, <3>1, <3>2
  <2>2. i - 1 \in 1..Len(u) /\ DOMAIN u = 1..Len(u)
    BY <1>14, <2>1, LenProperties
  <2>3. t[i] \in Range(u)
    BY <2>1, <2>2 DEF Range
  <2> QED BY <1>12, <2>3
<1>15. Installs(t, d, tab)
  <2>1. Step("table", Kernel) \in Range(t)
    BY <1>8, <1>9, <1>10, SingleSteps
  <2>2. \A f \in {Kernel, Efi} : Step("overwrite", f) \in Range(t)
    BY <1>6, <1>7, <1>8, <1>9, <1>10, BootFilesAre
  <2>3. Step("root account", Users) \in Range(t)
    BY <1>7, <1>8, <1>9, <1>10, SingleSteps
  <2> QED BY <1>13, <1>14, <2>1, <2>2, <2>3 DEF Installs
<1>16. OnCourse("install", t, FALSE, iso, d, tab, m)
  BY <1>10, <1>15 DEF OnCourse, KeepsUsers, Renewed, Must
<1> QED BY <1>10, <1>11, <1>16, RenewsSome

\* What an update copies: every file that is not there as it should be.
LEMMA CopiesBring ==
    ASSUME iso \in Isos, NEW old
    PROVE  LET copies == InOrder(NewEntries, {x \in Range(NewEntries) : PlanCopy(x, old)})
               c == Steps("copy", [i \in 1..Len(copies) |-> copies[i].path])
           IN  /\ c \in Seq(InstStep)
               /\ \A s \in Range(c) : s.op = "copy" /\ s.file \in Wanted(iso)
               /\ \A f \in Wanted(iso) : disk[f] = iso \/ Step("copy", f) \in Range(c)
<1> DEFINE new == NewEntries
           planned == {x \in Range(new) : PlanCopy(x, old)}
           copies == InOrder(new, planned)
           fs == [i \in 1..Len(copies) |-> copies[i].path]
           c == Steps("copy", fs)
<1>1. new \in Seq([path : Files, hash : {iso}]) /\ Range(new) = {[path |-> f, hash |-> iso] : f \in Wanted(iso)}
  BY NewEntriesAre
<1> HIDE DEF new
<1>2. copies \in Seq([path : Files, hash : {iso}]) /\ Range(copies) = planned
  <2>1. copies \in Seq([path : Files, hash : {iso}]) /\ Range(copies) = Range(new) \cap planned
    <3> HIDE DEF planned
    <3> QED BY <1>1, InOrderKeeps
  <2> QED BY <2>1
<1> HIDE DEF copies
<1>3. Len(copies) \in Nat /\ DOMAIN copies = 1..Len(copies) /\ \A i \in 1..Len(copies) : copies[i].path \in Files
  <2>1. \A i \in 1..Len(copies) : copies[i] \in [path : Files, hash : {iso}]
    BY <1>2, ElementOfSeq, LenProperties
  <2> QED BY <1>2, <2>1, LenProperties
<1>4. fs \in Seq(Files)
  BY <1>3, IsASeq
<1>5. Range(fs) = {x.path : x \in planned}
  <2>1. DOMAIN fs = 1..Len(copies)
    OBVIOUS
  <2>2. Range(fs) = {copies[i].path : i \in 1..Len(copies)}
    BY <2>1 DEF Range
  <2>3. planned = {copies[i] : i \in 1..Len(copies)}
    BY <1>2, <1>3 DEF Range
  <2> HIDE DEF fs, planned
  <2> QED BY <2>2, <2>3
<1> HIDE DEF fs
<1>6. c \in Seq(InstStep) /\ Range(c) = {Step("copy", f) : f \in Range(fs)}
  BY <1>4, StepsTyped DEF InstOps, WriteOps
<1> HIDE DEF c
<1>7. ASSUME NEW s \in Range(c) PROVE s.op = "copy" /\ s.file \in Wanted(iso)
  <2>1. PICK f \in Range(fs) : s = Step("copy", f)
    BY <1>6
  <2>2. PICK x \in Range(new) : f = x.path
    BY <1>5
  <2>3. f \in Wanted(iso)
    BY <1>1, <2>2
  <2> QED BY <2>1, <2>3, StepsOp
<1>8. ASSUME NEW f \in Wanted(iso), disk[f] # iso PROVE Step("copy", f) \in Range(c)
  <2> DEFINE x == [path |-> f, hash |-> iso]
  <2>1. x \in Range(new) /\ x.path = f /\ x.hash = iso
    BY <1>1
  <2> HIDE DEF x
  <2>2. PlanCopy(x, old)
    BY <1>8, <2>1 DEF PlanCopy
  <2>3. f \in Range(fs)
    BY <1>5, <2>1, <2>2
  <2> QED BY <1>6, <2>3
<1> QED BY <1>6, <1>7, <1>8 DEF c, fs, copies, new

LEMMA UpdateShellStarts ==
    ASSUME iso \in Isos, NEW tab, NEW m
    PROVE  /\ UpdateShell \in Seq(InstStep) /\ UpdateShell # <<>>
           /\ OnCourse("update shell", UpdateShell, FALSE, iso, disk, tab, m)
<1> DEFINE old == Loaded(manifest)
           copies == InOrder(NewEntries, {x \in Range(NewEntries) : PlanCopy(x, old)})
           c == Steps("copy", [i \in 1..Len(copies) |-> copies[i].path])
           o == Steps("delete", Obsolete(old))
           e == <<Step("verified?", Kernel)>>
           g == Refresh(old)
<1>1. UpdateShell = ((((StateFiles \o c) \o OsMetadata) \o o) \o e) \o g
  BY DEF UpdateShell
<1> HIDE DEF old
<1>2. /\ c \in Seq(InstStep)
      /\ \A s \in Range(c) : s.op = "copy" /\ s.file \in Wanted(iso)
      /\ \A f \in Wanted(iso) : disk[f] = iso \/ Step("copy", f) \in Range(c)
  BY CopiesBring
<1>3. o \in Seq(InstStep) /\ \A s \in Range(o) : s.op = "delete" /\ ShellIncludes(s.file) /\ s.file \notin Wanted(iso)
  <2> DEFINE gone == {f \in (Listed(old) \cap OnDisk) \ Listed(NewEntries) : ShellIncludes(f)}
  <2>1. o = Steps("delete", InOrder(Scan, gone))
    BY DEF Obsolete
  <2>2. \A f \in gone : ShellIncludes(f) /\ f \notin Wanted(iso)
    BY NewEntriesAre
  <2> HIDE DEF gone, o
  <2>3. o \in Seq(InstStep) /\ Range(o) = {Step("delete", f) : f \in Files \cap gone}
    BY <2>1, ScannedSteps DEF InstOps
  <2>4. ASSUME NEW s \in Range(o) PROVE s.op = "delete" /\ ShellIncludes(s.file) /\ s.file \notin Wanted(iso)
    <3>1. PICK f \in gone : s = Step("delete", f)
      BY <2>3
    <3>2. s.op = "delete" /\ s.file = f
      BY <3>1, StepsOp
    <3> QED BY <2>2, <3>2
  <2> QED BY <2>3, <2>4
<1>4. e \in Seq(InstStep) /\ Range(e) = {Step("verified?", Kernel)}
  BY OneStep, ScanNames DEF InstOps
<1> DEFINE none == {}
<1>5. /\ g \in Seq(InstStep) /\ Renews(g, none)
      /\ \A s \in Range(g) : s.op \in {"create manifest", "entry"}
  BY RefreshRenews
<1> HIDE DEF c, o, e, g, none
<1>6. StateFiles \in Seq(InstStep) /\ OsMetadata \in Seq(InstStep)
  BY SingleSteps
<1>7. PICK p \in Seq(InstStep) : p = StateFiles \o c /\ Range(p) = Range(StateFiles) \cup Range(c)
  BY <1>2, <1>6, PlansJoined
<1>8. PICK q \in Seq(InstStep) : q = p \o OsMetadata /\ Range(q) = Range(p) \cup Range(OsMetadata)
  BY <1>6, PlansJoined
<1>9. PICK r \in Seq(InstStep) : r = q \o o /\ Range(r) = Range(q) \cup Range(o)
  BY <1>3, PlansJoined
<1>10. PICK u \in Seq(InstStep) : u = r \o e /\ Range(u) = Range(r) \cup Range(e)
  BY <1>4, PlansJoined
<1>11. PICK t \in Seq(InstStep) : t = u \o g /\ Range(t) = Range(u) \cup Range(g) /\ Renews(t, none)
  <2>1. u \o g \in Seq(InstStep) /\ Range(u \o g) = Range(u) \cup Range(g)
    BY <1>5, PlansJoined
  <2>2. Renews(u \o g, none)
    BY <1>5, RenewsAfter
  <2> QED BY <2>1, <2>2
<1>12. UpdateShell = t
  BY <1>1, <1>7, <1>8, <1>9, <1>10, <1>11
<1>13. ASSUME NEW s \in Range(t)
       PROVE  /\ s.op \in UpdateOps
              /\ s.op = "delete" => s.file \notin Wanted(iso)
              /\ s.op = "overwrite" => s.file = Release
              /\ s.op \in WriteOps \cup {"delete"} => s.file # Users
  <2>1. s \in Range(StateFiles) \cup Range(OsMetadata) \cup Range(e) \/ s \in Range(c) \/ s \in Range(o) \/ s \in Range(g)
    BY <1>7, <1>8, <1>9, <1>10, <1>11
  <2>2. CASE s \in Range(StateFiles) \cup Range(OsMetadata) \cup Range(e)
    <3>1. s = Step("state", Kernel) \/ s = Step("overwrite", Release) \/ s = Step("verified?", Kernel)
      BY <1>4, <2>2, SingleSteps
    <3>2. (s.op = "overwrite" /\ s.file = Release) \/ s.op \in {"state", "verified?"}
      BY <3>1, StepsOp
    <3> QED BY <3>2, NamesDiffer DEF UpdateOps, WriteOps
  <2>3. CASE s \in Range(c)
    <3>1. s.op = "copy" /\ s.file \in Wanted(iso)
      BY <1>2, <2>3
    <3>2. s.file # Users
      BY <3>1 DEF Wanted, ShellIncludes, ManifestIncludes
    <3> QED BY <3>1, <3>2 DEF UpdateOps
  <2>4. CASE s \in Range(o)
    <3>1. s.op = "delete" /\ ShellIncludes(s.file) /\ s.file \notin Wanted(iso)
      BY <1>3, <2>4
    <3>2. s.file # Users
      BY <3>1 DEF ShellIncludes, ManifestIncludes
    <3> QED BY <3>1, <3>2 DEF UpdateOps
  <2>5. CASE s \in Range(g)
    BY <1>5, <2>5 DEF UpdateOps, WriteOps
  <2> QED BY <2>1, <2>2, <2>3, <2>4, <2>5
<1>14. KeepsUsers("update shell", t)
  <2>1. \A s \in Range(t) : s.op \notin {"format", "root account"} /\ (s.op \in WriteOps \cup {"delete"} => s.file # Users)
    BY <1>13 DEF UpdateOps
  <2> QED BY <2>1 DEF KeepsUsers
<1>15. Brings(t, FALSE, iso, disk)
  <2>1. \A f \in Wanted(iso) : disk[f] = iso \/ Step("copy", f) \in Range(t)
    BY <1>2, <1>7, <1>8, <1>9, <1>10, <1>11
  <2> QED BY <1>13, <2>1 DEF Brings
<1>16. Renewed(t, Must("update shell"), disk, m)
  BY <1>11 DEF Renewed, Must, none
<1>17. OnCourse("update shell", t, FALSE, iso, disk, tab, m)
  BY <1>14, <1>15, <1>16 DEF OnCourse
<1> QED BY <1>11, <1>12, <1>17, RenewsSome

LEMMA RunCommandKeeps ==
    ASSUME InstInv, NEW cmd \in Commands, RunCommand(cmd)
    PROVE  InstInv' /\ EndsCurrent /\ UsersStay
<1>1. /\ job.cmd = "none" /\ job' = [cmd |-> cmd, todo |-> CommandSteps(cmd), bad |-> FALSE]
      /\ iso' = iso /\ disk' = disk /\ table' = table /\ manifest' = manifest
  BY DEF RunCommand
<1>2. iso \in Isos /\ InstTyped
  BY DEF InstInv, InstTyped
<1> DEFINE t == CommandSteps(cmd)
<1>3. t \in Seq(InstStep) /\ t # <<>> /\ OnCourse(cmd, t, FALSE, iso, disk, table, manifest)
  <2>1. CASE cmd = "update shell"
    <3>1. t = UpdateShell
      BY <2>1 DEF CommandSteps
    <3> QED BY <1>2, <2>1, <3>1, UpdateShellStarts
  <2>2. CASE cmd = "update kernel"
    <3>1. t = UpdateKernel
      BY <2>2 DEF CommandSteps
    <3> QED BY <2>2, <3>1, UpdateKernelStarts
  <2>3. CASE cmd = "install"
    <3>1. t = Install
      BY <2>3 DEF CommandSteps
    <3> QED BY <1>2, <2>3, <3>1, InstallStarts
  <2>4. CASE cmd = "repair bootloader"
    <3>1. t = RepairBoot
      BY <2>4 DEF CommandSteps
    <3> QED BY <2>4, <3>1, RepairBootStarts
  <2>5. CASE cmd = "repair manifest"
    <3>1. t = RepairManifest
      BY <2>5 DEF CommandSteps
    <3> QED BY <2>5, <3>1, RepairManifestStarts
  <2> QED BY <2>1, <2>2, <2>3, <2>4, <2>5 DEF Commands
<1> HIDE DEF t
<1>4. /\ job' \in [cmd : Commands \cup {"none", "repair file"}, todo : Seq(InstStep), bad : BOOLEAN]
      /\ job'.cmd = cmd /\ job'.todo = t /\ job'.bad = FALSE /\ cmd # "none"
  BY <1>1, <1>3 DEF t, Commands
<1>5. InstTyped'
  BY <1>1, <1>2, <1>4 DEF InstTyped
<1>6. InstInv'
  BY <1>1, <1>3, <1>4, <1>5 DEF InstInv
<1> QED BY <1>1, <1>6 DEF EndsCurrent, UsersStay

LEMMA RunRepairFileKeeps ==
    ASSUME InstInv, NEW f \in Files, RunRepairFile(f)
    PROVE  InstInv' /\ EndsCurrent /\ UsersStay
<1> DEFINE t == RepairFile(f)
<1>1. /\ job.cmd = "none" /\ job' = [cmd |-> "repair file", todo |-> t, bad |-> FALSE]
      /\ iso' = iso /\ disk' = disk /\ table' = table /\ manifest' = manifest
  BY DEF RunRepairFile
<1>2. InstTyped
  BY DEF InstInv
<1>3. t \in Seq(InstStep) /\ t # <<>> /\ OnCourse("repair file", t, FALSE, iso, disk, table, manifest)
  BY RepairFileStarts
<1> HIDE DEF t
<1>4. /\ job' \in [cmd : Commands \cup {"none", "repair file"}, todo : Seq(InstStep), bad : BOOLEAN]
      /\ job'.cmd = "repair file" /\ job'.todo = t /\ job'.bad = FALSE
  BY <1>1, <1>3
<1>5. InstTyped'
  BY <1>1, <1>2, <1>4 DEF InstTyped
<1>6. InstInv'
  BY <1>1, <1>3, <1>4, <1>5 DEF InstInv
<1> QED BY <1>1, <1>6 DEF EndsCurrent, UsersStay

LEMMA InstStarts == InstInit => InstInv
<1> SUFFICES ASSUME InstInit PROVE InstInv
  OBVIOUS
<1>1. job = NoCommand /\ iso \in Isos
  BY DEF InstInit
<1>2. job \in [cmd : Commands \cup {"none", "repair file"}, todo : Seq(InstStep), bad : BOOLEAN] /\ job.cmd = "none"
  BY <1>1 DEF NoCommand
<1>3. disk \in [Files -> Int] /\ table \in BOOLEAN
  <2>1. \/ disk = [f \in Files |-> IF f = Users THEN Own ELSE IF f \in IsoFiles[1] THEN 1 ELSE Absent]
        \/ disk = [f \in Files |-> Absent]
    BY DEF InstInit
  <2>2. disk \in [Files -> Int]
    BY <2>1, ContentsAreIntegers
  <2> QED BY <2>2 DEF InstInit
<1>4. manifest \in Seq(ManifestEntry)
  <2> DEFINE kept == InOrder(Scan, {f \in IsoFiles[1] : ManifestIncludes(f)})
             e(i) == [path |-> kept[i], hash |-> 1]
  <2>1. manifest = [i \in 1..Len(kept) |-> e(i)] \/ manifest = NoManifest
    BY DEF InstInit
  <2>2. kept \in Seq(Files)
    BY ScanNames, InOrderKeeps
  <2> HIDE DEF kept
  <2>3. [i \in 1..Len(kept) |-> e(i)] \in Seq(ManifestEntry)
    <3>1. Len(kept) \in Nat /\ \A i \in 1..Len(kept) : kept[i] \in Files
      BY <2>2, LenProperties, ElementOfSeq
    <3>2. \A i \in 1..Len(kept) : e(i) \in ManifestEntry
      BY <3>1 DEF ManifestEntry
    <3> HIDE DEF e
    <3> QED BY <3>1, <3>2, IsASeq
  <2>4. NoManifest \in Seq(ManifestEntry)
    <3>1. [path |-> "none", hash |-> Absent] \in ManifestEntry
      BY DEF ManifestEntry, Absent
    <3> QED BY <3>1 DEF NoManifest
  <2> QED BY <2>1, <2>3, <2>4
<1> QED BY <1>1, <1>2, <1>3, <1>4 DEF InstInv, InstTyped

LEMMA InstSteps ==
    ASSUME InstInv, InstNext
    PROVE  InstInv' /\ EndsCurrent /\ UsersStay
<1>1. CASE \E cmd \in Commands : RunCommand(cmd)
  BY <1>1, RunCommandKeeps
<1>2. CASE \E f \in Files : RunRepairFile(f)
  BY <1>2, RunRepairFileKeeps
<1>3. CASE DoWrite
  BY <1>3, DoWriteKeeps
<1>4. CASE FailWrite
  BY <1>4, FailWriteKeeps
<1>5. CASE DoStep
  BY <1>5, DoStepKeeps
<1>6. CASE FailStep
  BY <1>6, FailStepKeeps
<1>7. CASE PowerLoss
  BY <1>7, PowerLossKeeps
<1>8. CASE BootIso
  BY <1>8, BootIsoKeeps
<1> QED BY <1>1, <1>2, <1>3, <1>4, <1>5, <1>6, <1>7, <1>8 DEF InstNext

\* What install2disk promises.
THEOREM InstallerIsSound == InstSpec => UserDataKept /\ SuccessIsCurrent
<1>1. InstInv /\ [InstNext]_instVars => InstInv'
  <2>1. CASE InstInv /\ UNCHANGED instVars
    BY <2>1 DEF instVars, InstInv, InstTyped
  <2> QED BY <2>1, InstSteps
<1>2. InstInv /\ [InstNext]_instVars =>
        [disk'[Users] # disk[Users] => job.cmd = "install" \/ (job.cmd = "repair file" /\ Target = Users)]_instVars
  BY InstSteps DEF UsersStay
<1>3. InstInv /\ [InstNext]_instVars =>
        [job.cmd # "none" /\ job'.cmd = "none" /\ last' =>
           /\ job.cmd = "update shell" =>
                \A f \in IsoFiles[iso] : ShellIncludes(f) => disk'[f] = iso
           /\ job.cmd \in {"update shell", "install", "repair manifest", "repair file"} => ManifestHolds'
           /\ job.cmd = "install" => Verified']_instVars
  BY InstSteps DEF EndsCurrent
<1> QED BY InstStarts, <1>1, <1>2, <1>3, PTL DEF InstSpec, UserDataKept, SuccessIsCurrent

=============================================================================
