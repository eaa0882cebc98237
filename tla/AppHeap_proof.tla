--------------------------- MODULE AppHeap_proof ---------------------------
(***************************************************************************)
(* Proofs about AppHeap: for every chunk size, memory layout and set of     *)
(* requests the blocks tile the memory, and every pointer the program holds *)
(* is served by a used block of its own; the heap implements Allocator.     *)
(***************************************************************************)
EXTENDS AppHeap, FiniteSetTheorems, WellFoundedInduction, TLAPS

-----------------------------------------------------------------------------
(* Multiples.                                                              *)

\* Division with remainder.
LEMMA DivMod ==
    ASSUME NEW x \in Nat, NEW d \in Nat \ {0}
    PROVE  x % d \in 0..(d - 1) /\ x \div d \in Nat /\ x = d * (x \div d) + (x % d)
BY SMT

\* Quotient and remainder are unique.
LEMMA DivModUnique ==
    ASSUME NEW d \in Nat \ {0}, NEW q \in Int, NEW r \in 0..(d - 1),
           NEW s \in Int, NEW t \in 0..(d - 1), d * q + r = d * s + t
    PROVE  q = s /\ r = t
<1>1. d * (q - s) = t - r
  BY SMT
<1>2. q - s < 1
  <2> SUFFICES ASSUME q - s >= 1 PROVE FALSE
    BY SMT
  <2>1. d * (q - s) >= d
    BY SMT
  <2> QED
    BY <1>1, <2>1, SMT
<1>3. q - s > -1
  <2> SUFFICES ASSUME s - q >= 1 PROVE FALSE
    BY SMT
  <2>1. d * (s - q) >= d
    BY SMT
  <2>2. d * (s - q) = r - t
    BY <1>1, SMT
  <2> QED
    BY <2>1, <2>2, SMT
<1> QED
  BY <1>1, <1>2, <1>3, SMT

\* The remainder of a number given by quotient and remainder.
LEMMA ModOf ==
    ASSUME NEW d \in Nat \ {0}, NEW y \in Nat, NEW q \in Int, NEW r \in 0..(d - 1),
           y = d * q + r
    PROVE  y % d = r
<1> DEFINE p == y \div d
           t == y % d
<1>1. y = d * p + t /\ t \in 0..(d - 1) /\ p \in Int
  BY DivMod
<1> HIDE DEF p, t
<1>2. t = r
  BY <1>1, DivModUnique
<1> QED
  BY <1>2 DEF t

\* Rounding down gives a multiple.
LEMMA RoundDown ==
    ASSUME NEW d \in Nat \ {0}, NEW x \in Nat
    PROVE  x - (x % d) \in Nat /\ (x - (x % d)) % d = 0 /\ x % d \in 0..(d - 1)
<1> DEFINE q == x \div d
           t == x % d
<1>1. x = d * q + t /\ t \in 0..(d - 1) /\ q \in Nat
  BY DivMod
<1> HIDE DEF q, t
<1>2. x - t = d * q + 0 /\ x - t \in Nat /\ 0 \in 0..(d - 1)
  BY <1>1, SMT
<1>3. (x - t) % d = 0
  BY <1>1, <1>2, ModOf
<1> QED
  BY <1>1, <1>2, <1>3 DEF t

\* Two multiples are at least one apart.
LEMMA MultiplesApart ==
    ASSUME NEW d \in Nat \ {0}, NEW x \in Nat, NEW y \in Nat,
           x % d = 0, y % d = 0, x < y
    PROVE  x + d <= y
<1> DEFINE q == x \div d
           s == y \div d
<1>1. x = d * q /\ y = d * s /\ q \in Nat /\ s \in Nat
  BY DivMod, SMT
<1> HIDE DEF q, s
<1>2. q + 1 <= s
  BY <1>1, SMT
<1>3. d * (q + 1) <= d * s
  BY <1>1, <1>2, SMT
<1> QED
  BY <1>1, <1>3, SMT

\* The sum of two multiples is one.
LEMMA MultiplesAdd ==
    ASSUME NEW d \in Nat \ {0}, NEW x \in Nat, NEW y \in Nat, x % d = 0, y % d = 0
    PROVE  (x + y) % d = 0
<1> DEFINE q == x \div d
           s == y \div d
<1>1. x = d * q /\ y = d * s /\ q \in Nat /\ s \in Nat
  BY DivMod, SMT
<1> HIDE DEF q, s
<1>2. x + y = d * (q + s) + 0 /\ x + y \in Nat /\ 0 \in 0..(d - 1) /\ q + s \in Int
  BY <1>1, SMT
<1> QED
  BY <1>2, ModOf

-----------------------------------------------------------------------------
(* Sizes: nothing wraps for a request up to MaxRequest.                    *)

\* align_up rounds up to a multiple as long as the sum does not wrap.
LEMMA AlignUpRounds ==
    ASSUME NEW n \in Nat, n + ALIGN - 1 <= SIZE_MAX
    PROVE  /\ AlignUp(n) \in Nat /\ AlignUp(n) % ALIGN = 0
           /\ n <= AlignUp(n) /\ AlignUp(n) <= n + ALIGN - 1
<1>1. ALIGN \in Nat \ {0} /\ SIZE_MAX \in Nat
  BY HeapAssumption
<1> DEFINE x == n + ALIGN - 1
<1>2. x \in Nat /\ Plus(n, ALIGN - 1) = x
  BY <1>1, SMT DEF Plus
<1>3. AlignUp(n) = x - (x % ALIGN)
  BY <1>2 DEF AlignUp
<1>4. x - (x % ALIGN) \in Nat /\ (x - (x % ALIGN)) % ALIGN = 0 /\ x % ALIGN \in 0..(ALIGN - 1)
  BY <1>1, <1>2, RoundDown
<1> DEFINE t == x % ALIGN
<1> HIDE DEF t
<1>5. x - t <= n + ALIGN - 1 /\ n <= x - t
  BY <1>1, <1>2, <1>4, SMT DEF t
<1> QED
  BY <1>3, <1>4, <1>5 DEF t

\* A need that leaves room for a header.
Sound(need) ==
    need \in Nat /\ need % ALIGN = 0 /\ need + HEADER + ALIGN <= SIZE_MAX + 1

\* What malloc and realloc compute from a request is sound and large enough.
LEMMA RequestSound ==
    ASSUME NEW n \in 1..MaxRequest
    PROVE  Sound(AlignUp(n)) /\ n <= AlignUp(n)
<1>1. /\ ALIGN \in Nat \ {0} /\ HEADER \in Nat \ {0} /\ SIZE_MAX \in Nat
      /\ HEADER % ALIGN = 0 /\ (SIZE_MAX + 1) % ALIGN = 0
  BY HeapAssumption
<1>2. n \in Nat /\ n + HEADER + ALIGN <= SIZE_MAX + 1
  BY <1>1, SMT DEF MaxRequest
<1>3. n + ALIGN - 1 <= SIZE_MAX
  BY <1>1, <1>2, SMT
<1> DEFINE a == AlignUp(n)
<1>4. a \in Nat /\ a % ALIGN = 0 /\ n <= a /\ a <= n + ALIGN - 1
  BY <1>2, <1>3, AlignUpRounds
<1> HIDE DEF a
<1>5. (a + HEADER) % ALIGN = 0
  BY <1>1, <1>4, MultiplesAdd
<1>6. a + HEADER < SIZE_MAX + 1 /\ a + HEADER \in Nat /\ SIZE_MAX + 1 \in Nat
  BY <1>1, <1>2, <1>4, SMT
<1>7. a + HEADER + ALIGN <= SIZE_MAX + 1
  BY <1>1, <1>5, <1>6, MultiplesApart
<1> QED
  BY <1>4, <1>7 DEF Sound, a

\* realloc rounds up once more before it calls malloc.
LEMMA AlignUpTwice ==
    ASSUME NEW need, Sound(need)
    PROVE  AlignUp(need) = need
<1>1. ALIGN \in Nat \ {0} /\ HEADER \in Nat \ {0} /\ SIZE_MAX \in Nat
  BY HeapAssumption
<1>2. need \in Nat /\ need % ALIGN = 0 /\ need + ALIGN - 1 <= SIZE_MAX
  BY <1>1, SMT DEF Sound
<1> DEFINE a == AlignUp(need)
<1>3. a \in Nat /\ a % ALIGN = 0 /\ need <= a /\ a <= need + ALIGN - 1
  BY <1>2, AlignUpRounds
<1> HIDE DEF a
<1>4. ~(need < a)
  <2> SUFFICES ASSUME need < a PROVE FALSE
    OBVIOUS
  <2>1. need + ALIGN <= a
    BY <1>1, <1>2, <1>3, MultiplesApart
  <2> QED
    BY <1>1, <1>2, <1>3, <2>1, SMT
<1> QED
  BY <1>2, <1>3, <1>4, SMT DEF a

\* The chunk asked of the kernel holds the block.
LEMMA ChunkHolds ==
    ASSUME NEW need, Sound(need)
    PROVE  ChunkSize(need) \in Nat /\ need + HEADER <= ChunkSize(need)
<1>1. /\ ALIGN \in Nat \ {0} /\ HEADER \in Nat \ {0} /\ SIZE_MAX \in Nat
      /\ CAPACITY \in Nat /\ CHUNK_MIN \in Nat /\ CHUNK_MAX \in Nat
      /\ CHUNK_MIN <= CHUNK_MAX /\ CHUNK_MAX + ALIGN <= SIZE_MAX
  BY HeapAssumption
<1>2. need \in Nat /\ need + HEADER + ALIGN <= SIZE_MAX + 1
  BY DEF Sound
<1> DEFINE clamped == IF CAPACITY < CHUNK_MIN THEN CHUNK_MIN
                      ELSE IF CAPACITY > CHUNK_MAX THEN CHUNK_MAX ELSE CAPACITY
           ask == IF clamped < need + HEADER THEN need + HEADER ELSE clamped
<1>3. Plus(need, HEADER) = need + HEADER
  BY <1>1, <1>2, SMT DEF Plus
<1>4. ChunkSize(need) = AlignUp(ask)
  BY <1>3 DEF ChunkSize
<1>5. ask \in Nat /\ need + HEADER <= ask /\ ask + ALIGN - 1 <= SIZE_MAX
  BY <1>1, <1>2, SMT
<1> HIDE DEF ask
<1>6. AlignUp(ask) \in Nat /\ ask <= AlignUp(ask)
  BY <1>5, AlignUpRounds
<1> QED
  BY <1>1, <1>2, <1>4, <1>5, <1>6, SMT

-----------------------------------------------------------------------------
(* Heaps.  The properties pointwise, for any list h and memory m.          *)

Apart(h) ==
    \A i, j \in 1..Len(h) :
        i # j => BlockEnd(h[i]) <= h[j].addr \/ BlockEnd(h[j]) <= h[i].addr

Covers(h, m) ==
    \A a \in Int : a \in m <=> \E i \in 1..Len(h) : h[i].addr <= a /\ a < BlockEnd(h[i])

GoodHeap(h, m) == h \in Seq(Block) /\ m \subseteq 1..(MEM_TOP - 1) /\ Apart(h) /\ Covers(h, m)

\* h has a used block of size s with payload p.
Used(h, p, s) == \E k \in 1..Len(h) : h[k].used /\ Payload(h[k]) = p /\ h[k].size = s

\* A function on an initial segment is a sequence.
LEMMA FunctionIsSeq ==
    ASSUME NEW S, NEW n \in Nat, NEW f \in [1..n -> S]
    PROVE  f \in Seq(S) /\ Len(f) = n
BY SMT

\* The fields of a block and where it ends.
LEMMA BlockFields ==
    ASSUME NEW b \in Block
    PROVE  /\ b.addr \in 1..MEM_TOP /\ b.addr \in Nat /\ b.size \in Nat /\ b.used \in BOOLEAN
           /\ Payload(b) = b.addr + HEADER /\ BlockEnd(b) = b.addr + HEADER + b.size
           /\ Payload(b) \in Nat /\ BlockEnd(b) \in Nat
           /\ b.addr < Payload(b) /\ Payload(b) <= BlockEnd(b) /\ b.addr < BlockEnd(b)
<1>1. HEADER \in Nat \ {0} /\ MEM_TOP \in Nat
  BY HeapAssumption
<1>2. b.addr \in 1..MEM_TOP /\ b.size \in Nat
  BY DEF Block
<1>3. b.used \in BOOLEAN
  BY DEF Block
<1>4. Payload(b) = b.addr + HEADER /\ BlockEnd(b) = b.addr + HEADER + b.size
  BY DEF Payload, BlockEnd
<1> QED
  BY <1>1, <1>2, <1>3, <1>4, SMT

\* A block lies inside the memory.
LEMMA BlockInside ==
    ASSUME NEW h, NEW m, GoodHeap(h, m), NEW i \in 1..Len(h)
    PROVE  /\ h[i] \in Block /\ BlockEnd(h[i]) <= MEM_TOP /\ h[i].size < MEM_TOP
<1>1. HEADER \in Nat \ {0} /\ MEM_TOP \in Nat
  BY HeapAssumption
<1>2. h \in Seq(Block) /\ m \subseteq 1..(MEM_TOP - 1) /\ Covers(h, m)
  BY DEF GoodHeap
<1> DEFINE b == h[i]
           a == BlockEnd(b) - 1
<1>3. b \in Block
  BY <1>2
<1>4. /\ b.addr \in 1..MEM_TOP /\ b.size \in Nat /\ BlockEnd(b) = b.addr + HEADER + b.size
      /\ BlockEnd(b) \in Nat /\ b.addr < BlockEnd(b)
  BY <1>3, BlockFields
<1>5. a \in m
  <2>1. a \in Int /\ b.addr <= a /\ a < BlockEnd(b)
    BY <1>4, SMT
  <2> QED
    BY <1>2, <2>1 DEF Covers
<1> HIDE DEF b
<1>6. BlockEnd(b) - 1 <= MEM_TOP - 1
  <2>1. a \in 1..(MEM_TOP - 1)
    BY <1>2, <1>5
  <2> QED
    BY <1>1, <1>4, <2>1, SMT
<1>7. BlockEnd(b) <= MEM_TOP /\ b.size < MEM_TOP
  BY <1>1, <1>4, <1>6, SMT
<1> QED
  BY <1>3, <1>7 DEF b

\* No two blocks have the same payload.
LEMMA PayloadUnique ==
    ASSUME NEW h, NEW m, GoodHeap(h, m), NEW i \in 1..Len(h), NEW j \in 1..Len(h),
           Payload(h[i]) = Payload(h[j])
    PROVE  i = j
<1>1. /\ h[i].addr < Payload(h[i]) /\ Payload(h[i]) <= BlockEnd(h[i]) /\ h[i].addr \in Nat
      /\ Payload(h[i]) \in Nat /\ BlockEnd(h[i]) \in Nat
  BY BlockInside, BlockFields
<1>2. /\ h[j].addr < Payload(h[j]) /\ Payload(h[j]) <= BlockEnd(h[j]) /\ h[j].addr \in Nat
      /\ Payload(h[j]) \in Nat /\ BlockEnd(h[j]) \in Nat
  BY BlockInside, BlockFields
<1>3. Apart(h)
  BY DEF GoodHeap
<1> QED
  BY <1>1, <1>2, <1>3, SMT DEF Apart

-----------------------------------------------------------------------------
(* Splitting and merging are inverse: g is h with block i in two pieces.    *)

SplitOf(h, g, i) ==
    /\ h \in Seq(Block) /\ g \in Seq(Block) /\ i \in 1..Len(h) /\ Len(g) = Len(h) + 1
    /\ \A k \in 1..Len(h) : (k < i => g[k] = h[k]) /\ (k > i => g[k + 1] = h[k])
    /\ g[i].addr = h[i].addr /\ BlockEnd(g[i]) = g[i + 1].addr
    /\ BlockEnd(g[i + 1]) = BlockEnd(h[i])

\* Which blocks the pieces are.
LEMMA Pieces ==
    ASSUME NEW h, NEW g, NEW i, SplitOf(h, g, i)
    PROVE  /\ Len(h) \in Nat /\ i \in Nat /\ i \in 1..Len(g) /\ i + 1 \in 1..Len(g)
           /\ h[i] \in Block /\ g[i] \in Block /\ g[i + 1] \in Block
           /\ h[i].addr \in Nat /\ g[i + 1].addr \in Nat /\ BlockEnd(h[i]) \in Nat
           /\ h[i].addr < g[i + 1].addr /\ g[i + 1].addr < BlockEnd(h[i])
           /\ \A k \in 1..Len(g) : k > i + 1 => k - 1 \in 1..Len(h) /\ g[k] = h[k - 1]
<1>1. /\ h \in Seq(Block) /\ g \in Seq(Block) /\ i \in 1..Len(h) /\ Len(g) = Len(h) + 1
      /\ \A k \in 1..Len(h) : (k < i => g[k] = h[k]) /\ (k > i => g[k + 1] = h[k])
      /\ g[i].addr = h[i].addr /\ BlockEnd(g[i]) = g[i + 1].addr
      /\ BlockEnd(g[i + 1]) = BlockEnd(h[i])
  BY DEF SplitOf
<1>2. Len(h) \in Nat /\ i \in Nat /\ i \in 1..Len(g) /\ i + 1 \in 1..Len(g)
  BY <1>1, SMT
<1>3. h[i] \in Block /\ g[i] \in Block /\ g[i + 1] \in Block
  BY <1>1, <1>2
<1>4. /\ h[i].addr \in Nat /\ BlockEnd(h[i]) \in Nat /\ g[i + 1].addr \in Nat
      /\ g[i].addr < BlockEnd(g[i]) /\ g[i + 1].addr < BlockEnd(g[i + 1])
  BY <1>3, BlockFields
<1>5. ASSUME NEW k \in 1..Len(g), k > i + 1
      PROVE  k - 1 \in 1..Len(h) /\ g[k] = h[k - 1]
  <2>1. k - 1 \in 1..Len(h) /\ k - 1 > i /\ (k - 1) + 1 = k
    BY <1>1, <1>2, <1>5, SMT
  <2> QED
    BY <1>1, <2>1
<1> QED
  BY <1>1, <1>2, <1>3, <1>4, <1>5

\* The pieces cover the same memory.
LEMMA SplitCovers ==
    ASSUME NEW h, NEW g, NEW i, SplitOf(h, g, i), NEW m
    PROVE  Covers(h, m) <=> Covers(g, m)
<1>1. /\ i \in 1..Len(h) /\ Len(g) = Len(h) + 1
      /\ \A k \in 1..Len(h) : (k < i => g[k] = h[k]) /\ (k > i => g[k + 1] = h[k])
      /\ g[i].addr = h[i].addr /\ BlockEnd(g[i]) = g[i + 1].addr
      /\ BlockEnd(g[i + 1]) = BlockEnd(h[i])
  BY DEF SplitOf
<1>2. /\ Len(h) \in Nat /\ i \in Nat /\ i \in 1..Len(g) /\ i + 1 \in 1..Len(g)
      /\ h[i].addr \in Nat /\ g[i + 1].addr \in Nat /\ BlockEnd(h[i]) \in Nat
      /\ h[i].addr < g[i + 1].addr /\ g[i + 1].addr < BlockEnd(h[i])
      /\ \A k \in 1..Len(g) : k > i + 1 => k - 1 \in 1..Len(h) /\ g[k] = h[k - 1]
  BY Pieces
<1> SUFFICES ASSUME NEW a \in Int
             PROVE  (\E k \in 1..Len(h) : h[k].addr <= a /\ a < BlockEnd(h[k]))
                      <=> (\E k \in 1..Len(g) : g[k].addr <= a /\ a < BlockEnd(g[k]))
  BY DEF Covers
<1>3. ASSUME NEW k \in 1..Len(h), h[k].addr <= a, a < BlockEnd(h[k])
      PROVE  \E j \in 1..Len(g) : g[j].addr <= a /\ a < BlockEnd(g[j])
  <2>1. CASE k < i
    <3>1. k \in 1..Len(g) /\ g[k] = h[k]
      BY <1>1, <1>2, <2>1, SMT
    <3> QED
      BY <1>3, <3>1
  <2>2. CASE k > i
    <3>1. k + 1 \in 1..Len(g) /\ g[k + 1] = h[k]
      BY <1>1, <1>2, <2>2, SMT
    <3> QED
      BY <1>3, <3>1
  <2>3. CASE k = i /\ a < BlockEnd(g[i])
    BY <1>1, <1>2, <1>3, <2>3
  <2>4. CASE k = i /\ ~(a < BlockEnd(g[i]))
    <3>1. g[i + 1].addr <= a
      BY <1>1, <1>2, <2>4, SMT
    <3> QED
      BY <1>1, <1>2, <1>3, <2>4, <3>1
  <2> QED
    BY <1>2, <2>1, <2>2, <2>3, <2>4, SMT
<1>4. ASSUME NEW k \in 1..Len(g), g[k].addr <= a, a < BlockEnd(g[k])
      PROVE  \E j \in 1..Len(h) : h[j].addr <= a /\ a < BlockEnd(h[j])
  <2>1. CASE k < i
    <3>1. k \in 1..Len(h) /\ g[k] = h[k]
      BY <1>1, <1>2, <2>1, SMT
    <3> QED
      BY <1>4, <3>1
  <2>2. CASE k > i + 1
    BY <1>2, <1>4, <2>2
  <2>3. CASE k = i
    <3>1. h[i].addr <= a /\ a < g[i + 1].addr
      BY <1>1, <1>4, <2>3
    <3>2. a < BlockEnd(h[i])
      BY <1>2, <3>1, SMT
    <3> QED
      BY <1>1, <3>1, <3>2
  <2>4. CASE k = i + 1
    <3>1. g[i + 1].addr <= a /\ a < BlockEnd(h[i])
      BY <1>1, <1>4, <2>4
    <3>2. h[i].addr <= a
      BY <1>2, <3>1, SMT
    <3> QED
      BY <1>1, <3>1, <3>2
  <2> QED
    BY <1>2, <2>1, <2>2, <2>3, <2>4, SMT
<1> QED
  BY <1>3, <1>4

\* The pieces overlap nothing if, and only if, the whole does not.
LEMMA SplitApart ==
    ASSUME NEW h, NEW g, NEW i, SplitOf(h, g, i)
    PROVE  Apart(h) <=> Apart(g)
<1>1. /\ h \in Seq(Block) /\ g \in Seq(Block) /\ i \in 1..Len(h) /\ Len(g) = Len(h) + 1
      /\ \A k \in 1..Len(h) : (k < i => g[k] = h[k]) /\ (k > i => g[k + 1] = h[k])
      /\ g[i].addr = h[i].addr /\ BlockEnd(g[i]) = g[i + 1].addr
      /\ BlockEnd(g[i + 1]) = BlockEnd(h[i])
  BY DEF SplitOf
<1>2. /\ Len(h) \in Nat /\ i \in Nat /\ i \in 1..Len(g) /\ i + 1 \in 1..Len(g)
      /\ h[i].addr \in Nat /\ g[i + 1].addr \in Nat /\ BlockEnd(h[i]) \in Nat
      /\ h[i].addr < g[i + 1].addr /\ g[i + 1].addr < BlockEnd(h[i])
      /\ \A k \in 1..Len(g) : k > i + 1 => k - 1 \in 1..Len(h) /\ g[k] = h[k - 1]
  BY Pieces
<1>3. \A k \in 1..Len(h) : h[k].addr \in Nat /\ BlockEnd(h[k]) \in Nat /\ h[k].addr < BlockEnd(h[k])
  <2>1. \A k \in 1..Len(h) : h[k] \in Block
    BY <1>1
  <2> QED
    BY <2>1, BlockFields
<1>4. \A k \in 1..Len(g) : g[k].addr \in Nat /\ BlockEnd(g[k]) \in Nat /\ g[k].addr < BlockEnd(g[k])
  <2>1. \A k \in 1..Len(g) : g[k] \in Block
    BY <1>1
  <2> QED
    BY <2>1, BlockFields
<1>5. ASSUME Apart(h) PROVE Apart(g)
  <2> DEFINE old(k) == IF k <= i THEN k ELSE k - 1
  <2>1. ASSUME NEW k \in 1..Len(g)
        PROVE  /\ old(k) \in 1..Len(h) /\ (old(k) = i => k = i \/ k = i + 1)
               /\ h[old(k)].addr <= g[k].addr /\ BlockEnd(g[k]) <= BlockEnd(h[old(k)])
    <3>1. old(k) \in 1..Len(h) /\ (old(k) = i => k = i \/ k = i + 1)
      BY <1>1, <1>2, SMT
    <3>2. CASE k # i /\ k # i + 1
      <4>1. g[k] = h[old(k)]
        BY <1>1, <1>2, <3>2, SMT
      <4>2. g[k].addr <= g[k].addr /\ BlockEnd(g[k]) <= BlockEnd(g[k])
        BY <1>4, SMT
      <4> QED
        BY <3>1, <4>1, <4>2
    <3>3. CASE k = i
      <4>1. old(k) = i
        BY <1>2, <3>3, SMT
      <4>2. h[i].addr <= g[i].addr /\ BlockEnd(g[i]) <= BlockEnd(h[i])
        BY <1>1, <1>2, SMT
      <4> QED
        BY <3>1, <3>3, <4>1, <4>2
    <3>4. CASE k = i + 1
      <4>1. old(k) = i
        BY <1>2, <3>4, SMT
      <4>2. h[i].addr <= g[i + 1].addr /\ BlockEnd(g[i + 1]) <= BlockEnd(h[i])
        BY <1>1, <1>2, SMT
      <4> QED
        BY <3>1, <3>4, <4>1, <4>2
    <3> QED
      BY <3>2, <3>3, <3>4
  <2> SUFFICES ASSUME NEW j \in 1..Len(g), NEW k \in 1..Len(g), j # k
               PROVE  BlockEnd(g[j]) <= g[k].addr \/ BlockEnd(g[k]) <= g[j].addr
    BY DEF Apart
  <2>2. CASE old(j) # old(k)
    <3>1. /\ old(j) \in 1..Len(h) /\ old(k) \in 1..Len(h)
          /\ h[old(j)].addr <= g[j].addr /\ BlockEnd(g[j]) <= BlockEnd(h[old(j)])
          /\ h[old(k)].addr <= g[k].addr /\ BlockEnd(g[k]) <= BlockEnd(h[old(k)])
      BY <2>1
    <3> HIDE DEF old
    <3>2. BlockEnd(h[old(j)]) <= h[old(k)].addr \/ BlockEnd(h[old(k)]) <= h[old(j)].addr
      BY <1>5, <2>2, <3>1 DEF Apart
    <3>3. /\ h[old(j)].addr \in Nat /\ BlockEnd(h[old(j)]) \in Nat
          /\ h[old(k)].addr \in Nat /\ BlockEnd(h[old(k)]) \in Nat
          /\ g[j].addr \in Nat /\ BlockEnd(g[j]) \in Nat
          /\ g[k].addr \in Nat /\ BlockEnd(g[k]) \in Nat
      BY <1>3, <1>4, <3>1
    <3>4. CASE BlockEnd(h[old(j)]) <= h[old(k)].addr
      BY <3>1, <3>3, <3>4, SMT
    <3>5. CASE BlockEnd(h[old(k)]) <= h[old(j)].addr
      BY <3>1, <3>3, <3>5, SMT
    <3> QED
      BY <3>2, <3>4, <3>5
  <2>3. CASE old(j) = old(k)
    <3>1. (j = i /\ k = i + 1) \/ (j = i + 1 /\ k = i)
      BY <1>1, <1>2, <2>3, SMT
    <3>2. BlockEnd(g[i]) <= g[i + 1].addr
      BY <1>1, <1>2, SMT
    <3> QED
      BY <3>1, <3>2
  <2> QED
    BY <2>2, <2>3
<1>6. ASSUME Apart(g) PROVE Apart(h)
  <2> DEFINE new(k) == IF k <= i THEN k ELSE k + 1
  <2>1. ASSUME NEW k \in 1..Len(h), k # i
        PROVE  /\ new(k) \in 1..Len(g) /\ new(k) # i /\ new(k) # i + 1 /\ g[new(k)] = h[k]
    BY <1>1, <1>2, <2>1, SMT
  <2>2. ASSUME NEW k \in 1..Len(h), k # i
        PROVE  BlockEnd(h[i]) <= h[k].addr \/ BlockEnd(h[k]) <= h[i].addr
    <3>1. /\ new(k) \in 1..Len(g) /\ new(k) # i /\ new(k) # i + 1 /\ g[new(k)] = h[k]
      BY <2>1, <2>2
    <3> HIDE DEF new
    <3>2. BlockEnd(g[i]) <= h[k].addr \/ BlockEnd(h[k]) <= g[i].addr
      BY <1>2, <1>6, <3>1 DEF Apart
    <3>3. BlockEnd(g[i + 1]) <= h[k].addr \/ BlockEnd(h[k]) <= g[i + 1].addr
      BY <1>2, <1>6, <3>1 DEF Apart
    <3>4. h[k].addr \in Nat /\ BlockEnd(h[k]) \in Nat /\ h[k].addr < BlockEnd(h[k])
      BY <1>3
    <3> QED
      BY <1>1, <1>2, <3>2, <3>3, <3>4, SMT
  <2>3. ASSUME NEW j \in 1..Len(h), NEW k \in 1..Len(h), j # k, j # i, k # i
        PROVE  BlockEnd(h[j]) <= h[k].addr \/ BlockEnd(h[k]) <= h[j].addr
    <3>1. new(j) \in 1..Len(g) /\ g[new(j)] = h[j]
      BY <2>1, <2>3
    <3>2. new(k) \in 1..Len(g) /\ g[new(k)] = h[k]
      BY <2>1, <2>3
    <3>3. new(j) # new(k)
      BY <1>2, <2>3, SMT
    <3> HIDE DEF new
    <3> QED
      BY <1>6, <3>1, <3>2, <3>3 DEF Apart
  <2> QED
    BY <1>1, <2>2, <2>3 DEF Apart
<1> QED
  BY <1>5, <1>6

\* So only one of the two need be seen to be good.
LEMMA SplitGood ==
    ASSUME NEW h, NEW g, NEW i, SplitOf(h, g, i), NEW m
    PROVE  GoodHeap(h, m) <=> GoodHeap(g, m)
BY SplitCovers, SplitApart DEF GoodHeap, SplitOf

\* A free second piece leaves every used block but the first alone.
LEMMA SplitUsed ==
    ASSUME NEW h, NEW g, NEW i, SplitOf(h, g, i), ~g[i + 1].used, NEW p, NEW s,
           p # Payload(h[i]) \/ (~h[i].used /\ ~g[i].used)
    PROVE  Used(g, p, s) <=> Used(h, p, s)
<1>1. /\ i \in 1..Len(h) /\ Len(g) = Len(h) + 1 /\ g[i].addr = h[i].addr
      /\ \A k \in 1..Len(h) : (k < i => g[k] = h[k]) /\ (k > i => g[k + 1] = h[k])
  BY DEF SplitOf
<1>2. /\ Len(h) \in Nat /\ i \in Nat /\ i \in 1..Len(g) /\ i + 1 \in 1..Len(g)
      /\ \A k \in 1..Len(g) : k > i + 1 => k - 1 \in 1..Len(h) /\ g[k] = h[k - 1]
  BY Pieces
<1>3. Payload(g[i]) = Payload(h[i])
  BY <1>1 DEF Payload
<1>4. ASSUME NEW k \in 1..Len(h), h[k].used, Payload(h[k]) = p, h[k].size = s
      PROVE  Used(g, p, s)
  <2>1. k # i
    BY <1>4
  <2>2. CASE k < i
    <3>1. k \in 1..Len(g) /\ g[k] = h[k]
      BY <1>1, <1>2, <2>2, SMT
    <3> QED
      BY <1>4, <3>1 DEF Used
  <2>3. CASE k > i
    <3>1. k + 1 \in 1..Len(g) /\ g[k + 1] = h[k]
      BY <1>1, <1>2, <2>3, SMT
    <3> QED
      BY <1>4, <3>1 DEF Used
  <2> QED
    BY <1>2, <2>1, <2>2, <2>3, SMT
<1>5. ASSUME NEW k \in 1..Len(g), g[k].used, Payload(g[k]) = p, g[k].size = s
      PROVE  Used(h, p, s)
  <2>1. k # i /\ k # i + 1
    BY <1>3, <1>5
  <2>2. CASE k < i
    <3>1. k \in 1..Len(h) /\ g[k] = h[k]
      BY <1>1, <1>2, <2>2, SMT
    <3> QED
      BY <1>5, <3>1 DEF Used
  <2>3. CASE k > i + 1
    BY <1>2, <1>5, <2>3 DEF Used
  <2> QED
    BY <1>2, <2>1, <2>2, <2>3, SMT
<1> QED
  BY <1>4, <1>5 DEF Used

-----------------------------------------------------------------------------
(* The list operations on a good heap.                                     *)

\* Split leaves block i with need bytes at least, tiles the memory as before
\* and touches no other used block.
LEMMA SplitKeeps ==
    ASSUME NEW h, NEW m, GoodHeap(h, m), NEW i \in 1..Len(h),
           NEW need \in Nat, need <= h[i].size
    PROVE  /\ GoodHeap(Split(h, i, need), m)
           /\ i \in 1..Len(Split(h, i, need))
           /\ Split(h, i, need)[i].addr = h[i].addr
           /\ Split(h, i, need)[i].used = h[i].used
           /\ Split(h, i, need)[i].size >= need
           /\ \A p, s : p # Payload(h[i]) => (Used(Split(h, i, need), p, s) <=> Used(h, p, s))
<1>1. /\ HEADER \in Nat \ {0} /\ ALIGN \in Nat \ {0} /\ MEM_TOP \in Nat /\ SIZE_MAX \in Nat
      /\ MEM_TOP + HEADER + ALIGN <= SIZE_MAX
  BY HeapAssumption
<1>2. h \in Seq(Block)
  BY DEF GoodHeap
<1>3. /\ h[i] \in Block /\ BlockEnd(h[i]) <= MEM_TOP /\ h[i].size < MEM_TOP
  BY BlockInside
<1>4. /\ h[i].addr \in 1..MEM_TOP /\ h[i].size \in Nat /\ h[i].used \in BOOLEAN
      /\ Payload(h[i]) = h[i].addr + HEADER /\ BlockEnd(h[i]) = h[i].addr + HEADER + h[i].size
  BY <1>3, BlockFields
<1>5. Plus(need, HEADER + ALIGN) = need + HEADER + ALIGN
  BY <1>1, <1>3, <1>4, SMT DEF Plus
<1>6. CASE h[i].size <= Plus(need, HEADER + ALIGN)
  <2>1. Split(h, i, need) = h
    BY <1>6 DEF Split
  <2>2. h[i].size >= need
    BY <1>4, SMT
  <2> QED
    BY <2>1, <2>2
<1>7. CASE ~(h[i].size <= Plus(need, HEADER + ALIGN))
  <2> DEFINE lo == [h[i] EXCEPT !.size = need]
             hi == [addr |-> Payload(h[i]) + need, size |-> h[i].size - need - HEADER,
                    used |-> FALSE]
             g == [k \in 1..(Len(h) + 1) |->
                     CASE k < i -> h[k] [] k = i -> lo [] k = i + 1 -> hi [] k > i + 1 -> h[k - 1]]
  <2>1. Split(h, i, need) = g
    BY <1>7 DEF Split
  <2>2. h[i].size > need + HEADER + ALIGN
    BY <1>1, <1>4, <1>5, <1>7, SMT
  <2>3. lo \in Block /\ lo.addr = h[i].addr /\ lo.size = need /\ lo.used = h[i].used
    BY <1>3 DEF Block
  <2>4. hi.addr = h[i].addr + HEADER + need /\ hi.size = h[i].size - need - HEADER
    BY <1>4
  <2>5. hi \in Block /\ hi.used = FALSE
    <3>1. ASSUME NEW a \in 1..MEM_TOP, NEW z \in Nat, a + HEADER + z <= MEM_TOP,
                 z > need + HEADER + ALIGN
          PROVE  a + HEADER + need \in 1..MEM_TOP /\ z - need - HEADER \in Nat
      BY <1>1, <3>1, SMT
    <3>2. Payload(h[i]) + need \in 1..MEM_TOP /\ h[i].size - need - HEADER \in Nat
      BY <1>3, <1>4, <2>2, <3>1
    <3> QED
      BY <3>2 DEF Block
  <2> HIDE DEF lo, hi
  <2>6. BlockEnd(lo) = lo.addr + HEADER + lo.size /\ BlockEnd(hi) = hi.addr + HEADER + hi.size
    BY <2>3, <2>5, BlockFields
  <2>7. BlockEnd(lo) = hi.addr
    BY <2>3, <2>4, <2>6
  <2>8. BlockEnd(hi) = BlockEnd(h[i])
    <3>1. (h[i].addr + HEADER + need) + HEADER + (h[i].size - need - HEADER)
            = h[i].addr + HEADER + h[i].size
      <4>1. ASSUME NEW a \in Int, NEW z \in Int
            PROVE  (a + HEADER + need) + HEADER + (z - need - HEADER) = a + HEADER + z
        BY <1>1
      <4>2. h[i].addr \in Int /\ h[i].size \in Int
        BY <1>4
      <4> QED
        BY <4>1, <4>2
    <3> QED
      BY <1>4, <2>4, <2>6, <3>1
  <2>9. Len(h) \in Nat /\ i \in Nat /\ \A k \in 1..Len(h) : h[k] \in Block
    BY <1>2
  <2>10. /\ \A k \in 1..Len(h) : (k < i => g[k] = h[k]) /\ (k > i => g[k + 1] = h[k])
         /\ g[i] = lo /\ g[i + 1] = hi
    BY <2>9, SMT
  <2>11. g \in [1..(Len(h) + 1) -> Block]
    BY <2>3, <2>5, <2>9, SMT
  <2> HIDE DEF g
  <2>12. g \in Seq(Block) /\ Len(g) = Len(h) + 1
    BY <2>9, <2>11, FunctionIsSeq
  <2>13. SplitOf(h, g, i)
    BY <1>2, <2>3, <2>7, <2>8, <2>10, <2>12 DEF SplitOf
  <2>14. GoodHeap(g, m)
    BY <2>13, SplitGood
  <2>15. \A p, s : p # Payload(h[i]) => (Used(g, p, s) <=> Used(h, p, s))
    BY <2>5, <2>10, <2>13, SplitUsed
  <2>16. i \in 1..Len(g)
    BY <2>13, Pieces
  <2>17. g[i].size >= need
    BY <2>3, <2>10, SMT
  <2> QED
    BY <2>1, <2>3, <2>10, <2>14, <2>15, <2>16, <2>17
<1> QED
  BY <1>6, <1>7

\* merge_next tiles the memory as before and touches no used block.
LEMMA MergeKeeps ==
    ASSUME NEW h, NEW m, GoodHeap(h, m), NEW i \in 1..Len(h)
    PROVE  /\ GoodHeap(MergeNext(h, i), m) /\ i \in 1..Len(MergeNext(h, i))
           /\ \A p, s : Used(MergeNext(h, i), p, s) <=> Used(h, p, s)
<1>1. HEADER \in Nat \ {0} /\ MEM_TOP \in Nat
  BY HeapAssumption
<1>2. h \in Seq(Block)
  BY DEF GoodHeap
<1>3. Len(h) \in Nat /\ i \in Nat /\ \A k \in 1..Len(h) : h[k] \in Block
  BY <1>2
<1>4. CASE h[i].used \/ i = Len(h) \/ h[i + 1].used \/ ~BlocksAreAdjacent(h[i], h[i + 1])
  <2>1. MergeNext(h, i) = h
    BY <1>4 DEF MergeNext
  <2> QED
    BY <2>1
<1>5. CASE ~(h[i].used \/ i = Len(h) \/ h[i + 1].used \/ ~BlocksAreAdjacent(h[i], h[i + 1]))
  <2> DEFINE b == [h[i] EXCEPT !.size = @ + HEADER + h[i + 1].size]
             g == [k \in 1..(Len(h) - 1) |->
                     CASE k < i -> h[k] [] k = i -> b [] k > i -> h[k + 1]]
  <2>1. MergeNext(h, i) = g
    BY <1>5 DEF MergeNext
  <2>2. ~h[i].used /\ ~h[i + 1].used /\ BlockEnd(h[i]) = h[i + 1].addr
    BY <1>5 DEF BlocksAreAdjacent
  <2>3. i + 1 \in 1..Len(h) /\ Len(h) - 1 \in Nat /\ i \in 1..(Len(h) - 1)
    BY <1>3, <1>5, SMT
  <2>4. h[i] \in Block /\ h[i + 1] \in Block
    BY <1>3, <2>3
  <2>5. /\ h[i].addr \in 1..MEM_TOP /\ h[i].size \in Nat /\ h[i + 1].size \in Nat
        /\ BlockEnd(h[i]) = h[i].addr + HEADER + h[i].size
        /\ BlockEnd(h[i + 1]) = h[i + 1].addr + HEADER + h[i + 1].size
    BY <2>4, BlockFields
  <2>6. h[i].size + HEADER + h[i + 1].size \in Nat
    BY <1>1, <2>5, SMT
  <2>7. /\ b \in Block /\ b.addr = h[i].addr /\ b.used = h[i].used
        /\ b.size = h[i].size + HEADER + h[i + 1].size
    BY <2>4, <2>6 DEF Block
  <2> HIDE DEF b
  <2>8. BlockEnd(b) = BlockEnd(h[i + 1])
    <3>1. BlockEnd(b) = b.addr + HEADER + b.size
      BY <2>7, BlockFields
    <3>2. h[i].addr + HEADER + (h[i].size + HEADER + h[i + 1].size)
            = (h[i].addr + HEADER + h[i].size) + HEADER + h[i + 1].size
      <4>1. ASSUME NEW a \in Int, NEW y \in Int, NEW z \in Int
            PROVE  a + HEADER + (y + HEADER + z) = (a + HEADER + y) + HEADER + z
        BY <1>1
      <4>2. h[i].addr \in Int /\ h[i].size \in Int /\ h[i + 1].size \in Int
        BY <2>5
      <4> QED
        BY <4>1, <4>2
    <3> QED
      BY <2>2, <2>5, <2>7, <3>1, <3>2
  <2>9. /\ \A k \in 1..(Len(h) - 1) : (k < i => h[k] = g[k]) /\ (k > i => h[k + 1] = g[k])
        /\ g[i] = b
    BY <1>3, <2>3, SMT
  <2>10. g \in [1..(Len(h) - 1) -> Block]
    BY <1>3, <2>3, <2>7, SMT
  <2> HIDE DEF g
  <2>11. g \in Seq(Block) /\ Len(g) = Len(h) - 1
    BY <2>3, <2>10, FunctionIsSeq
  <2>12. Len(h) = Len(g) + 1
    BY <1>3, <2>11, SMT
  <2>13. SplitOf(g, h, i)
    BY <1>2, <2>2, <2>3, <2>7, <2>8, <2>9, <2>11, <2>12 DEF SplitOf
  <2>14. GoodHeap(g, m)
    BY <2>13, SplitGood
  <2>15. \A p, s : Used(g, p, s) <=> Used(h, p, s)
    BY <2>2, <2>7, <2>9, <2>13, SplitUsed
  <2> QED
    BY <2>1, <2>3, <2>11, <2>14, <2>15
<1> QED
  BY <1>4, <1>5

Marked(h, i, v) == [h EXCEPT ![i].used = v]

\* The used flag has no part in the tiling.
LEMMA MarkKeeps ==
    ASSUME NEW h, NEW m, GoodHeap(h, m), NEW i \in 1..Len(h), NEW v \in BOOLEAN,
           NEW g, g = Marked(h, i, v)
    PROVE  /\ GoodHeap(g, m) /\ Len(g) = Len(h)
           /\ g[i].addr = h[i].addr /\ g[i].size = h[i].size /\ g[i].used = v
           /\ \A k \in 1..Len(h) : k # i => g[k] = h[k]
           /\ \A p, s : p # Payload(h[i]) => (Used(g, p, s) <=> Used(h, p, s))
<1>1. h \in Seq(Block) /\ m \subseteq 1..(MEM_TOP - 1) /\ Apart(h) /\ Covers(h, m)
  BY DEF GoodHeap
<1>2. h[i] \in Block
  BY <1>1
<1> DEFINE b == [h[i] EXCEPT !.used = v]
<1>3. b \in Block /\ b.addr = h[i].addr /\ b.size = h[i].size /\ b.used = v
  BY <1>2 DEF Block
<1>4. g = [h EXCEPT ![i] = b]
  BY DEF Marked
<1> HIDE DEF b
<1>5. g \in Seq(Block) /\ Len(g) = Len(h) /\ g[i] = b /\ \A k \in 1..Len(h) : k # i => g[k] = h[k]
  BY <1>1, <1>3, <1>4
<1>6. \A k \in 1..Len(h) : g[k].addr = h[k].addr /\ g[k].size = h[k].size
  BY <1>3, <1>5
<1>7. \A k \in 1..Len(h) : BlockEnd(g[k]) = BlockEnd(h[k]) /\ Payload(g[k]) = Payload(h[k])
  BY <1>6 DEF BlockEnd, Payload
<1>8. Apart(g)
  BY <1>1, <1>5, <1>6, <1>7 DEF Apart
<1>9. Covers(g, m)
  BY <1>1, <1>5, <1>6, <1>7 DEF Covers
<1>10. ASSUME NEW p, NEW s, p # Payload(h[i])
       PROVE  Used(g, p, s) <=> Used(h, p, s)
  BY <1>5, <1>7, <1>10 DEF Used
<1> QED
  BY <1>1, <1>3, <1>5, <1>8, <1>9, <1>10 DEF GoodHeap

\* free releases its block and no other, and tiles the memory as before.
LEMMA FreeKeeps ==
    ASSUME NEW h, NEW m, GoodHeap(h, m), NEW i \in 1..Len(h)
    PROVE  /\ GoodHeap(FreeBlock(h, i), m)
           /\ \A p, s : Used(FreeBlock(h, i), p, s) <=> Used(h, p, s) /\ p # Payload(h[i])
<1> DEFINE u == [h EXCEPT ![i].used = FALSE]
           g == MergeNext(u, i)
<1>1. /\ GoodHeap(u, m) /\ Len(u) = Len(h) /\ u[i].addr = h[i].addr /\ u[i].used = FALSE
      /\ \A p, s : p # Payload(h[i]) => (Used(u, p, s) <=> Used(h, p, s))
  <2>1. PICK v \in BOOLEAN : v = FALSE
    OBVIOUS
  <2>2. u = Marked(h, i, v)
    BY <2>1 DEF Marked
  <2> HIDE DEF u
  <2> QED
    BY <2>1, <2>2, MarkKeeps
<1> HIDE DEF u
<1>2. Payload(u[i]) = Payload(h[i])
  BY <1>1 DEF Payload
<1>3. ASSUME NEW s PROVE ~Used(u, Payload(h[i]), s)
  <2> SUFFICES ASSUME NEW k \in 1..Len(u), u[k].used, Payload(u[k]) = Payload(u[i])
               PROVE  FALSE
    BY <1>2 DEF Used
  <2>1. k = i
    BY <1>1, PayloadUnique
  <2> QED
    BY <1>1, <2>1
<1>4. /\ GoodHeap(g, m) /\ i \in 1..Len(g)
      /\ \A p, s : Used(g, p, s) <=> Used(u, p, s)
  BY <1>1, MergeKeeps
<1>5. FreeBlock(h, i) = IF i > 1 THEN MergeNext(g, i - 1) ELSE g
  BY DEF FreeBlock, u
<1> HIDE DEF g
<1>6. \A p, s : Used(g, p, s) <=> Used(h, p, s) /\ p # Payload(h[i])
  BY <1>1, <1>3, <1>4
<1>7. CASE i > 1
  <2>1. i - 1 \in 1..Len(g)
    <3>1. Len(g) \in Nat
      BY <1>4 DEF GoodHeap
    <3> QED
      BY <1>4, <1>7, <3>1, SMT
  <2>2. /\ GoodHeap(MergeNext(g, i - 1), m)
        /\ \A p, s : Used(MergeNext(g, i - 1), p, s) <=> Used(g, p, s)
    BY <1>4, <2>1, MergeKeeps
  <2> QED
    BY <1>5, <1>6, <1>7, <2>2
<1>8. CASE ~(i > 1)
  BY <1>4, <1>5, <1>6, <1>8
<1> QED
  BY <1>7, <1>8

\* Taking a free block makes it, and no other, a used one of need bytes at least.
LEMMA TakeKeeps ==
    ASSUME NEW h, NEW m, GoodHeap(h, m), NEW i \in 1..Len(h), ~h[i].used,
           NEW need \in Nat, need <= h[i].size
    PROVE  /\ GoodHeap(Take(h, i, need), m)
           /\ \E s \in Nat : s >= need /\ Used(Take(h, i, need), Payload(h[i]), s)
           /\ \A s : ~Used(h, Payload(h[i]), s)
           /\ \A p, s : p # Payload(h[i]) => (Used(Take(h, i, need), p, s) <=> Used(h, p, s))
<1> DEFINE g == Split(h, i, need)
           t == [g EXCEPT ![i].used = TRUE]
<1>1. /\ GoodHeap(g, m) /\ i \in 1..Len(g) /\ g[i].addr = h[i].addr /\ g[i].size >= need
      /\ \A p, s : p # Payload(h[i]) => (Used(g, p, s) <=> Used(h, p, s))
  BY SplitKeeps
<1>2. Take(h, i, need) = t
  BY DEF Take
<1> HIDE DEF g
<1>3. /\ GoodHeap(t, m) /\ Len(t) = Len(g) /\ t[i].addr = g[i].addr /\ t[i].size = g[i].size
      /\ t[i].used = TRUE
      /\ \A p, s : p # Payload(g[i]) => (Used(t, p, s) <=> Used(g, p, s))
  <2>1. PICK v \in BOOLEAN : v = TRUE
    OBVIOUS
  <2>2. t = Marked(g, i, v)
    BY <2>1 DEF Marked
  <2> HIDE DEF t
  <2>3. GoodHeap(g, m) /\ i \in 1..Len(g)
    BY <1>1
  <2>4. t[i].used = v
    BY <2>2, <2>3, MarkKeeps
  <2>5. GoodHeap(t, m) /\ Len(t) = Len(g) /\ t[i].addr = g[i].addr /\ t[i].size = g[i].size
    BY <2>2, <2>3, MarkKeeps
  <2>6. \A p, s : p # Payload(g[i]) => (Used(t, p, s) <=> Used(g, p, s))
    BY <2>2, <2>3, MarkKeeps
  <2> QED
    BY <2>1, <2>4, <2>5, <2>6
<1> HIDE DEF t
<1>4. Payload(t[i]) = Payload(h[i]) /\ Payload(g[i]) = Payload(h[i])
  BY <1>1, <1>3 DEF Payload
<1>5. \E s \in Nat : s >= need /\ Used(t, Payload(h[i]), s)
  <2>1. t[i].size \in Nat
    BY <1>1, <1>3, BlockInside, BlockFields
  <2>2. Used(t, Payload(h[i]), t[i].size)
    BY <1>1, <1>3, <1>4 DEF Used
  <2> QED
    BY <1>1, <1>3, <2>1, <2>2
<1>6. ASSUME NEW s PROVE ~Used(h, Payload(h[i]), s)
  <2> SUFFICES ASSUME NEW k \in 1..Len(h), h[k].used, Payload(h[k]) = Payload(h[i])
               PROVE  FALSE
    BY DEF Used
  <2>1. k = i
    BY PayloadUnique
  <2> QED
    BY <2>1
<1> QED
  BY <1>1, <1>2, <1>3, <1>4, <1>5, <1>6

\* The tail block of a new chunk is free and large enough; the chunk joins the
\* memory and no used block changes.
LEMMA RequestKeeps ==
    ASSUME NEW h, NEW m, GoodHeap(h, m), NEW need, Sound(need), NEW c \in RequestChunk(h, m, need)
    PROVE  /\ GoodHeap(c.heap, c.mapped) /\ Len(c.heap) \in 1..Len(c.heap)
           /\ ~c.heap[Len(c.heap)].used /\ need <= c.heap[Len(c.heap)].size
           /\ \A p, s : Used(c.heap, p, s) <=> Used(h, p, s)
<1>1. HEADER \in Nat \ {0} /\ MEM_TOP \in Nat /\ ChunkBases \subseteq 1..MEM_TOP
  BY HeapAssumption
<1>2. h \in Seq(Block) /\ m \subseteq 1..(MEM_TOP - 1) /\ Apart(h) /\ Covers(h, m)
  BY DEF GoodHeap
<1> DEFINE size == ChunkSize(need)
<1>3. size \in Nat /\ need + HEADER <= size /\ need \in Nat
  BY ChunkHolds DEF Sound
<1>4. PICK b \in Bases(m, size) :
        c = [heap |-> Append(h, [addr |-> b, size |-> size - HEADER, used |-> FALSE]),
             mapped |-> m \cup (b..(b + size - 1))]
  BY DEF RequestChunk
<1> HIDE DEF size
<1> DEFINE new == [addr |-> b, size |-> size - HEADER, used |-> FALSE]
           g == Append(h, new)
           mm == m \cup (b..(b + size - 1))
<1>5. c.heap = g /\ c.mapped = mm
  BY <1>4
<1>6. b \in 1..MEM_TOP /\ b + size <= MEM_TOP /\ (b..(b + size - 1)) \cap m = {}
  BY <1>1 DEF Bases
<1>7. size - HEADER \in Nat /\ need <= size - HEADER
  BY <1>1, <1>3, SMT
<1>8. new \in Block /\ new.addr = b /\ new.size = size - HEADER /\ new.used = FALSE
  BY <1>6, <1>7 DEF Block
<1> HIDE DEF new
<1>9. BlockEnd(new) = b + size
  <2>1. BlockEnd(new) = new.addr + HEADER + new.size
    BY <1>8, BlockFields
  <2>2. b + HEADER + (size - HEADER) = b + size
    BY <1>1, <1>3, <1>6, SMT
  <2> QED
    BY <1>8, <2>1, <2>2
<1>10. Len(h) \in Nat /\ \A k \in 1..Len(h) : h[k] \in Block
  BY <1>2
<1>11. /\ g \in Seq(Block) /\ Len(g) = Len(h) + 1 /\ g[Len(h) + 1] = new
       /\ \A k \in 1..Len(h) : g[k] = h[k]
  BY <1>2, <1>8
<1> HIDE DEF g
<1>12. \A k \in 1..Len(g) : k # Len(h) + 1 => k \in 1..Len(h)
  BY <1>10, <1>11, SMT
<1>13. Len(h) + 1 \in 1..Len(g) /\ \A k \in 1..Len(h) : k \in 1..Len(g) /\ k # Len(h) + 1
  BY <1>10, <1>11, SMT
<1>14. ASSUME NEW k \in 1..Len(h)
       PROVE  BlockEnd(h[k]) <= new.addr \/ BlockEnd(new) <= h[k].addr
  <2>1. h[k].addr \in Nat /\ BlockEnd(h[k]) \in Nat /\ h[k].addr < BlockEnd(h[k])
    BY <1>10, BlockFields
  <2> SUFFICES ASSUME b < BlockEnd(h[k]), h[k].addr < b + size
               PROVE  FALSE
    BY <1>3, <1>6, <1>8, <1>9, <2>1, SMT
  <2> DEFINE a == IF b <= h[k].addr THEN h[k].addr ELSE b
  <2>2. a \in Int /\ h[k].addr <= a /\ a < BlockEnd(h[k]) /\ a \in b..(b + size - 1)
    <3>1. b \in Nat /\ size \in Nat /\ 0 < size
      BY <1>1, <1>3, <1>6, SMT
    <3>2. CASE b <= h[k].addr
      BY <2>1, <3>1, <3>2, SMT
    <3>3. CASE ~(b <= h[k].addr)
      BY <2>1, <3>1, <3>3, SMT
    <3> QED
      BY <3>2, <3>3
  <2> HIDE DEF a
  <2>3. a \in m
    BY <1>2, <2>2 DEF Covers
  <2> QED
    BY <1>6, <2>2, <2>3
<1>15. Apart(g)
  <2> SUFFICES ASSUME NEW i \in 1..Len(g), NEW j \in 1..Len(g), i # j
               PROVE  BlockEnd(g[i]) <= g[j].addr \/ BlockEnd(g[j]) <= g[i].addr
    BY DEF Apart
  <2>1. CASE i # Len(h) + 1 /\ j # Len(h) + 1
    BY <1>2, <1>11, <1>12, <2>1 DEF Apart
  <2>2. CASE i = Len(h) + 1
    BY <1>11, <1>12, <1>14, <2>2
  <2>3. CASE j = Len(h) + 1
    BY <1>11, <1>12, <1>14, <2>3
  <2> QED
    BY <2>1, <2>2, <2>3
<1>16. Covers(g, mm)
  <2> SUFFICES ASSUME NEW a \in Int
               PROVE  a \in mm <=> \E k \in 1..Len(g) : g[k].addr <= a /\ a < BlockEnd(g[k])
    BY DEF Covers
  <2>1. a \in b..(b + size - 1) <=> new.addr <= a /\ a < BlockEnd(new)
    BY <1>3, <1>6, <1>8, <1>9, SMT
  <2>2. a \in m <=> \E k \in 1..Len(h) : h[k].addr <= a /\ a < BlockEnd(h[k])
    BY <1>2 DEF Covers
  <2>3. (\E k \in 1..Len(g) : g[k].addr <= a /\ a < BlockEnd(g[k]))
          <=> \/ new.addr <= a /\ a < BlockEnd(new)
              \/ \E k \in 1..Len(h) : h[k].addr <= a /\ a < BlockEnd(h[k])
    BY <1>11, <1>12, <1>13
  <2> QED
    BY <2>1, <2>2, <2>3
<1>17. mm \subseteq 1..(MEM_TOP - 1)
  <2>1. b..(b + size - 1) \subseteq 1..(MEM_TOP - 1)
    BY <1>1, <1>3, <1>6, SMT
  <2> QED
    BY <1>2, <2>1
<1>18. ASSUME NEW p, NEW s PROVE Used(g, p, s) <=> Used(h, p, s)
  BY <1>8, <1>11, <1>12, <1>13 DEF Used
<1> HIDE DEF mm
<1>19. GoodHeap(g, mm)
  BY <1>11, <1>15, <1>16, <1>17 DEF GoodHeap
<1>20. ~g[Len(g)].used /\ need <= g[Len(g)].size /\ Len(g) \in 1..Len(g)
  BY <1>7, <1>8, <1>11, <1>13
<1> QED
  BY <1>5, <1>18, <1>19, <1>20

\* A set of naturals has a least element.
LEMMA LeastIn ==
    ASSUME NEW T, T \subseteq Nat, T # {}
    PROVE  Min(T) \in T
<1> DEFINE R == OpToRel(<, Nat)
<1>1. IsWellFoundedOn(R, Nat)
  BY NatLessThanWellFounded
<1>2. \A x, y \in Nat : x < y => <<x, y>> \in R
  BY DEF OpToRel
<1> HIDE DEF R
<1>3. PICK x \in T : \A y \in T : ~(<<y, x>> \in R)
  BY <1>1, WFMin
<1>4. ASSUME NEW y \in T PROVE x <= y
  <2>1. x \in Nat /\ y \in Nat
    OBVIOUS
  <2>2. ~(y < x)
    BY <1>2, <1>3, <2>1
  <2> QED
    BY <2>1, <2>2, SMT
<1> QED
  BY <1>4 DEF Min

\* A block that was not in use, with room for need bytes, is handed out and
\* every other used block stays.
Handed(h, m, need, r) ==
    /\ GoodHeap(r.heap, r.mapped)
    /\ r.ptr \in 1..MEM_TOP
    /\ \E s \in Nat : s >= need /\ Used(r.heap, r.ptr, s)
    /\ \A s : ~Used(h, r.ptr, s)
    /\ \A p, s : p # r.ptr => (Used(r.heap, p, s) <=> Used(h, p, s))

\* malloc returns NULL and leaves the heap as it was, or hands out a block.
LEMMA MallocKeeps ==
    ASSUME NEW h, NEW m, GoodHeap(h, m), NEW n, Sound(AlignUp(n)), AlignUp(n) > 0,
           NEW r \in MallocResults(h, m, n)
    PROVE  \/ r.ptr = NULL /\ r.heap = h /\ r.mapped = m
           \/ Handed(h, m, AlignUp(n), r)
<1>1. HEADER \in Nat \ {0} /\ MEM_TOP \in Nat
  BY HeapAssumption
<1> DEFINE need == AlignUp(n)
<1>2. need \in Nat /\ Sound(need) /\ need > 0
  BY DEF Sound
<1> HIDE DEF need
<1>3. ASSUME NEW g, NEW mm, GoodHeap(g, mm), NEW i \in 1..Len(g), ~g[i].used, need <= g[i].size,
             \A p, s : Used(g, p, s) <=> Used(h, p, s),
             r = [heap |-> Take(g, i, need), mapped |-> mm, ptr |-> Payload(g[i])]
      PROVE  Handed(h, m, need, r)
  <2>1. /\ GoodHeap(Take(g, i, need), mm)
        /\ \E s \in Nat : s >= need /\ Used(Take(g, i, need), Payload(g[i]), s)
        /\ \A s : ~Used(g, Payload(g[i]), s)
        /\ \A p, s : p # Payload(g[i]) => (Used(Take(g, i, need), p, s) <=> Used(g, p, s))
    BY <1>2, <1>3, TakeKeeps
  <2>2. g[i] \in Block /\ BlockEnd(g[i]) <= MEM_TOP
    BY <1>3, BlockInside
  <2>3. /\ g[i].addr \in 1..MEM_TOP /\ g[i].size \in Nat /\ Payload(g[i]) = g[i].addr + HEADER
        /\ BlockEnd(g[i]) = g[i].addr + HEADER + g[i].size
    BY <2>2, BlockFields
  <2>4. Payload(g[i]) \in 1..MEM_TOP
    BY <1>1, <1>2, <1>3, <2>2, <2>3, SMT
  <2>5. r.heap = Take(g, i, need) /\ r.mapped = mm /\ r.ptr = Payload(g[i])
    BY <1>3
  <2> QED
    BY <1>3, <2>1, <2>4, <2>5 DEF Handed
<1>4. CASE Fits(h, need) # {}
  <2> DEFINE i == Min(Fits(h, need))
  <2>1. i \in Fits(h, need)
    <3>1. Fits(h, need) \subseteq Nat
      BY DEF Fits
    <3> QED
      BY <1>4, <3>1, LeastIn
  <2>2. r = [heap |-> Take(h, i, need), mapped |-> m, ptr |-> Payload(h[i])]
    BY <1>4 DEF MallocResults, need
  <2> HIDE DEF i
  <2>3. i \in 1..Len(h) /\ ~h[i].used /\ need <= h[i].size
    <3>1. i \in 1..Len(h) /\ ~h[i].used /\ h[i].size >= need
      BY <2>1 DEF Fits
    <3>2. h[i].size \in Nat
      BY <3>1, BlockInside, BlockFields
    <3> QED
      BY <1>2, <3>1, <3>2, SMT
  <2> QED
    BY <1>3, <2>2, <2>3 DEF need
<1>5. CASE Fits(h, need) = {}
  <2>1. \/ r = [heap |-> h, mapped |-> m, ptr |-> NULL]
        \/ \E c \in RequestChunk(h, m, need) :
             r = [heap |-> Take(c.heap, Len(c.heap), need), mapped |-> c.mapped,
                  ptr |-> Payload(c.heap[Len(c.heap)])]
    BY <1>5 DEF MallocResults, need
  <2>2. CASE r = [heap |-> h, mapped |-> m, ptr |-> NULL]
    BY <2>2
  <2>3. ASSUME NEW c \in RequestChunk(h, m, need),
               r = [heap |-> Take(c.heap, Len(c.heap), need), mapped |-> c.mapped,
                    ptr |-> Payload(c.heap[Len(c.heap)])]
        PROVE  Handed(h, m, need, r)
    <3>1. /\ GoodHeap(c.heap, c.mapped) /\ Len(c.heap) \in 1..Len(c.heap)
          /\ ~c.heap[Len(c.heap)].used /\ need <= c.heap[Len(c.heap)].size
          /\ \A p, s : Used(c.heap, p, s) <=> Used(h, p, s)
      BY <1>2, RequestKeeps
    <3> QED
      BY <1>3, <2>3, <3>1
  <2> QED
    BY <2>1, <2>2, <2>3 DEF need
<1> QED
  BY <1>4, <1>5

-----------------------------------------------------------------------------
(* The inductive invariant, for any heap h, memory m, pointers L and data D. *)

ServedBy(h, L) ==
    /\ \A p \in DOMAIN L : \E s \in Nat : s >= L[p].size /\ Used(h, p, s)
    /\ \A p, s : Used(h, p, s) => p \in DOMAIN L

\* What is due to the program is there and lies within the region.
DueKept(L, D) ==
    /\ DOMAIN L \subseteq 1..MEM_TOP /\ DOMAIN D = DOMAIN L
    /\ \A p \in DOMAIN L : /\ L[p] \in [size : Nat, due : Nat] /\ D[p] \in Nat
                           /\ L[p].due <= L[p].size /\ L[p].due <= D[p]

Holds(h, m, L, D) == GoodHeap(h, m) /\ ServedBy(h, L) /\ DueKept(L, D)

HeapInv == Holds(heap, mapped, live, data)

\* A used block for p, old or new, while the others stay.
LEMMA PutKeeps ==
    ASSUME NEW h, NEW m, NEW L, NEW D, Holds(h, m, L, D), NEW g, NEW mm, GoodHeap(g, mm),
           NEW p \in 1..MEM_TOP, NEW z \in Nat, NEW d \in Nat, NEW e \in Nat, d <= z, d <= e,
           \E s \in Nat : s >= z /\ Used(g, p, s),
           \A q, s : q # p => (Used(g, q, s) <=> Used(h, q, s))
    PROVE  Holds(g, mm, Put(L, p, [size |-> z, due |-> d]), Put(D, p, e))
<1> DEFINE v == [size |-> z, due |-> d]
           LL == Put(L, p, v)
           DD == Put(D, p, e)
<1>1. ServedBy(h, L) /\ DueKept(L, D)
  BY DEF Holds
<1>2. v \in [size : Nat, due : Nat] /\ v.size = z /\ v.due = d
  OBVIOUS
<1> HIDE DEF v
<1>3. DOMAIN LL = DOMAIN L \cup {p} /\ LL[p] = v /\ \A q \in DOMAIN L : q # p => LL[q] = L[q]
  BY DEF Put
<1>4. DOMAIN DD = DOMAIN D \cup {p} /\ DD[p] = e /\ \A q \in DOMAIN D : q # p => DD[q] = D[q]
  BY DEF Put
<1> HIDE DEF LL, DD
<1>5. ServedBy(g, LL)
  <2>1. ASSUME NEW q \in DOMAIN LL
        PROVE  \E s \in Nat : s >= LL[q].size /\ Used(g, q, s)
    <3>1. CASE q = p
      BY <1>2, <1>3, <3>1
    <3>2. CASE q # p
      BY <1>1, <1>3, <3>2 DEF ServedBy
    <3> QED
      BY <3>1, <3>2
  <2>2. ASSUME NEW q, NEW s, Used(g, q, s) PROVE q \in DOMAIN LL
    BY <1>1, <1>3, <2>2 DEF ServedBy
  <2> QED
    BY <2>1, <2>2 DEF ServedBy
<1>6. DueKept(LL, DD)
  BY <1>1, <1>2, <1>3, <1>4 DEF DueKept
<1> QED
  BY <1>5, <1>6 DEF Holds, LL, DD, v

\* p's block is released and the others stay.
LEMMA DropKeeps ==
    ASSUME NEW h, NEW m, NEW L, NEW D, Holds(h, m, L, D), NEW g, GoodHeap(g, m), NEW p,
           \A q, s : Used(g, q, s) <=> Used(h, q, s) /\ q # p
    PROVE  Holds(g, m, Dropped(L, p), Dropped(D, p))
<1> DEFINE LL == Dropped(L, p)
           DD == Dropped(D, p)
<1>1. ServedBy(h, L) /\ DueKept(L, D)
  BY DEF Holds
<1>2. DOMAIN LL = DOMAIN L \ {p} /\ \A q \in DOMAIN LL : LL[q] = L[q]
  BY DEF Dropped
<1>3. DOMAIN DD = DOMAIN D \ {p} /\ \A q \in DOMAIN DD : DD[q] = D[q]
  BY DEF Dropped
<1> HIDE DEF LL, DD
<1>4. ServedBy(g, LL)
  BY <1>1, <1>2 DEF ServedBy
<1>5. DueKept(LL, DD)
  BY <1>1, <1>2, <1>3 DEF DueKept
<1> QED
  BY <1>4, <1>5 DEF Holds, LL, DD

\* Dropping and putting commute, and putting alone replaces.
LEMMA PutDropped ==
    ASSUME NEW f, NEW p, NEW q, NEW v
    PROVE  /\ p \in DOMAIN f => Put(Dropped(f, p), p, v) = Put(f, p, v)
           /\ p # q => Put(Dropped(f, p), q, v) = Dropped(Put(f, q, v), p)
<1>1. ASSUME p \in DOMAIN f
      PROVE  Put(Dropped(f, p), p, v) = Put(f, p, v)
  <2>1. DOMAIN Dropped(f, p) \cup {p} = DOMAIN f \cup {p}
    BY DEF Dropped
  <2>2. \A x \in DOMAIN f \cup {p} : (IF x = p THEN v ELSE Dropped(f, p)[x]) = IF x = p THEN v ELSE f[x]
    BY DEF Dropped
  <2> QED
    BY <2>1, <2>2 DEF Put
<1>2. ASSUME p # q
      PROVE  Put(Dropped(f, p), q, v) = Dropped(Put(f, q, v), p)
  <2>1. DOMAIN Dropped(f, p) \cup {q} = DOMAIN Put(f, q, v) \ {p}
    BY <1>2 DEF Dropped, Put
  <2>2. \A x \in DOMAIN Put(f, q, v) \ {p} :
          (IF x = q THEN v ELSE Dropped(f, p)[x]) = Put(f, q, v)[x]
    BY <1>2 DEF Dropped, Put
  <2>3. Dropped(Put(f, q, v), p) = [x \in DOMAIN Put(f, q, v) \ {p} |-> Put(f, q, v)[x]]
    BY DEF Dropped
  <2>4. Put(Dropped(f, p), q, v)
          = [x \in DOMAIN Dropped(f, p) \cup {q} |-> IF x = q THEN v ELSE Dropped(f, p)[x]]
    BY DEF Put
  <2> QED
    BY <2>1, <2>2, <2>3, <2>4
<1> QED
  BY <1>1, <1>2

-----------------------------------------------------------------------------
(* Every call keeps the invariant.                                         *)

\* The block of a pointer the program holds.
LEMMA HeldBlock ==
    ASSUME NEW h, NEW m, NEW L, NEW D, Holds(h, m, L, D), NEW p \in DOMAIN L,
           NEW i \in BlockFromPtr(h, p)
    PROVE  /\ i \in 1..Len(h) /\ h[i].used /\ Payload(h[i]) = p /\ h[i] \in Block
           /\ h[i].size \in Nat /\ L[p].size <= h[i].size
<1>1. i \in 1..Len(h) /\ h[i].used /\ Payload(h[i]) = p
  BY DEF BlockFromPtr
<1>2. GoodHeap(h, m) /\ ServedBy(h, L) /\ DueKept(L, D)
  BY DEF Holds
<1>3. h[i] \in Block /\ h[i].size \in Nat
  BY <1>1, <1>2, BlockInside, BlockFields
<1>4. PICK s \in Nat : s >= L[p].size /\ Used(h, p, s)
  BY <1>2 DEF ServedBy
<1>5. PICK k \in 1..Len(h) : Payload(h[k]) = p /\ h[k].size = s
  BY <1>4 DEF Used
<1>6. k = i
  BY <1>1, <1>2, <1>5, PayloadUnique
<1>7. L[p].size \in Nat
  BY <1>2 DEF DueKept
<1> QED
  BY <1>1, <1>3, <1>4, <1>5, <1>6, <1>7

\* malloc keeps the invariant for any request that does not wrap, and gives the
\* program a pointer it did not hold.
LEMMA MallocInv ==
    ASSUME HeapInv, NEW n \in 1..MaxRequest, Malloc(n)
    PROVE  /\ HeapInv'
           /\ \/ UNCHANGED live
              \/ \E p \in (1..MEM_TOP) \ DOMAIN live :
                   live' = Put(live, p, [size |-> n, due |-> n])
<1>1. Holds(heap, mapped, live, data) /\ GoodHeap(heap, mapped)
  BY DEF HeapInv, Holds
<1>2. Sound(AlignUp(n)) /\ n <= AlignUp(n)
  BY RequestSound
<1>3. n \in Nat /\ n > 0 /\ AlignUp(n) \in Nat
  BY <1>2 DEF Sound
<1>4. AlignUp(n) > 0
  BY <1>2, <1>3, SMT
<1>5. PICK r \in MallocResults(heap, mapped, n) :
        /\ heap' = r.heap /\ mapped' = r.mapped
        /\ IF r.ptr = NULL THEN UNCHANGED <<live, data>> ELSE Fresh(r.ptr, n)
  BY DEF Malloc
<1>6. CASE r.ptr = NULL /\ r.heap = heap /\ r.mapped = mapped
  BY <1>1, <1>5, <1>6 DEF HeapInv
<1>7. CASE Handed(heap, mapped, AlignUp(n), r)
  <2>1. /\ GoodHeap(r.heap, r.mapped) /\ r.ptr \in 1..MEM_TOP
        /\ \E s \in Nat : s >= AlignUp(n) /\ Used(r.heap, r.ptr, s)
        /\ \A p, s : p # r.ptr => (Used(r.heap, p, s) <=> Used(heap, p, s))
    BY <1>7 DEF Handed
  <2>2. \E s \in Nat : s >= n /\ Used(r.heap, r.ptr, s)
    <3>1. PICK s \in Nat : s >= AlignUp(n) /\ Used(r.heap, r.ptr, s)
      BY <2>1
    <3>2. s >= n
      BY <1>2, <1>3, <3>1, SMT
    <3> QED
      BY <3>1, <3>2
  <2>3. r.ptr # NULL
    BY <2>1, SMT DEF NULL
  <2>4. live' = Put(live, r.ptr, [size |-> n, due |-> n]) /\ data' = Put(data, r.ptr, n)
    BY <1>5, <2>3 DEF Fresh
  <2>5. n <= n
    BY <1>3, SMT
  <2>6. Holds(r.heap, r.mapped, Put(live, r.ptr, [size |-> n, due |-> n]), Put(data, r.ptr, n))
    BY <1>1, <1>3, <2>1, <2>2, <2>5, PutKeeps
  <2>7. r.ptr \notin DOMAIN live
    BY <1>1, <1>7 DEF Holds, ServedBy, Handed
  <2> QED
    BY <1>5, <2>1, <2>4, <2>6, <2>7 DEF HeapInv
<1> QED
  BY <1>1, <1>2, <1>4, <1>6, <1>7, MallocKeeps

\* free keeps the invariant.
LEMMA FreeInv ==
    ASSUME HeapInv, NEW p \in DOMAIN live, Free(p)
    PROVE  HeapInv'
<1>1. Holds(heap, mapped, live, data) /\ GoodHeap(heap, mapped)
  BY DEF HeapInv, Holds
<1>2. PICK i \in BlockFromPtr(heap, p) : heap' = FreeBlock(heap, i)
  BY DEF Free
<1>3. live' = Dropped(live, p) /\ data' = Dropped(data, p) /\ mapped' = mapped
  BY DEF Free
<1>4. i \in 1..Len(heap) /\ Payload(heap[i]) = p
  BY <1>1, HeldBlock
<1>5. /\ GoodHeap(FreeBlock(heap, i), mapped)
      /\ \A q, s : Used(FreeBlock(heap, i), q, s) <=> Used(heap, q, s) /\ q # p
  BY <1>1, <1>4, FreeKeeps
<1>6. Holds(FreeBlock(heap, i), mapped, Dropped(live, p), Dropped(data, p))
  BY <1>1, <1>5, DropKeeps
<1> QED
  BY <1>2, <1>3, <1>6 DEF HeapInv

\* realloc in place keeps the invariant.
LEMMA ReallocInPlaceInv ==
    ASSUME HeapInv, NEW p \in DOMAIN live, NEW n \in 1..MaxRequest, ReallocInPlace(p, n)
    PROVE  HeapInv'
<1>1. /\ Holds(heap, mapped, live, data) /\ GoodHeap(heap, mapped)
      /\ DueKept(live, data)
  BY DEF HeapInv, Holds
<1> DEFINE need == AlignUp(n)
           d == Lesser(live[p].due, n)
           e == Lesser(data[p], need)
<1>2. need \in Nat /\ n <= need /\ n \in Nat
  BY RequestSound DEF Sound
<1>3. PICK i \in BlockFromPtr(heap, p) : heap[i].size >= need /\ heap' = Split(heap, i, need)
  BY DEF ReallocInPlace
<1>4. /\ live' = Put(Dropped(live, p), p, [size |-> n, due |-> d])
      /\ data' = Put(Dropped(data, p), p, e) /\ mapped' = mapped
  BY DEF ReallocInPlace, Resized
<1>5. /\ i \in 1..Len(heap) /\ heap[i].used /\ Payload(heap[i]) = p /\ heap[i] \in Block
      /\ heap[i].size \in Nat
  BY <1>1, HeldBlock
<1>6. /\ p \in 1..MEM_TOP /\ p \in DOMAIN data /\ live[p].due \in Nat /\ data[p] \in Nat
      /\ live[p].due <= data[p]
  BY <1>1 DEF DueKept
<1>7. d \in Nat /\ e \in Nat /\ d <= n /\ d <= e
  BY <1>2, <1>6, SMT DEF Lesser
<1> HIDE DEF need, d, e
<1> DEFINE g == Split(heap, i, need)
<1>8. need <= heap[i].size
  BY <1>2, <1>3, <1>5, SMT
<1>9. /\ GoodHeap(g, mapped) /\ i \in 1..Len(g) /\ g[i].addr = heap[i].addr
      /\ g[i].used = heap[i].used /\ g[i].size >= need
      /\ \A q, s : q # p => (Used(g, q, s) <=> Used(heap, q, s))
  BY <1>1, <1>2, <1>5, <1>8, SplitKeeps
<1> HIDE DEF g
<1>10. \E s \in Nat : s >= n /\ Used(g, p, s)
  <2>1. g[i].size \in Nat
    BY <1>9, BlockInside, BlockFields
  <2>2. g[i].size >= n
    BY <1>2, <1>9, <2>1, SMT
  <2>3. Payload(g[i]) = p
    BY <1>5, <1>9 DEF Payload
  <2>4. Used(g, p, g[i].size)
    BY <1>5, <1>9, <2>3 DEF Used
  <2> QED
    BY <2>1, <2>2, <2>4
<1>11. Holds(g, mapped, Put(live, p, [size |-> n, due |-> d]), Put(data, p, e))
  BY <1>1, <1>2, <1>6, <1>7, <1>9, <1>10, PutKeeps
<1>12. live' = Put(live, p, [size |-> n, due |-> d]) /\ data' = Put(data, p, e)
  BY <1>4, <1>6, PutDropped
<1> QED
  BY <1>3, <1>4, <1>11, <1>12 DEF HeapInv, g

\* realloc's attempt to merge does nothing to a block in use, so it always goes
\* on to malloc, copy and free; AlignUp of what is aligned changes nothing.
LEMMA ReallocMovesOn ==
    ASSUME HeapInv, NEW p \in DOMAIN live, NEW n \in 1..MaxRequest, ReallocMoves(p, n)
    PROVE  \E i \in BlockFromPtr(heap, p), r \in MallocResults(heap, mapped, AlignUp(n)) :
             /\ heap[i].size < AlignUp(n) /\ mapped' = r.mapped
             /\ IF r.ptr = NULL
                THEN heap' = r.heap /\ UNCHANGED <<live, data>>
                ELSE /\ \E j \in BlockFromPtr(r.heap, p) : heap' = FreeBlock(r.heap, j)
                     /\ Resized(p, r.ptr, n, Copied(heap[i].size, AlignUp(n)))
<1> DEFINE size == AlignUp(n)
<1>1. PICK i \in BlockFromPtr(heap, p) :
        /\ heap[i].size < size
        /\ IF Grown(heap, i)[i].size >= size
           THEN /\ heap' = Split(Grown(heap, i), i, size)
                /\ Resized(p, p, n, size)
                /\ UNCHANGED mapped
           ELSE \E r \in MallocResults(Grown(heap, i), mapped, size) :
                  /\ mapped' = r.mapped
                  /\ IF r.ptr = NULL
                     THEN heap' = r.heap /\ UNCHANGED <<live, data>>
                     ELSE /\ \E j \in BlockFromPtr(r.heap, p) : heap' = FreeBlock(r.heap, j)
                          /\ Resized(p, r.ptr, n, Copied(heap[i].size, size))
  BY DEF ReallocMoves
<1>2. heap[i].used /\ heap[i].size \in Nat
  BY HeldBlock DEF HeapInv
<1>3. Grown(heap, i) = heap
  BY <1>2 DEF Grown, MergeNext
<1>4. size \in Nat
  BY RequestSound DEF Sound
<1> HIDE DEF size
<1>5. ~(heap[i].size >= size)
  BY <1>1, <1>2, <1>4, SMT
<1> QED
  BY <1>1, <1>3, <1>5 DEF size

\* realloc that moves keeps the invariant, and the new pointer is one the
\* program did not hold.
LEMMA ReallocMovesInv ==
    ASSUME HeapInv, NEW p \in DOMAIN live, NEW n \in 1..MaxRequest, ReallocMoves(p, n)
    PROVE  /\ HeapInv'
           /\ \/ UNCHANGED live
              \/ \E q \in (1..MEM_TOP) \ DOMAIN live :
                   live' = Put(Dropped(live, p), q, [size |-> n, due |-> Lesser(live[p].due, n)])
<1>1. /\ Holds(heap, mapped, live, data) /\ GoodHeap(heap, mapped)
      /\ DueKept(live, data) /\ ServedBy(heap, live)
  BY DEF HeapInv, Holds
<1> DEFINE need == AlignUp(n)
<1>2. Sound(need) /\ need \in Nat /\ n <= need /\ n \in Nat /\ n > 0
  BY RequestSound DEF Sound
<1>3. AlignUp(need) = need
  BY <1>2, AlignUpTwice
<1>4. PICK i \in BlockFromPtr(heap, p), r \in MallocResults(heap, mapped, need) :
        /\ heap[i].size < need /\ mapped' = r.mapped
        /\ IF r.ptr = NULL
           THEN heap' = r.heap /\ UNCHANGED <<live, data>>
           ELSE /\ \E j \in BlockFromPtr(r.heap, p) : heap' = FreeBlock(r.heap, j)
                /\ Resized(p, r.ptr, n, Copied(heap[i].size, need))
  BY ReallocMovesOn
<1> HIDE DEF need
<1>5. need > 0
  BY <1>2, SMT
<1>6. \/ r.ptr = NULL /\ r.heap = heap /\ r.mapped = mapped
      \/ Handed(heap, mapped, need, r)
  BY <1>1, <1>2, <1>3, <1>5, MallocKeeps
<1>7. CASE r.ptr = NULL /\ r.heap = heap /\ r.mapped = mapped
  BY <1>1, <1>4, <1>7 DEF HeapInv
<1>8. CASE Handed(heap, mapped, need, r)
  <2> DEFINE q == r.ptr
             d == Lesser(live[p].due, n)
             e == Lesser(data[p], Copied(heap[i].size, need))
             L == Put(live, q, [size |-> n, due |-> d])
             D == Put(data, q, e)
  <2>1. /\ GoodHeap(r.heap, r.mapped) /\ q \in 1..MEM_TOP
        /\ \E s \in Nat : s >= need /\ Used(r.heap, q, s)
        /\ \A s : ~Used(heap, q, s)
        /\ \A x, s : x # q => (Used(r.heap, x, s) <=> Used(heap, x, s))
    BY <1>8 DEF Handed
  <2>2. q # NULL
    BY <2>1, SMT DEF NULL
  <2>3. PICK j \in BlockFromPtr(r.heap, p) : heap' = FreeBlock(r.heap, j)
    BY <1>4, <2>2
  <2>4. /\ live' = Put(Dropped(live, p), q, [size |-> n, due |-> d])
        /\ data' = Put(Dropped(data, p), q, e)
    BY <1>4, <2>2 DEF Resized
  <2>5. p # q
    BY <1>1, <2>1 DEF ServedBy
  <2>6. /\ live[p].due \in Nat /\ live[p].size \in Nat /\ data[p] \in Nat
        /\ live[p].due <= data[p] /\ live[p].due <= live[p].size
    BY <1>1 DEF DueKept
  <2>7. heap[i].size \in Nat /\ live[p].size <= heap[i].size
    BY <1>1, HeldBlock
  <2>8. d \in Nat /\ e \in Nat /\ d <= n /\ d <= e
    BY <1>2, <1>4, <2>6, <2>7, SMT DEF Lesser, Copied
  <2>9. \E s \in Nat : s >= n /\ Used(r.heap, q, s)
    <3>1. PICK s \in Nat : s >= need /\ Used(r.heap, q, s)
      BY <2>1
    <3>2. s >= n
      BY <1>2, <3>1, SMT
    <3> QED
      BY <3>1, <3>2
  <2> HIDE DEF d, e
  <2>10. Holds(r.heap, r.mapped, L, D)
    BY <1>1, <1>2, <2>1, <2>8, <2>9, PutKeeps
  <2>11. j \in 1..Len(r.heap) /\ Payload(r.heap[j]) = p
    BY DEF BlockFromPtr
  <2>12. /\ GoodHeap(FreeBlock(r.heap, j), r.mapped)
         /\ \A x, s : Used(FreeBlock(r.heap, j), x, s) <=> Used(r.heap, x, s) /\ x # p
    BY <2>1, <2>11, FreeKeeps
  <2>13. Holds(FreeBlock(r.heap, j), r.mapped, Dropped(L, p), Dropped(D, p))
    BY <2>10, <2>12, DropKeeps
  <2>14. live' = Dropped(L, p) /\ data' = Dropped(D, p)
    BY <2>4, <2>5, PutDropped
  <2>15. q \notin DOMAIN live
    BY <1>1, <2>1 DEF ServedBy
  <2> QED
    BY <1>4, <2>1, <2>3, <2>4, <2>13, <2>14, <2>15 DEF HeapInv, d
<1> QED
  BY <1>6, <1>7, <1>8

\* The invariant is inductive.
LEMMA HeapInductive ==
    /\ Init => HeapInv
    /\ HeapInv /\ [Next]_vars => HeapInv'
<1>1. ASSUME Init PROVE HeapInv
  <2>1. heap = <<>> /\ mapped = {} /\ live = <<>> /\ data = <<>>
    BY <1>1 DEF Init
  <2>2. 1..Len(heap) = {} /\ heap \in Seq(Block)
    BY <2>1
  <2>3. GoodHeap(heap, mapped)
    BY <2>1, <2>2 DEF GoodHeap, Apart, Covers
  <2>4. DOMAIN live = {} /\ DOMAIN data = {}
    BY <2>1
  <2>5. ServedBy(heap, live) /\ DueKept(live, data)
    BY <2>2, <2>4 DEF ServedBy, DueKept, Used
  <2> QED
    BY <2>3, <2>5 DEF HeapInv, Holds
<1>2. ASSUME HeapInv, [Next]_vars PROVE HeapInv'
  <2>1. Requests \subseteq 1..MaxRequest /\ Counts \subseteq Nat \ {0}
    BY HeapAssumption
  <2>2. ASSUME NEW n \in Requests, Malloc(n) PROVE HeapInv'
    BY <1>2, <2>1, <2>2, MallocInv
  <2>3. ASSUME NEW n \in Requests, NEW c \in Counts, Calloc(c, n) PROVE HeapInv'
    <3>1. c * n <= MaxRequest /\ Malloc(c * n)
      BY <2>3 DEF Calloc
    <3>2. c \in Nat \ {0} /\ n \in Nat \ {0} /\ n \in 1..MaxRequest
      BY <2>1
    <3>3. c * n \in Nat \ {0}
      BY <3>2, SMT
    <3>4. MaxRequest \in Int
      BY HeapAssumption DEF MaxRequest
    <3>5. c * n \in 1..MaxRequest
      BY <3>1, <3>3, <3>4, SMT
    <3> QED
      BY <1>2, <3>1, <3>5, MallocInv
  <2>4. ASSUME NEW p \in DOMAIN live, Free(p) PROVE HeapInv'
    BY <1>2, <2>4, FreeInv
  <2>5. ASSUME NEW p \in DOMAIN live, NEW n \in Requests, ReallocInPlace(p, n) PROVE HeapInv'
    BY <1>2, <2>1, <2>5, ReallocInPlaceInv
  <2>6. ASSUME NEW p \in DOMAIN live, NEW n \in Requests, ReallocMoves(p, n) PROVE HeapInv'
    BY <1>2, <2>1, <2>6, ReallocMovesInv
  <2>7. CASE UNCHANGED vars
    BY <1>2, <2>7 DEF HeapInv, vars
  <2> QED
    BY <1>2, <2>2, <2>3, <2>4, <2>5, <2>6, <2>7 DEF Next
<1> QED
  BY <1>1, <1>2

-----------------------------------------------------------------------------
(* What the invariant says.                                                *)

\* The invariant implies the properties.
LEMMA HeapInvImplies ==
    HeapInv => TypeOK /\ BlocksTileMemory /\ PointersAreServed /\ DataSurvives
<1> SUFFICES ASSUME HeapInv PROVE TypeOK /\ BlocksTileMemory /\ PointersAreServed /\ DataSurvives
  OBVIOUS
<1>1. /\ GoodHeap(heap, mapped) /\ ServedBy(heap, live) /\ DueKept(live, data)
      /\ Holds(heap, mapped, live, data)
  BY DEF HeapInv, Holds
<1>2. /\ heap \in Seq(Block) /\ mapped \subseteq 1..(MEM_TOP - 1)
      /\ Apart(heap) /\ Covers(heap, mapped)
  BY <1>1 DEF GoodHeap
<1>3. MEM_TOP \in Nat
  BY HeapAssumption
<1>4. TypeOK
  <2>1. mapped \subseteq 1..MEM_TOP
    BY <1>2, <1>3, SMT
  <2> QED
    BY <1>1, <1>2, <2>1 DEF TypeOK, DueKept
<1>5. \A i \in 1..Len(heap) : heap[i].addr \in Nat /\ BlockEnd(heap[i]) \in Nat
  <2>1. \A i \in 1..Len(heap) : heap[i] \in Block
    BY <1>2
  <2> QED
    BY <2>1, BlockFields
<1>6. ASSUME NEW i \in 1..Len(heap), NEW a
      PROVE  a \in Extent(heap[i]) <=> a \in Int /\ heap[i].addr <= a /\ a < BlockEnd(heap[i])
  <2>1. heap[i].addr \in Nat /\ BlockEnd(heap[i]) \in Nat
    BY <1>5
  <2> QED
    BY <2>1, SMT DEF Extent
<1>7. BlocksTileMemory
  <2>1. ASSUME NEW a PROVE a \in UNION {Extent(heap[i]) : i \in 1..Len(heap)} <=> a \in mapped
    <3>1. a \in mapped => a \in Int
      BY <1>2
    <3>2. a \in Int => (a \in mapped <=> \E i \in 1..Len(heap) : heap[i].addr <= a /\ a < BlockEnd(heap[i]))
      BY <1>2 DEF Covers
    <3>3. a \in UNION {Extent(heap[i]) : i \in 1..Len(heap)}
            <=> \E i \in 1..Len(heap) : a \in Extent(heap[i])
      OBVIOUS
    <3> QED
      BY <1>6, <3>1, <3>2, <3>3
  <2>2. ASSUME NEW i \in 1..Len(heap), NEW j \in 1..Len(heap), i # j,
               NEW a \in Extent(heap[i]), a \in Extent(heap[j])
        PROVE  FALSE
    <3>1. BlockEnd(heap[i]) <= heap[j].addr \/ BlockEnd(heap[j]) <= heap[i].addr
      BY <1>2, <2>2 DEF Apart
    <3>2. /\ a \in Int /\ heap[i].addr <= a /\ a < BlockEnd(heap[i])
          /\ heap[j].addr <= a /\ a < BlockEnd(heap[j])
      BY <1>6, <2>2
    <3>3. /\ heap[i].addr \in Nat /\ BlockEnd(heap[i]) \in Nat
          /\ heap[j].addr \in Nat /\ BlockEnd(heap[j]) \in Nat
      BY <1>5
    <3> QED
      BY <3>1, <3>2, <3>3, SMT
  <2>3. UNION {Extent(heap[i]) : i \in 1..Len(heap)} = mapped
    BY <2>1
  <2> QED
    BY <2>2, <2>3 DEF BlocksTileMemory
<1>8. PointersAreServed
  <2>1. ASSUME NEW p \in DOMAIN live
        PROVE  \E i \in BlockFromPtr(heap, p) : heap[i].size >= live[p].size
    BY <1>1 DEF ServedBy, Used, BlockFromPtr
  <2>2. ASSUME NEW i \in 1..Len(heap), heap[i].used
        PROVE  Payload(heap[i]) \in DOMAIN live
    <3>1. Used(heap, Payload(heap[i]), heap[i].size)
      BY <2>2 DEF Used
    <3> QED
      BY <1>1, <3>1 DEF ServedBy
  <2> QED
    BY <2>1, <2>2 DEF PointersAreServed
<1>9. DataSurvives
  <2> SUFFICES ASSUME NEW p \in DOMAIN live PROVE data[p] >= live[p].due
    BY DEF DataSurvives
  <2>1. live[p].due \in Nat /\ data[p] \in Nat /\ live[p].due <= data[p]
    BY <1>1 DEF DueKept
  <2> QED
    BY <2>1, SMT
<1> QED
  BY <1>4, <1>7, <1>8, <1>9

\* The invariant holds always.
LEMMA HeapAlways == Spec => []HeapInv
<1>1. Init => HeapInv
  BY HeapInductive
<1>2. HeapInv /\ [Next]_vars => HeapInv'
  BY HeapInductive
<1> QED
  BY <1>1, <1>2, PTL DEF Spec

\* For every chunk size, kernel layout and set of requests the blocks of the
\* list tile the mapped memory: split_block, merge_next and request_chunk
\* neither lose a byte nor hand one out twice.
THEOREM HeapTiles == Spec => [](TypeOK /\ BlocksTileMemory)
BY HeapAlways, HeapInvImplies, PTL

\* Blocks, mapped memory and the program's pointers keep their types.
THEOREM HeapTyped == Spec => []TypeOK
BY HeapTiles, PTL

\* block_from_ptr finds, for every pointer the program holds and for no other,
\* one used block with room for what was asked.
THEOREM HeapServes == Spec => []PointersAreServed
BY HeapAlways, HeapInvImplies, PTL

\* realloc, in place or by copy, loses no byte the program may still read.
THEOREM HeapKeepsData == Spec => []DataSurvives
BY HeapAlways, HeapInvImplies, PTL

-----------------------------------------------------------------------------
(* To the program the heap is the allocator of module Allocator.           *)

\* Two regions the program holds do not overlap, and end within the memory.
LEMMA RegionsApart ==
    ASSUME NEW h, NEW m, NEW L, NEW D, Holds(h, m, L, D), NEW p \in DOMAIN L
    PROVE  /\ p > 0 /\ p + L[p].size <= MEM_TOP
           /\ \A q \in DOMAIN L : q # p => p + L[p].size <= q \/ q + L[q].size <= p
<1>1. HEADER \in Nat \ {0} /\ MEM_TOP \in Nat
  BY HeapAssumption
<1>2. GoodHeap(h, m) /\ ServedBy(h, L) /\ DueKept(L, D) /\ Apart(h)
  BY DEF Holds, GoodHeap
<1>3. ASSUME NEW q \in DOMAIN L
      PROVE  /\ q \in Nat /\ q > 0 /\ L[q].size \in Nat
             /\ \E k \in 1..Len(h) :
                  /\ Payload(h[k]) = q /\ h[k].addr \in Nat /\ BlockEnd(h[k]) \in Nat
                  /\ h[k].addr < q /\ q + L[q].size <= BlockEnd(h[k]) /\ BlockEnd(h[k]) <= MEM_TOP
  <2>1. q \in Nat /\ q > 0 /\ L[q].size \in Nat
    BY <1>1, <1>2, SMT DEF DueKept
  <2>2. PICK s \in Nat : s >= L[q].size /\ Used(h, q, s)
    BY <1>2 DEF ServedBy
  <2>3. PICK k \in 1..Len(h) : Payload(h[k]) = q /\ h[k].size = s
    BY <2>2 DEF Used
  <2>4. h[k] \in Block /\ BlockEnd(h[k]) <= MEM_TOP
    BY <1>2, BlockInside
  <2>5. /\ h[k].addr \in Nat /\ BlockEnd(h[k]) \in Nat /\ h[k].addr < Payload(h[k])
        /\ Payload(h[k]) = h[k].addr + HEADER /\ BlockEnd(h[k]) = h[k].addr + HEADER + h[k].size
    BY <2>4, BlockFields
  <2>6. q + L[q].size <= BlockEnd(h[k])
    BY <1>1, <2>1, <2>2, <2>3, <2>5, SMT
  <2> QED
    BY <2>1, <2>3, <2>4, <2>5, <2>6
<1>4. PICK k \in 1..Len(h) :
        /\ Payload(h[k]) = p /\ h[k].addr \in Nat /\ BlockEnd(h[k]) \in Nat
        /\ h[k].addr < p /\ p + L[p].size <= BlockEnd(h[k]) /\ BlockEnd(h[k]) <= MEM_TOP
  BY <1>3
<1>5. p \in Nat /\ p > 0 /\ L[p].size \in Nat
  BY <1>3
<1>6. ASSUME NEW q \in DOMAIN L, q # p
      PROVE  p + L[p].size <= q \/ q + L[q].size <= p
  <2>1. PICK j \in 1..Len(h) :
          /\ Payload(h[j]) = q /\ h[j].addr \in Nat /\ BlockEnd(h[j]) \in Nat
          /\ h[j].addr < q /\ q + L[q].size <= BlockEnd(h[j])
    BY <1>3
  <2>2. q \in Nat /\ L[q].size \in Nat
    BY <1>3
  <2>3. BlockEnd(h[j]) <= h[k].addr \/ BlockEnd(h[k]) <= h[j].addr
    BY <1>2, <1>4, <1>6, <2>1 DEF Apart
  <2> QED
    BY <1>4, <1>5, <2>1, <2>2, <2>3, SMT
<1>7. p + L[p].size <= MEM_TOP
  BY <1>1, <1>4, <1>5, SMT
<1> QED
  BY <1>5, <1>6, <1>7

\* A pointer that joins those in f, in a step that keeps the invariant, is free.
LEMMA JoinsFree ==
    ASSUME NEW f, NEW p, p \notin DOMAIN f, NEW n \in Nat, NEW d, HeapInv',
           live' = Put(f, p, [size |-> n, due |-> d])
    PROVE  Promised!IsFree(f, p, n) /\ live' = Promised!With(f, p, n, d)
<1>1. Holds(heap', mapped', live', data')
  BY DEF HeapInv
<1>2. DOMAIN live' = DOMAIN f \cup {p} /\ live'[p].size = n /\ \A q \in DOMAIN f : live'[q] = f[q]
  BY DEF Put
<1>3. /\ p > 0 /\ p + live'[p].size <= MEM_TOP
      /\ \A q \in DOMAIN live' : q # p => p + live'[p].size <= q \/ q + live'[q].size <= p
  BY <1>1, <1>2, RegionsApart
<1>4. Promised!IsFree(f, p, n)
  BY <1>2, <1>3 DEF Promised!IsFree, Promised!NULL
<1>5. live' = Promised!With(f, p, n, d)
  BY DEF Put, Promised!With
<1> QED
  BY <1>4, <1>5

\* Every call is one of the allocator's, or does not show.
LEMMA HeapStep ==
    ASSUME HeapInv, HeapInv', [Next]_vars
    PROVE  [Promised!Next]_live
<1> DEFINE Sizes == Requests \cup {c * n : c \in Counts, n \in Requests}
<1>1. Requests \subseteq 1..MaxRequest /\ Counts \subseteq Nat \ {0}
  BY HeapAssumption
<1>2. ASSUME NEW n \in 1..MaxRequest, n \in Sizes, Malloc(n)
      PROVE  [Promised!Next]_live
  <2>1. CASE UNCHANGED live
    BY <2>1
  <2>2. ASSUME NEW p \in (1..MEM_TOP) \ DOMAIN live,
               live' = Put(live, p, [size |-> n, due |-> n])
        PROVE  Promised!Alloc(n)
    <3>1. n \in Nat
      OBVIOUS
    <3>2. Promised!IsFree(live, p, n) /\ live' = Promised!With(live, p, n, n)
      BY <2>2, <3>1, JoinsFree
    <3> QED
      BY <3>2 DEF Promised!Alloc
  <2> QED
    BY <1>2, <2>1, <2>2, MallocInv DEF Promised!Next
<1>3. ASSUME NEW n \in Requests, NEW c \in Counts, Calloc(c, n)
      PROVE  [Promised!Next]_live
  <2>1. c * n <= MaxRequest /\ Malloc(c * n)
    BY <1>3 DEF Calloc
  <2>2. c \in Nat \ {0} /\ n \in Nat \ {0}
    BY <1>1
  <2>3. c * n \in Nat \ {0}
    BY <2>2, SMT
  <2>4. MaxRequest \in Int
    BY HeapAssumption DEF MaxRequest
  <2>5. c * n \in 1..MaxRequest
    BY <2>1, <2>3, <2>4, SMT
  <2>6. c * n \in Sizes
    OBVIOUS
  <2> QED
    BY <1>2, <2>1, <2>5, <2>6
<1>4. ASSUME NEW p \in DOMAIN live, Free(p)
      PROVE  Promised!Release(p)
  BY <1>4 DEF Free, Dropped, Promised!Release, Promised!Without
<1>5. ASSUME NEW p \in DOMAIN live, NEW n \in Requests, NEW q \in 1..MEM_TOP,
             q = p \/ q \notin DOMAIN live,
             live' = Put(Dropped(live, p), q, [size |-> n, due |-> Lesser(live[p].due, n)])
      PROVE  Promised!Resize(p, n)
  <2>1. n \in Nat
    BY <1>1
  <2>2. q \notin DOMAIN Dropped(live, p)
    BY <1>5 DEF Dropped
  <2>3. Dropped(live, p) = Promised!Without(live, p)
    BY DEF Dropped, Promised!Without
  <2>4. Lesser(live[p].due, n) = Promised!Due(p, n)
    BY DEF Lesser, Promised!Due
  <2>5. /\ Promised!IsFree(Dropped(live, p), q, n)
        /\ live' = Promised!With(Dropped(live, p), q, n, Lesser(live[p].due, n))
    BY <1>5, <2>1, <2>2, JoinsFree
  <2> QED
    BY <2>3, <2>4, <2>5 DEF Promised!Resize
<1>6. ASSUME NEW p \in DOMAIN live, NEW n \in Requests, ReallocInPlace(p, n)
      PROVE  Promised!Resize(p, n)
  <2>1. live' = Put(Dropped(live, p), p, [size |-> n, due |-> Lesser(live[p].due, n)])
    BY <1>6 DEF ReallocInPlace, Resized
  <2>2. p \in 1..MEM_TOP
    BY DEF HeapInv, Holds, DueKept
  <2> QED
    BY <1>5, <2>1, <2>2
<1>7. ASSUME NEW p \in DOMAIN live, NEW n \in Requests, ReallocMoves(p, n)
      PROVE  UNCHANGED live \/ Promised!Resize(p, n)
  <2>1. n \in 1..MaxRequest
    BY <1>1
  <2> QED
    BY <1>5, <1>7, <2>1, ReallocMovesInv
<1>8. CASE UNCHANGED vars
  BY <1>8 DEF vars
<1>9. \A n \in Requests : n \in Sizes /\ n \in 1..MaxRequest
  <2>1. \A n \in Requests : n \in Sizes
    OBVIOUS
  <2>2. \A n \in Requests : n \in 1..MaxRequest
    BY <1>1
  <2> HIDE DEF Sizes
  <2> QED
    BY <2>1, <2>2
<1> QED
  BY <1>2, <1>3, <1>4, <1>6, <1>7, <1>8, <1>9 DEF Next, Promised!Next

\* malloc, calloc, free and realloc together implement the abstract allocator:
\* the regions the program holds are its own, and a realloc brings the bytes
\* along that the program may still read.
THEOREM HeapImplementsAllocator == Spec => IsAllocator
<1>1. Init => Promised!Init
  BY DEF Init, Promised!Init
<1>2. HeapInv /\ HeapInv' /\ [Next]_vars => [Promised!Next]_live
  BY HeapStep
<1> QED
  BY <1>1, <1>2, HeapAlways, PTL DEF Spec, IsAllocator, Promised!Spec

-----------------------------------------------------------------------------
(* Free neighbours: who leaves more of them behind.                        *)

\* There are finitely many pairs of free neighbours.
LEMMA PairsFinite ==
    ASSUME NEW h \in Seq(Block)
    PROVE  /\ IsFiniteSet(FreePairs(h)) /\ Cardinality(FreePairs(h)) \in Nat
           /\ \A k \in FreePairs(h) : k \in 1..Len(h) /\ k + 1 \in 1..Len(h)
<1>1. Len(h) \in Nat
  OBVIOUS
<1>2. FreePairs(h) \subseteq 1..(Len(h) - 1)
  BY DEF FreePairs
<1>3. IsFiniteSet(1..(Len(h) - 1))
  BY <1>1, FS_Interval
<1>4. IsFiniteSet(FreePairs(h))
  BY <1>2, <1>3, FS_Subset
<1>5. \A k \in 1..(Len(h) - 1) : k \in 1..Len(h) /\ k + 1 \in 1..Len(h)
  BY <1>1, SMT
<1> QED
  BY <1>2, <1>4, <1>5, FS_CardinalityType

\* A set that is mapped one to one into a finite set is not larger.
LEMMA NotMore ==
    ASSUME NEW S, NEW T, IsFiniteSet(T), NEW f, f \in [S -> T],
           \A a, b \in S : f[a] = f[b] => a = b
    PROVE  IsFiniteSet(S) /\ Cardinality(S) <= Cardinality(T)
<1>1. f \in Injection(S, T)
  BY DEF Injection, IsInjective
<1> QED
  BY <1>1, FS_Injection

\* What two neighbours are.
LEMMA PairOf ==
    ASSUME NEW h \in Seq(Block), NEW k \in Int
    PROVE  k \in FreePairs(h) <=>
             /\ k \in 1..Len(h) /\ k + 1 \in 1..Len(h) /\ ~h[k].used /\ ~h[k + 1].used
             /\ BlockEnd(h[k]) = h[k + 1].addr
<1>1. Len(h) \in Nat
  OBVIOUS
<1>2. k \in 1..(Len(h) - 1) <=> k \in 1..Len(h) /\ k + 1 \in 1..Len(h)
  BY <1>1, SMT
<1> QED
  BY <1>2 DEF FreePairs, BlocksAreAdjacent

\* A free block that is taken, whether it is split or not, makes no new pair,
\* and ends the one it formed with the block before it.
LEMMA TakeAddsNoPair ==
    ASSUME NEW h, NEW m, GoodHeap(h, m), NEW i \in 1..Len(h), ~h[i].used,
           NEW need \in Nat, need <= h[i].size
    PROVE  Cardinality(FreePairs(Take(h, i, need))) <= Cardinality(FreePairs(h) \ {i - 1})
<1> DEFINE g == Split(h, i, need)
           t == Take(h, i, need)
<1>1. GoodHeap(g, m) /\ i \in 1..Len(g) /\ GoodHeap(t, m)
  BY SplitKeeps, TakeKeeps
<1>2. h \in Seq(Block) /\ g \in Seq(Block) /\ t \in Seq(Block) /\ Len(h) \in Nat /\ i \in Nat
  BY <1>1 DEF GoodHeap
<1>3. t = [g EXCEPT ![i].used = TRUE]
  BY DEF Take
<1>4. /\ Len(t) = Len(g) /\ t[i].used
      /\ \A k \in 1..Len(g) : k # i => t[k] = g[k]
      /\ \A k \in 1..Len(g) : t[k].addr = g[k].addr /\ BlockEnd(t[k]) = BlockEnd(g[k])
  <2>1. g[i] \in Block
    BY <1>1, <1>2
  <2> HIDE DEF g, t
  <2>2. Len(t) = Len(g) /\ t[i].used /\ t[i].addr = g[i].addr /\ t[i].size = g[i].size
    BY <1>1, <1>2, <1>3, <2>1 DEF Block
  <2>3. \A k \in 1..Len(g) : k # i => t[k] = g[k]
    BY <1>1, <1>2, <1>3
  <2> QED
    BY <2>2, <2>3 DEF BlockEnd, Payload
<1> DEFINE old == FreePairs(h) \ {i - 1}
<1>5. IsFiniteSet(old)
  BY <1>2, PairsFinite, FS_Subset
<1>6. CASE g = h
  <2>1. ASSUME NEW k \in FreePairs(t) PROVE k \in old
    <3>1. /\ k \in 1..Len(t) /\ k + 1 \in 1..Len(t) /\ ~t[k].used /\ ~t[k + 1].used
          /\ BlockEnd(t[k]) = t[k + 1].addr /\ k \in Int
      BY <1>2, PairsFinite, PairOf
    <3>2. k # i /\ k + 1 # i
      BY <1>4, <3>1
    <3>3. k # i - 1
      BY <1>2, <3>1, <3>2, SMT
    <3>4. h[k] = t[k] /\ h[k + 1] = t[k + 1] /\ Len(h) = Len(t)
      BY <1>4, <1>6, <3>1, <3>2
    <3>5. k \in FreePairs(h)
      BY <1>2, <3>1, <3>4, PairOf
    <3> QED
      BY <3>3, <3>5
  <2>2. FreePairs(t) \in SUBSET old
    BY <2>1
  <2> HIDE DEF old
  <2>3. Cardinality(FreePairs(t)) <= Cardinality(old)
    BY <1>5, <2>2, FS_Subset
  <2> QED
    BY <2>3 DEF old
<1>7. CASE g # h
  <2>1. /\ Len(g) = Len(h) + 1
        /\ \A k \in 1..Len(g) : k < i => g[k] = h[k]
        /\ \A k \in 1..Len(g) : k > i + 1 => g[k] = h[k - 1]
        /\ i + 1 \in 1..Len(g)
        /\ g[i + 1].addr = Payload(h[i]) + need /\ g[i + 1].size = h[i].size - need - HEADER
    <3>1. g = [k \in 1..(Len(h) + 1) |->
            CASE k < i -> h[k]
              [] k = i -> [h[i] EXCEPT !.size = need]
              [] k = i + 1 -> [addr |-> Payload(h[i]) + need,
                               size |-> h[i].size - need - HEADER, used |-> FALSE]
              [] k > i + 1 -> h[k - 1]]
      BY <1>7 DEF Split
    <3>2. Len(g) = Len(h) + 1 /\ i + 1 \in 1..(Len(h) + 1)
      BY <1>2, <3>1
    <3> HIDE DEF g
    <3>3. \A k \in 1..(Len(h) + 1) : k < i => g[k] = h[k]
      BY <3>1, SMT
    <3>4. \A k \in 1..(Len(h) + 1) : k > i + 1 => g[k] = h[k - 1]
      BY <1>2, <3>1, SMT
    <3>5. g[i + 1] = [addr |-> Payload(h[i]) + need, size |-> h[i].size - need - HEADER, used |-> FALSE]
      BY <1>2, <3>1, <3>2, SMT
    <3> QED
      BY <3>2, <3>3, <3>4, <3>5
  <2> HIDE DEF g, t
  <2>2. BlockEnd(g[i + 1]) = BlockEnd(h[i])
    <3>1. h[i] \in Block /\ HEADER \in Nat
      BY <1>2, HeapAssumption
    <3>2. h[i].addr \in Nat /\ h[i].size \in Nat
      BY <3>1, BlockFields
    <3>3. Payload(h[i]) = h[i].addr + HEADER /\ BlockEnd(h[i]) = Payload(h[i]) + h[i].size
      BY DEF BlockEnd, Payload
    <3>4. BlockEnd(g[i + 1]) = g[i + 1].addr + HEADER + g[i + 1].size
      BY DEF BlockEnd, Payload
    <3> QED
      BY <2>1, <3>1, <3>2, <3>3, <3>4, SMT
  <2> DEFINE back == [k \in FreePairs(t) |-> IF k < i THEN k ELSE k - 1]
  <2>3. ASSUME NEW k \in FreePairs(t)
        PROVE  k \in Int /\ k # i /\ k # i - 1 /\ back[k] \in old
    <3>1. /\ k \in 1..Len(g) /\ k + 1 \in 1..Len(g) /\ ~t[k].used /\ ~t[k + 1].used
          /\ BlockEnd(t[k]) = t[k + 1].addr /\ k \in Int
      BY <1>2, <1>4, PairsFinite, PairOf
    <3>2. k # i /\ k + 1 # i
      BY <1>4, <3>1
    <3>3. k # i - 1
      BY <1>2, <3>1, <3>2, SMT
    <3>4. /\ ~g[k].used /\ ~g[k + 1].used /\ BlockEnd(g[k]) = g[k + 1].addr
      BY <1>4, <3>1, <3>2
    <3>5. CASE k < i
      <4>1. k + 1 < i /\ k \in 1..Len(h) /\ k + 1 \in 1..Len(h)
        BY <1>2, <3>1, <3>2, <3>5, <2>1, SMT
      <4>2. g[k] = h[k] /\ g[k + 1] = h[k + 1]
        BY <2>1, <3>1, <3>5, <4>1
      <4>3. k \in FreePairs(h)
        BY <1>2, <3>1, <3>4, <4>1, <4>2, PairOf
      <4> QED
        BY <3>1, <3>2, <3>3, <3>5, <4>3
    <3>6. CASE k = i + 1
      <4>1. k + 1 > i + 1 /\ k + 1 - 1 = i + 1 /\ i + 1 \in 1..Len(h) /\ ~(k < i) /\ k - 1 = i /\ i # i - 1
        BY <1>2, <2>1, <3>1, <3>6, SMT
      <4>2. g[k + 1] = h[i + 1]
        BY <2>1, <3>1, <4>1
      <4>3. BlockEnd(h[i]) = h[i + 1].addr /\ ~h[i + 1].used
        BY <2>2, <3>4, <3>6, <4>2
      <4>4. i \in FreePairs(h)
        BY <1>2, <4>1, <4>3, PairOf
      <4>5. back[k] = i
        BY <4>1
      <4> QED
        BY <3>1, <3>2, <3>3, <4>1, <4>4, <4>5
    <3>7. CASE k > i + 1
      <4>1. /\ k + 1 > i + 1 /\ k + 1 - 1 = k /\ k - 1 \in 1..Len(h) /\ k - 1 + 1 = k /\ k \in 1..Len(h)
            /\ ~(k < i) /\ k - 1 # i - 1 /\ k - 1 \in Int
        BY <1>2, <2>1, <3>1, <3>7, SMT
      <4>2. g[k] = h[k - 1] /\ g[k + 1] = h[k]
        BY <2>1, <3>1, <3>7, <4>1
      <4>3. k - 1 \in FreePairs(h)
        BY <1>2, <3>4, <4>1, <4>2, PairOf
      <4>4. back[k] = k - 1
        BY <4>1
      <4> QED
        BY <3>1, <3>2, <3>3, <4>1, <4>3, <4>4
    <3>8. k < i \/ k = i + 1 \/ k > i + 1
      BY <1>2, <3>1, <3>2, SMT
    <3> QED
      BY <3>5, <3>6, <3>7, <3>8
  <2> HIDE DEF old
  <2>4. \A a, b \in FreePairs(t) : back[a] = back[b] => a = b
    <3> SUFFICES ASSUME NEW a \in FreePairs(t), NEW b \in FreePairs(t), back[a] = back[b]
                 PROVE  a = b
      OBVIOUS
    <3>1. /\ a \in Int /\ b \in Int /\ a # i /\ b # i /\ a # i - 1 /\ b # i - 1
      BY <2>3
    <3>2. (IF a < i THEN a ELSE a - 1) = (IF b < i THEN b ELSE b - 1)
      OBVIOUS
    <3> QED
      BY <1>2, <3>1, <3>2, SMT
  <2>5. back \in [FreePairs(t) -> old]
    BY <2>3
  <2> HIDE DEF back
  <2>6. Cardinality(FreePairs(t)) <= Cardinality(old)
    BY <1>5, <2>4, <2>5, NotMore
  <2> QED
    BY <2>6 DEF old, t
<1> QED
  BY <1>6, <1>7

\* A block that absorbs the next one ends the pair the two formed and makes no
\* new one: the next block's own pair becomes that of the two.
LEMMA MergeEndsPair ==
    ASSUME NEW h, NEW m, GoodHeap(h, m), NEW i \in 1..Len(h)
    PROVE  /\ Cardinality(FreePairs(MergeNext(h, i))) <= Cardinality(FreePairs(h) \ {i})
           /\ i - 1 \in FreePairs(h) => i - 1 \in FreePairs(MergeNext(h, i))
<1> DEFINE g == MergeNext(h, i)
           old == FreePairs(h) \ {i}
<1>1. GoodHeap(g, m) /\ i \in 1..Len(g)
  BY MergeKeeps
<1>2. h \in Seq(Block) /\ g \in Seq(Block) /\ Len(h) \in Nat /\ i \in Nat /\ i - 1 \in Int
  BY <1>1 DEF GoodHeap
<1>3. IsFiniteSet(old)
  BY <1>2, PairsFinite, FS_Subset
<1>4. CASE h[i].used \/ i = Len(h) \/ h[i + 1].used \/ ~BlocksAreAdjacent(h[i], h[i + 1])
  <2>1. g = h
    BY <1>4 DEF MergeNext
  <2>2. i \notin FreePairs(h)
    BY <1>2, <1>4, PairOf, SMT DEF BlocksAreAdjacent
  <2>3. old = FreePairs(h)
    BY <2>2
  <2> HIDE DEF g
  <2>4. Cardinality(old) <= Cardinality(old)
    <3>1. Cardinality(FreePairs(h)) \in Nat
      BY <1>2, PairsFinite
    <3> QED
      BY <2>3, <3>1, SMT
  <2> QED
    BY <2>1, <2>3, <2>4 DEF g
<1>5. CASE ~(h[i].used \/ i = Len(h) \/ h[i + 1].used \/ ~BlocksAreAdjacent(h[i], h[i + 1]))
  <2>1. g = [k \in 1..(Len(h) - 1) |->
            CASE k < i -> h[k]
              [] k = i -> [h[i] EXCEPT !.size = @ + HEADER + h[i + 1].size]
              [] k > i -> h[k + 1]]
    BY <1>5 DEF MergeNext
  <2>2. i + 1 \in 1..Len(h) /\ Len(h) - 1 \in Nat
    BY <1>2, <1>5, SMT
  <2>3. Len(g) = Len(h) - 1
    BY <2>1, <2>2
  <2> HIDE DEF g
  <2>4. \A k \in 1..Len(g) : k < i => g[k] = h[k]
    BY <2>1, <2>3, SMT
  <2>5. \A k \in 1..Len(g) : k > i => g[k] = h[k + 1]
    BY <1>2, <2>1, <2>3, SMT
  <2>6. g[i] = [h[i] EXCEPT !.size = @ + HEADER + h[i + 1].size]
    BY <1>1, <2>1, <2>3, SMT
  <2>7. /\ h[i] \in Block /\ h[i + 1] \in Block /\ HEADER \in Nat
        /\ h[i].addr \in Nat /\ h[i].size \in Nat /\ h[i + 1].addr \in Nat /\ h[i + 1].size \in Nat
    <3>1. h[i] \in Block /\ h[i + 1] \in Block
      BY <1>2, <2>2
    <3> QED
      BY <3>1, HeapAssumption DEF Block
  <2>8. g[i].addr = h[i].addr /\ g[i].size = h[i].size + HEADER + h[i + 1].size /\ ~g[i].used
    BY <1>5, <2>6, <2>7 DEF Block
  <2>9. BlockEnd(g[i]) = BlockEnd(h[i + 1])
    <3>1. PICK c : c = h[i + 1]
      OBVIOUS
    <3>2. h[i].addr + HEADER + h[i].size = c.addr
      BY <1>5, <3>1 DEF BlocksAreAdjacent, BlockEnd, Payload
    <3>3. c.addr \in Nat /\ c.size \in Nat /\ g[i].size = h[i].size + HEADER + c.size
      BY <2>7, <2>8, <3>1
    <3>4. PICK x \in Nat, y \in Nat : x = h[i].addr /\ y = h[i].size
      BY <2>7
    <3>5. PICK u \in Nat, v \in Nat : u = c.addr /\ v = c.size
      BY <3>3
    <3>6. g[i].addr = x /\ g[i].size = y + HEADER + v /\ x + HEADER + y = u /\ HEADER \in Nat
      BY <2>7, <2>8, <3>2, <3>3, <3>4, <3>5
    <3>7. x + HEADER + (y + HEADER + v) = u + HEADER + v
      BY <3>6, SMT
    <3>8. g[i].addr + HEADER + g[i].size = c.addr + HEADER + c.size
      BY <3>5, <3>6, <3>7
    <3> QED
      BY <3>1, <3>8 DEF BlockEnd, Payload
  <2> DEFINE back == [k \in FreePairs(g) |-> IF k < i THEN k ELSE k + 1]
  <2>10. ASSUME NEW k \in FreePairs(g)
         PROVE  k \in Int /\ back[k] \in old /\ (k < i => k \in FreePairs(h))
    <3>1. /\ k \in 1..Len(g) /\ k + 1 \in 1..Len(g) /\ ~g[k].used /\ ~g[k + 1].used
          /\ BlockEnd(g[k]) = g[k + 1].addr /\ k \in Int
      BY <1>2, PairsFinite, PairOf
    <3>2. CASE k < i
      <4>1. k \in 1..Len(h) /\ k + 1 \in 1..Len(h) /\ (k + 1 = i \/ k + 1 < i)
        BY <1>2, <2>3, <3>1, <3>2, SMT
      <4>2. g[k] = h[k]
        BY <2>4, <3>1, <3>2
      <4>3. g[k + 1].addr = h[k + 1].addr /\ ~h[k + 1].used
        <5>1. CASE k + 1 = i
          BY <1>5, <2>8, <5>1
        <5>2. CASE k + 1 < i
          BY <2>4, <3>1, <5>2
        <5> QED
          BY <4>1, <5>1, <5>2
      <4>4. k \in FreePairs(h)
        BY <1>2, <3>1, <4>1, <4>2, <4>3, PairOf
      <4>5. k # i
        BY <1>2, <3>1, <3>2, SMT
      <4>6. back[k] = k
        BY <3>2
      <4> QED
        BY <3>1, <4>4, <4>5, <4>6
    <3>3. CASE ~(k < i)
      <4>1. /\ k + 1 > i /\ k + 1 # i /\ k + 1 \in 1..Len(h) /\ k + 1 + 1 \in 1..Len(h) /\ k + 1 \in Int
            /\ (k = i \/ k > i)
        BY <1>2, <2>3, <3>1, <3>3, SMT
      <4>2. g[k + 1] = h[k + 1 + 1]
        BY <2>5, <3>1, <4>1
      <4>3. BlockEnd(g[k]) = BlockEnd(h[k + 1]) /\ ~h[k + 1].used
        <5>1. CASE k = i
          BY <1>5, <2>9, <5>1
        <5>2. CASE k > i
          BY <2>5, <3>1, <5>2
        <5> QED
          BY <4>1, <5>1, <5>2
      <4>4. k + 1 \in FreePairs(h)
        BY <1>2, <3>1, <4>1, <4>2, <4>3, PairOf
      <4>5. back[k] = k + 1
        BY <3>3
      <4> QED
        BY <3>1, <3>3, <4>1, <4>4, <4>5
    <3> QED
      BY <3>2, <3>3
  <2> HIDE DEF old
  <2>11. \A a, b \in FreePairs(g) : back[a] = back[b] => a = b
    <3> SUFFICES ASSUME NEW a \in FreePairs(g), NEW b \in FreePairs(g), back[a] = back[b]
                 PROVE  a = b
      OBVIOUS
    <3>1. a \in Int /\ b \in Int
      BY <2>10
    <3>2. (IF a < i THEN a ELSE a + 1) = (IF b < i THEN b ELSE b + 1)
      OBVIOUS
    <3> QED
      BY <1>2, <3>1, <3>2, SMT
  <2>12. back \in [FreePairs(g) -> old]
    BY <2>10
  <2>13. ASSUME i - 1 \in FreePairs(h) PROVE i - 1 \in FreePairs(g)
    <3>1. /\ i - 1 \in 1..Len(h) /\ ~h[i - 1].used /\ BlockEnd(h[i - 1]) = h[i - 1 + 1].addr
      BY <1>2, <2>13, PairOf
    <3>2. i - 1 + 1 = i /\ i - 1 \in 1..Len(g) /\ i - 1 < i
      BY <1>1, <1>2, <2>3, <3>1, SMT
    <3>3. g[i - 1] = h[i - 1]
      BY <2>4, <3>2
    <3> QED
      BY <1>1, <1>2, <2>8, <3>1, <3>2, <3>3, PairOf
  <2> HIDE DEF back
  <2>14. Cardinality(FreePairs(g)) <= Cardinality(old)
    BY <1>3, <2>11, <2>12, NotMore
  <2> QED
    BY <2>13, <2>14 DEF old, g
<1> QED
  BY <1>4, <1>5

\* A block that is freed is merged with both its neighbours, so no pair is left
\* that was not there before.
LEMMA FreeAddsNoPair ==
    ASSUME NEW h, NEW m, GoodHeap(h, m), NEW i \in 1..Len(h)
    PROVE  Cardinality(FreePairs(FreeBlock(h, i))) <= Cardinality(FreePairs(h))
<1> DEFINE u == [h EXCEPT ![i].used = FALSE]
           g == MergeNext(u, i)
           rest == FreePairs(u) \ {i}
<1>1. GoodHeap(u, m) /\ Len(u) = Len(h) /\ \A k \in 1..Len(h) : k # i => u[k] = h[k]
  <2>1. PICK v \in BOOLEAN : v = FALSE
    OBVIOUS
  <2>2. u = Marked(h, i, v)
    BY <2>1 DEF Marked
  <2> HIDE DEF u
  <2> QED
    BY <2>1, <2>2, MarkKeeps
<1>2. FreeBlock(h, i) = IF i > 1 THEN MergeNext(g, i - 1) ELSE g
  BY DEF FreeBlock
<1> HIDE DEF u
<1>3. GoodHeap(g, m) /\ i \in 1..Len(g)
  BY <1>1, MergeKeeps
<1>4. /\ h \in Seq(Block) /\ u \in Seq(Block) /\ g \in Seq(Block)
      /\ Len(h) \in Nat /\ Len(g) \in Nat /\ i \in Nat
  BY <1>1, <1>3 DEF GoodHeap
<1>5. /\ Cardinality(FreePairs(g)) <= Cardinality(rest)
      /\ i - 1 \in FreePairs(u) => i - 1 \in FreePairs(g)
  BY <1>1, MergeEndsPair
<1> HIDE DEF g
<1>6. IsFiniteSet(FreePairs(u)) /\ IsFiniteSet(FreePairs(h)) /\ IsFiniteSet(FreePairs(g))
  BY <1>4, PairsFinite
<1>7. ASSUME NEW k \in FreePairs(u), k # i, k # i - 1 PROVE k \in FreePairs(h)
  <2>1. /\ k \in 1..Len(h) /\ k + 1 \in 1..Len(h) /\ ~u[k].used /\ ~u[k + 1].used
        /\ BlockEnd(u[k]) = u[k + 1].addr /\ k \in Int
    BY <1>1, <1>4, PairsFinite, PairOf
  <2>2. k + 1 # i
    BY <1>4, <1>7, <2>1, SMT
  <2> QED
    BY <1>1, <1>4, <1>7, <2>1, <2>2, PairOf
<1>8. IsFiniteSet(rest) /\ IsFiniteSet(rest \ {i - 1}) /\ IsFiniteSet(FreePairs(g) \ {i - 1})
  BY <1>6, FS_RemoveElement
<1>9. Cardinality(rest \ {i - 1}) <= Cardinality(FreePairs(h))
  <2>1. rest \ {i - 1} \in SUBSET FreePairs(h)
    BY <1>7
  <2> QED
    BY <1>6, <2>1, FS_Subset
<1>10. /\ Cardinality(FreePairs(g)) \in Nat /\ Cardinality(FreePairs(h)) \in Nat /\ Cardinality(rest) \in Nat
       /\ Cardinality(rest \ {i - 1}) = IF i - 1 \in rest THEN Cardinality(rest) - 1 ELSE Cardinality(rest)
       /\ Cardinality(FreePairs(g) \ {i - 1})
            = IF i - 1 \in FreePairs(g) THEN Cardinality(FreePairs(g)) - 1 ELSE Cardinality(FreePairs(g))
  BY <1>6, <1>8, FS_RemoveElement, FS_CardinalityType
<1>11. CASE i > 1
  <2>1. i - 1 \in 1..Len(g) /\ i - 1 # i
    BY <1>3, <1>4, <1>11, SMT
  <2>2. Cardinality(FreePairs(MergeNext(g, i - 1))) <= Cardinality(FreePairs(g) \ {i - 1})
    BY <1>3, <2>1, MergeEndsPair
  <2>3. GoodHeap(MergeNext(g, i - 1), m)
    BY <1>3, <2>1, MergeKeeps
  <2>4. Cardinality(FreePairs(MergeNext(g, i - 1))) \in Nat
    BY <2>3, PairsFinite DEF GoodHeap
  <2>5. i - 1 \in rest => i - 1 \in FreePairs(g)
    BY <1>5, <2>1
  <2>6. Cardinality(FreePairs(g) \ {i - 1}) <= Cardinality(rest \ {i - 1})
    <3>1. CASE i - 1 \in rest
      BY <1>5, <1>10, <2>5, <3>1, SMT
    <3>2. CASE i - 1 \notin rest
      BY <1>5, <1>10, <3>2, SMT
    <3> QED
      BY <3>1, <3>2
  <2> QED
    BY <1>2, <1>9, <1>10, <1>11, <2>2, <2>4, <2>6, SMT
<1>12. CASE ~(i > 1)
  <2>1. i - 1 = 0
    BY <1>3, <1>4, <1>12, SMT
  <2>2. i - 1 \notin rest
    BY <1>4, <2>1, PairsFinite, SMT
  <2> QED
    BY <1>2, <1>5, <1>9, <1>10, <1>12, <2>2, SMT
<1> QED
  BY <1>11, <1>12

-----------------------------------------------------------------------------
\* malloc adds no pair: the block it takes was free, and the block of a new
\* chunk, which may lie right behind a free one, is taken at once.
LEMMA MallocAddsNoPair ==
    ASSUME NEW h, NEW m, GoodHeap(h, m), NEW n, Sound(AlignUp(n)),
           NEW r \in MallocResults(h, m, n)
    PROVE  Cardinality(FreePairs(r.heap)) <= Cardinality(FreePairs(h))
<1> DEFINE need == AlignUp(n)
<1>1. need \in Nat /\ Sound(need)
  BY DEF Sound
<1> HIDE DEF need
<1>2. h \in Seq(Block) /\ Len(h) \in Nat /\ IsFiniteSet(FreePairs(h)) /\ Cardinality(FreePairs(h)) \in Nat
  BY PairsFinite DEF GoodHeap
<1>3. CASE Fits(h, need) # {}
  <2> DEFINE i == Min(Fits(h, need))
  <2>1. i \in Fits(h, need)
    <3>1. Fits(h, need) \subseteq Nat
      BY DEF Fits
    <3> QED
      BY <1>3, <3>1, LeastIn
  <2>2. r.heap = Take(h, i, need)
    BY <1>3 DEF MallocResults, need
  <2> HIDE DEF i
  <2>3. i \in 1..Len(h) /\ ~h[i].used /\ need <= h[i].size
    <3>1. i \in 1..Len(h) /\ ~h[i].used /\ h[i].size >= need
      BY <2>1 DEF Fits
    <3>2. h[i].size \in Nat
      BY <3>1, BlockInside, BlockFields
    <3> QED
      BY <1>1, <3>1, <3>2, SMT
  <2>4. Cardinality(FreePairs(r.heap)) <= Cardinality(FreePairs(h) \ {i - 1})
    BY <1>1, <2>2, <2>3, TakeAddsNoPair
  <2>5. Cardinality(FreePairs(h) \ {i - 1}) <= Cardinality(FreePairs(h)) /\ Cardinality(FreePairs(h) \ {i - 1}) \in Nat
    BY <1>2, FS_Subset, FS_CardinalityType
  <2>6. Cardinality(FreePairs(r.heap)) \in Nat
    BY <1>1, <2>2, <2>3, TakeKeeps, PairsFinite DEF GoodHeap
  <2> QED
    BY <1>2, <2>4, <2>5, <2>6, SMT
<1>4. CASE Fits(h, need) = {}
  <2>1. r.heap = h \/ \E c \in RequestChunk(h, m, need) : r.heap = Take(c.heap, Len(c.heap), need)
    BY <1>4 DEF MallocResults, need
  <2>2. CASE r.heap = h
    BY <1>2, <2>2, SMT
  <2>3. ASSUME NEW c \in RequestChunk(h, m, need), r.heap = Take(c.heap, Len(c.heap), need)
        PROVE  Cardinality(FreePairs(r.heap)) <= Cardinality(FreePairs(h))
    <3> DEFINE g == c.heap
    <3>1. GoodHeap(g, c.mapped) /\ Len(g) \in 1..Len(g) /\ ~g[Len(g)].used /\ need <= g[Len(g)].size
      BY <1>1, RequestKeeps
    <3>2. PICK b : g = Append(h, b)
      <4>1. PICK a \in Bases(m, ChunkSize(need)) :
              c = [heap |-> Append(h, [addr |-> a, size |-> ChunkSize(need) - HEADER, used |-> FALSE]),
                   mapped |-> m \cup (a..(a + ChunkSize(need) - 1))]
        BY <2>3 DEF RequestChunk
      <4> QED
        BY <4>1
    <3> HIDE DEF g
    <3>3. g \in Seq(Block) /\ Len(g) = Len(h) + 1 /\ \A k \in 1..Len(h) : g[k] = h[k]
      BY <1>2, <3>1, <3>2 DEF GoodHeap
    <3>4. IsFiniteSet(FreePairs(g) \ {Len(g) - 1})
      BY <3>3, PairsFinite, FS_Subset
    <3>5. ASSUME NEW k \in FreePairs(g), k # Len(g) - 1 PROVE k \in FreePairs(h)
      <4>1. /\ k \in 1..Len(g) /\ k + 1 \in 1..Len(g) /\ ~g[k].used /\ ~g[k + 1].used
            /\ BlockEnd(g[k]) = g[k + 1].addr /\ k \in Int
        BY <3>3, PairsFinite, PairOf
      <4>2. k \in 1..Len(h) /\ k + 1 \in 1..Len(h)
        BY <1>2, <3>3, <3>5, <4>1, SMT
      <4> QED
        BY <1>2, <3>3, <4>1, <4>2, PairOf
    <3>6. FreePairs(g) \ {Len(g) - 1} \in SUBSET FreePairs(h)
      BY <3>5
    <3>7. /\ Cardinality(FreePairs(g) \ {Len(g) - 1}) <= Cardinality(FreePairs(h))
          /\ Cardinality(FreePairs(g) \ {Len(g) - 1}) \in Nat
      BY <1>2, <3>4, <3>6, FS_Subset, FS_CardinalityType
    <3>8. /\ Cardinality(FreePairs(Take(g, Len(g), need))) <= Cardinality(FreePairs(g) \ {Len(g) - 1})
          /\ Cardinality(FreePairs(Take(g, Len(g), need))) \in Nat
      BY <1>1, <3>1, TakeAddsNoPair, TakeKeeps, PairsFinite DEF GoodHeap
    <3> QED
      BY <1>2, <2>3, <3>7, <3>8, SMT DEF g
  <2> QED
    BY <2>1, <2>2, <2>3
<1> QED
  BY <1>3, <1>4

\* Rounding up keeps the order.
LEMMA AlignUpOrder ==
    ASSUME NEW a \in 1..MaxRequest, NEW b \in 1..MaxRequest, a <= b
    PROVE  AlignUp(a) <= AlignUp(b)
<1>1. /\ ALIGN \in Nat \ {0} /\ HEADER \in Nat \ {0} /\ SIZE_MAX \in Nat
  BY HeapAssumption
<1>2. a \in Nat /\ b \in Nat /\ a + ALIGN - 1 <= SIZE_MAX /\ b + ALIGN - 1 <= SIZE_MAX
  BY <1>1, SMT DEF MaxRequest
<1> DEFINE x == AlignUp(a)
           y == AlignUp(b)
<1>3. /\ x \in Nat /\ x % ALIGN = 0 /\ a <= x /\ x <= a + ALIGN - 1
      /\ y \in Nat /\ y % ALIGN = 0 /\ b <= y
  BY <1>2, AlignUpRounds
<1> HIDE DEF x, y
<1>4. y < x => y + ALIGN <= x
  BY <1>1, <1>3, MultiplesApart
<1>5. x <= y
  BY <1>1, <1>2, <1>3, <1>4, SMT
<1> QED
  BY <1>5 DEF x, y

\* No block the program holds is so much larger than what was asked for last
\* that it could be split for as much.
Slack(h, L) ==
    \A p \in DOMAIN L :
        /\ L[p].size \in 1..MaxRequest
        /\ \A s : Used(h, p, s) => s <= AlignUp(L[p].size) + HEADER + ALIGN

\* A block is not split by less than a header, an alignment and one byte.
LEMMA SplitRest ==
    ASSUME NEW h, NEW m, GoodHeap(h, m), NEW i \in 1..Len(h), NEW need \in Nat, need <= h[i].size
    PROVE  /\ Split(h, i, need)[i].size <= need + HEADER + ALIGN
           /\ h[i].size <= need + HEADER + ALIGN => Split(h, i, need) = h
<1>1. HEADER \in Nat /\ ALIGN \in Nat /\ SIZE_MAX \in Nat /\ MEM_TOP \in Nat /\ MEM_TOP + HEADER + ALIGN <= SIZE_MAX
  BY HeapAssumption
<1>2. h[i] \in Block /\ h[i].size \in Nat /\ h[i].size < MEM_TOP /\ Len(h) \in Nat /\ h \in Seq(Block)
  <2>1. h[i] \in Block /\ BlockEnd(h[i]) <= MEM_TOP /\ h[i].size < MEM_TOP
    BY BlockInside
  <2> QED
    BY <2>1, BlockFields DEF GoodHeap
<1>3. Plus(need, HEADER + ALIGN) = need + HEADER + ALIGN
  BY <1>1, <1>2, SMT DEF Plus
<1>4. CASE h[i].size <= need + HEADER + ALIGN
  BY <1>3, <1>4 DEF Split
<1>5. CASE ~(h[i].size <= need + HEADER + ALIGN)
  <2>1. Split(h, i, need)[i] = [h[i] EXCEPT !.size = need]
    BY <1>2, <1>3, <1>5, SMT DEF Split
  <2>2. Split(h, i, need)[i].size = need
    BY <1>2, <2>1 DEF Block
  <2> QED
    BY <1>1, <1>5, <2>2, SMT
<1> QED
  BY <1>4, <1>5

\* Taking a block leaves it within its slack.
LEMMA TakeSlack ==
    ASSUME NEW h, NEW m, GoodHeap(h, m), NEW i \in 1..Len(h), ~h[i].used,
           NEW need \in Nat, need <= h[i].size, NEW s, Used(Take(h, i, need), Payload(h[i]), s)
    PROVE  s <= need + HEADER + ALIGN
<1> DEFINE g == Split(h, i, need)
           t == Take(h, i, need)
<1>1. GoodHeap(g, m) /\ i \in 1..Len(g) /\ g[i].addr = h[i].addr /\ GoodHeap(t, m)
  BY SplitKeeps, TakeKeeps
<1>2. g[i].size <= need + HEADER + ALIGN
  BY SplitRest
<1>3. t = [g EXCEPT ![i].used = TRUE]
  BY DEF Take
<1> HIDE DEF g, t
<1>4. g \in Seq(Block) /\ g[i] \in Block
  BY <1>1 DEF GoodHeap
<1>5. Len(t) = Len(g) /\ t[i].addr = g[i].addr /\ t[i].size = g[i].size
  BY <1>1, <1>3, <1>4 DEF Block
<1>6. PICK k \in 1..Len(t) : Payload(t[k]) = Payload(h[i]) /\ t[k].size = s
  BY DEF Used, t
<1>7. Payload(t[i]) = Payload(h[i])
  BY <1>1, <1>5 DEF Payload
<1>8. k = i
  BY <1>1, <1>5, <1>6, <1>7, PayloadUnique
<1> QED
  BY <1>2, <1>5, <1>6, <1>8

\* A block that malloc hands out has what was asked for, and no more than the
\* slack above it.
LEMMA MallocSlack ==
    ASSUME NEW h, NEW m, GoodHeap(h, m), NEW n, Sound(AlignUp(n)),
           NEW r \in MallocResults(h, m, n), r.ptr # NULL, NEW s, Used(r.heap, r.ptr, s)
    PROVE  s <= AlignUp(n) + HEADER + ALIGN
<1> DEFINE need == AlignUp(n)
<1>1. need \in Nat /\ Sound(need)
  BY DEF Sound
<1> HIDE DEF need
<1>2. ASSUME NEW g, NEW mm, GoodHeap(g, mm), NEW i \in 1..Len(g), ~g[i].used, need <= g[i].size,
             r = [heap |-> Take(g, i, need), mapped |-> mm, ptr |-> Payload(g[i])]
      PROVE  s <= need + HEADER + ALIGN
  <2>1. Used(Take(g, i, need), Payload(g[i]), s)
    BY <1>2
  <2> QED
    BY <1>1, <1>2, <2>1, TakeSlack
<1>3. CASE Fits(h, need) # {}
  <2> DEFINE i == Min(Fits(h, need))
  <2>1. i \in Fits(h, need)
    <3>1. Fits(h, need) \subseteq Nat
      BY DEF Fits
    <3> QED
      BY <1>3, <3>1, LeastIn
  <2>2. r = [heap |-> Take(h, i, need), mapped |-> m, ptr |-> Payload(h[i])]
    BY <1>3 DEF MallocResults, need
  <2> HIDE DEF i
  <2>3. i \in 1..Len(h) /\ ~h[i].used /\ need <= h[i].size
    <3>1. i \in 1..Len(h) /\ ~h[i].used /\ h[i].size >= need
      BY <2>1 DEF Fits
    <3>2. h[i].size \in Nat
      BY <3>1, BlockInside, BlockFields
    <3> QED
      BY <1>1, <3>1, <3>2, SMT
  <2> QED
    BY <1>2, <2>2, <2>3 DEF need
<1>4. CASE Fits(h, need) = {}
  <2>1. PICK c \in RequestChunk(h, m, need) :
          r = [heap |-> Take(c.heap, Len(c.heap), need), mapped |-> c.mapped,
               ptr |-> Payload(c.heap[Len(c.heap)])]
    BY <1>4 DEF MallocResults, need
  <2>2. /\ GoodHeap(c.heap, c.mapped) /\ Len(c.heap) \in 1..Len(c.heap)
        /\ ~c.heap[Len(c.heap)].used /\ need <= c.heap[Len(c.heap)].size
    BY <1>1, RequestKeeps
  <2> QED
    BY <1>2, <2>1, <2>2 DEF need
<1> QED
  BY <1>3, <1>4

\* A pointer that gets a block within its slack, while the other used blocks
\* stay, keeps every block within it.
LEMMA PutSlack ==
    ASSUME NEW h, NEW L, Slack(h, L), NEW g, NEW q, NEW n \in 1..MaxRequest, NEW d,
           \A s : Used(g, q, s) => s <= AlignUp(n) + HEADER + ALIGN,
           \A p, s : p # q => (Used(g, p, s) => Used(h, p, s))
    PROVE  Slack(g, Put(L, q, [size |-> n, due |-> d]))
<1> DEFINE M == Put(L, q, [size |-> n, due |-> d])
<1>1. DOMAIN M = DOMAIN L \cup {q} /\ M[q].size = n /\ \A p \in DOMAIN L : p # q => M[p] = L[p]
  BY DEF Put
<1> HIDE DEF M
<1>2. ASSUME NEW p \in DOMAIN M
      PROVE  /\ M[p].size \in 1..MaxRequest
             /\ \A s : Used(g, p, s) => s <= AlignUp(M[p].size) + HEADER + ALIGN
  <2>1. CASE p = q
    BY <1>1, <2>1
  <2>2. CASE p # q
    BY <1>1, <2>2 DEF Slack
  <2> QED
    BY <2>1, <2>2
<1>3. Slack(g, M)
  BY <1>2 DEF Slack
<1> QED
  BY <1>3 DEF M

\* A pointer that is given up, while no used block is new.
LEMMA DropSlack ==
    ASSUME NEW h, NEW L, Slack(h, L), NEW g, NEW q,
           \A p, s : Used(g, p, s) => Used(h, p, s)
    PROVE  Slack(g, Dropped(L, q))
BY DEF Slack, Dropped

HeapTight == HeapInv /\ Slack(heap, live)

\* What a step must do not to be a shrinking realloc.
Fragments == Cardinality(FreePairs(heap')) > Cardinality(FreePairs(heap))
Shrinks == \E p \in DOMAIN live : p \in DOMAIN live' /\ live'[p].size < live[p].size

\* malloc and calloc.
LEMMA MallocTight ==
    ASSUME HeapTight, NEW n \in 1..MaxRequest, Malloc(n)
    PROVE  HeapTight' /\ ~Fragments
<1>1. HeapInv /\ Slack(heap, live) /\ GoodHeap(heap, mapped)
  BY DEF HeapTight, HeapInv, Holds
<1>2. HeapInv'
  BY <1>1, MallocInv
<1>3. Sound(AlignUp(n)) /\ n \in Nat /\ AlignUp(n) \in Nat /\ n <= AlignUp(n) /\ n > 0
  BY RequestSound DEF Sound
<1>4. PICK r \in MallocResults(heap, mapped, n) :
        /\ heap' = r.heap /\ mapped' = r.mapped
        /\ IF r.ptr = NULL THEN UNCHANGED <<live, data>> ELSE Fresh(r.ptr, n)
  BY DEF Malloc
<1>5. ~Fragments
  <2>1. Cardinality(FreePairs(heap')) <= Cardinality(FreePairs(heap))
    BY <1>1, <1>3, <1>4, MallocAddsNoPair
  <2>2. Cardinality(FreePairs(heap')) \in Nat /\ Cardinality(FreePairs(heap)) \in Nat
    BY <1>1, <1>2, PairsFinite DEF HeapInv, Holds, GoodHeap
  <2> QED
    BY <2>1, <2>2, SMT DEF Fragments
<1>6. Slack(heap', live')
  <2>1. AlignUp(n) > 0
    BY <1>3, SMT
  <2>2. CASE r.ptr = NULL /\ r.heap = heap /\ r.mapped = mapped
    BY <1>1, <1>4, <2>2
  <2>3. CASE Handed(heap, mapped, AlignUp(n), r)
    <3>1. r.ptr # NULL
      BY <2>3, SMT DEF Handed, NULL
    <3>2. live' = Put(live, r.ptr, [size |-> n, due |-> n])
      BY <1>4, <3>1 DEF Fresh
    <3>3. \A s : Used(r.heap, r.ptr, s) => s <= AlignUp(n) + HEADER + ALIGN
      BY <1>1, <1>3, <3>1, MallocSlack
    <3>4. \A p, s : p # r.ptr => (Used(r.heap, p, s) => Used(heap, p, s))
      BY <2>3 DEF Handed
    <3> QED
      BY <1>1, <1>4, <3>2, <3>3, <3>4, PutSlack
  <2> QED
    BY <1>1, <1>3, <2>1, <2>2, <2>3, MallocKeeps
<1> QED
  BY <1>2, <1>5, <1>6 DEF HeapTight

\* free.
LEMMA FreeTight ==
    ASSUME HeapTight, NEW p \in DOMAIN live, Free(p)
    PROVE  HeapTight' /\ ~Fragments
<1>1. HeapInv /\ Slack(heap, live) /\ GoodHeap(heap, mapped)
  BY DEF HeapTight, HeapInv, Holds
<1>2. HeapInv'
  BY <1>1, FreeInv
<1>3. PICK i \in BlockFromPtr(heap, p) : heap' = FreeBlock(heap, i)
  BY DEF Free
<1>4. i \in 1..Len(heap) /\ live' = Dropped(live, p)
  BY DEF BlockFromPtr, Free
<1>5. Cardinality(FreePairs(heap')) <= Cardinality(FreePairs(heap))
  BY <1>1, <1>3, <1>4, FreeAddsNoPair
<1>6. Cardinality(FreePairs(heap')) \in Nat /\ Cardinality(FreePairs(heap)) \in Nat
  BY <1>1, <1>2, PairsFinite DEF HeapInv, Holds, GoodHeap
<1>7. ~Fragments
  BY <1>5, <1>6, SMT DEF Fragments
<1>8. \A q, s : Used(heap', q, s) => Used(heap, q, s)
  BY <1>1, <1>3, <1>4, FreeKeeps
<1>9. Slack(heap', live')
  BY <1>1, <1>4, <1>8, DropSlack
<1> QED
  BY <1>2, <1>7, <1>9 DEF HeapTight

\* realloc in place: it splits only what is larger than the slack of the new
\* size, so the old size was larger.
LEMMA ReallocInPlaceTight ==
    ASSUME HeapTight, NEW p \in DOMAIN live, NEW n \in 1..MaxRequest, ReallocInPlace(p, n)
    PROVE  HeapTight' /\ (Fragments => Shrinks)
<1>1. HeapInv /\ Slack(heap, live) /\ GoodHeap(heap, mapped) /\ Holds(heap, mapped, live, data)
  BY DEF HeapTight, HeapInv, Holds
<1>2. HeapInv'
  BY <1>1, ReallocInPlaceInv
<1> DEFINE need == AlignUp(n)
<1>3. need \in Nat /\ n <= need /\ n \in Nat
  BY RequestSound DEF Sound
<1>4. PICK i \in BlockFromPtr(heap, p) : heap[i].size >= need /\ heap' = Split(heap, i, need)
  BY DEF ReallocInPlace
<1>5. /\ i \in 1..Len(heap) /\ heap[i].used /\ Payload(heap[i]) = p /\ heap[i].size \in Nat
  BY <1>1, HeldBlock
<1>6. need <= heap[i].size
  BY <1>3, <1>4, <1>5, SMT
<1>7. live' = Put(live, p, [size |-> n, due |-> Lesser(live[p].due, n)])
  BY PutDropped DEF ReallocInPlace, Resized
<1> HIDE DEF need
<1>8. /\ heap'[i].size <= need + HEADER + ALIGN
      /\ heap[i].size <= need + HEADER + ALIGN => heap' = heap
  BY <1>1, <1>3, <1>4, <1>5, <1>6, SplitRest
<1>9. /\ GoodHeap(heap', mapped) /\ i \in 1..Len(heap') /\ heap'[i].addr = heap[i].addr
      /\ \A q, s : q # p => (Used(heap', q, s) <=> Used(heap, q, s))
  BY <1>1, <1>3, <1>4, <1>5, <1>6, SplitKeeps
<1>10. ASSUME NEW s, Used(heap', p, s) PROVE s <= AlignUp(n) + HEADER + ALIGN
  <2>1. PICK k \in 1..Len(heap') : Payload(heap'[k]) = p /\ heap'[k].size = s
    BY <1>10 DEF Used
  <2>2. Payload(heap'[i]) = p
    BY <1>5, <1>9 DEF Payload
  <2>3. k = i
    BY <1>9, <2>1, <2>2, PayloadUnique
  <2> QED
    BY <1>8, <2>1, <2>3 DEF need
<1>11. Slack(heap', live')
  BY <1>1, <1>7, <1>9, <1>10, PutSlack
<1>12. ASSUME Fragments, ~(n < live[p].size) PROVE FALSE
  <2>1. live[p].size \in 1..MaxRequest /\ heap[i].size <= AlignUp(live[p].size) + HEADER + ALIGN
    BY <1>1, <1>5 DEF Slack, Used
  <2>2. MaxRequest \in Int /\ HEADER \in Nat /\ ALIGN \in Nat
    BY HeapAssumption, SMT DEF MaxRequest
  <2>3. live[p].size <= n
    BY <1>3, <1>12, <2>1, <2>2, SMT
  <2>4. AlignUp(live[p].size) <= need
    BY <2>1, <2>3, AlignUpOrder DEF need
  <2>5. AlignUp(live[p].size) \in Nat
    BY <2>1, RequestSound DEF Sound
  <2>6. heap[i].size <= need + HEADER + ALIGN
    BY <1>3, <1>5, <2>1, <2>2, <2>4, <2>5, SMT
  <2>7. heap' = heap
    BY <1>8, <2>6
  <2>8. Cardinality(FreePairs(heap)) \in Nat
    BY <1>1, PairsFinite DEF GoodHeap
  <2> QED
    BY <1>12, <2>7, <2>8, SMT DEF Fragments
<1>13. p \in DOMAIN live' /\ live'[p].size = n
  BY <1>7 DEF Put
<1>14. Fragments => Shrinks
  BY <1>12, <1>13 DEF Shrinks
<1> QED
  BY <1>2, <1>11, <1>14 DEF HeapTight

\* realloc that moves.
LEMMA ReallocMovesTight ==
    ASSUME HeapTight, NEW p \in DOMAIN live, NEW n \in 1..MaxRequest, ReallocMoves(p, n)
    PROVE  HeapTight' /\ ~Fragments
<1>1. HeapInv /\ Slack(heap, live) /\ GoodHeap(heap, mapped)
  BY DEF HeapTight, HeapInv, Holds
<1>2. HeapInv'
  BY <1>1, ReallocMovesInv
<1> DEFINE need == AlignUp(n)
<1>3. Sound(need) /\ need \in Nat /\ n <= need /\ n \in Nat /\ n > 0
  BY RequestSound DEF Sound
<1>4. AlignUp(need) = need
  BY <1>3, AlignUpTwice
<1>5. PICK i \in BlockFromPtr(heap, p), r \in MallocResults(heap, mapped, need) :
        /\ heap[i].size < need /\ mapped' = r.mapped
        /\ IF r.ptr = NULL
           THEN heap' = r.heap /\ UNCHANGED <<live, data>>
           ELSE /\ \E j \in BlockFromPtr(r.heap, p) : heap' = FreeBlock(r.heap, j)
                /\ Resized(p, r.ptr, n, Copied(heap[i].size, need))
  BY <1>1, ReallocMovesOn
<1>6. need > 0
  BY <1>3, SMT
<1>7. Cardinality(FreePairs(r.heap)) <= Cardinality(FreePairs(heap))
  BY <1>1, <1>3, <1>4, MallocAddsNoPair
<1>8. Cardinality(FreePairs(heap')) \in Nat /\ Cardinality(FreePairs(heap)) \in Nat
  BY <1>1, <1>2, PairsFinite DEF HeapInv, Holds, GoodHeap
<1>9. CASE r.ptr = NULL /\ r.heap = heap /\ r.mapped = mapped
  <2>1. heap' = heap /\ live' = live
    BY <1>5, <1>9
  <2>2. ~Fragments
    BY <1>8, <2>1, SMT DEF Fragments
  <2> QED
    BY <1>1, <1>2, <2>1, <2>2 DEF HeapTight
<1>10. CASE Handed(heap, mapped, need, r)
  <2>1. /\ GoodHeap(r.heap, r.mapped) /\ r.ptr # NULL
        /\ \A x, s : x # r.ptr => (Used(r.heap, x, s) <=> Used(heap, x, s))
    BY <1>10, SMT DEF Handed, NULL
  <2>2. PICK j \in BlockFromPtr(r.heap, p) : heap' = FreeBlock(r.heap, j)
    BY <1>5, <2>1
  <2>3. j \in 1..Len(r.heap)
    BY DEF BlockFromPtr
  <2>4. Cardinality(FreePairs(heap')) <= Cardinality(FreePairs(r.heap))
    BY <2>1, <2>2, <2>3, FreeAddsNoPair
  <2>5. Cardinality(FreePairs(r.heap)) \in Nat
    BY <2>1, PairsFinite DEF GoodHeap
  <2>6. ~Fragments
    BY <1>7, <1>8, <2>4, <2>5, SMT DEF Fragments
  <2>7. \A x, s : Used(heap', x, s) => Used(r.heap, x, s)
    BY <2>1, <2>2, <2>3, FreeKeeps
  <2>8. live' = Put(Dropped(live, p), r.ptr, [size |-> n, due |-> Lesser(live[p].due, n)])
    BY <1>5, <2>1 DEF Resized
  <2>9. Slack(heap, Dropped(live, p))
    BY <1>1, DropSlack
  <2>10. \A s : Used(heap', r.ptr, s) => s <= AlignUp(n) + HEADER + ALIGN
    BY <1>1, <1>3, <1>4, <2>1, <2>7, MallocSlack
  <2>11. \A x, s : x # r.ptr => (Used(heap', x, s) => Used(heap, x, s))
    BY <2>1, <2>7
  <2>12. Slack(heap', live')
    BY <2>8, <2>9, <2>10, <2>11, PutSlack
  <2> QED
    BY <1>2, <2>6, <2>12 DEF HeapTight
<1> QED
  BY <1>1, <1>3, <1>4, <1>6, <1>9, <1>10, MallocKeeps

\* No step but a shrinking realloc leaves more pairs than it found.
LEMMA TightStep ==
    ASSUME HeapTight, [Next]_vars
    PROVE  HeapTight' /\ (Fragments => Shrinks)
<1>1. Requests \subseteq 1..MaxRequest /\ Counts \subseteq Nat \ {0}
  BY HeapAssumption
<1>2. CASE UNCHANGED vars
  <2>1. heap' = heap /\ live' = live /\ mapped' = mapped /\ data' = data
    BY <1>2 DEF vars
  <2>2. Cardinality(FreePairs(heap)) \in Nat
    BY PairsFinite DEF HeapTight, HeapInv, Holds, GoodHeap
  <2>3. ~Fragments
    BY <2>1, <2>2, SMT DEF Fragments
  <2> QED
    BY <2>1, <2>3 DEF HeapTight, HeapInv
<1>3. ASSUME NEW n \in Requests, Malloc(n) PROVE HeapTight' /\ ~Fragments
  BY <1>1, <1>3, MallocTight
<1>4. ASSUME NEW n \in Requests, NEW c \in Counts, Calloc(c, n) PROVE HeapTight' /\ ~Fragments
  <2>1. c * n <= MaxRequest /\ Malloc(c * n)
    BY <1>4 DEF Calloc
  <2>2. n \in Nat /\ n > 0 /\ c \in Nat /\ c > 0
    BY <1>1
  <2>3. c * n \in Nat /\ c * n > 0
    BY <2>2, SMT
  <2>4. MaxRequest \in Int
    BY HeapAssumption, SMT DEF MaxRequest
  <2>5. c * n \in 1..MaxRequest
    BY <2>1, <2>3, <2>4, SMT
  <2> QED
    BY <2>1, <2>5, MallocTight
<1>5. ASSUME NEW p \in DOMAIN live, Free(p) PROVE HeapTight' /\ ~Fragments
  BY <1>5, FreeTight
<1>6. ASSUME NEW p \in DOMAIN live, NEW n \in Requests, ReallocInPlace(p, n)
      PROVE  HeapTight' /\ (Fragments => Shrinks)
  BY <1>1, <1>6, ReallocInPlaceTight
<1>7. ASSUME NEW p \in DOMAIN live, NEW n \in Requests, ReallocMoves(p, n) PROVE HeapTight' /\ ~Fragments
  BY <1>1, <1>7, ReallocMovesTight
<1> QED
  BY <1>2, <1>3, <1>4, <1>5, <1>6, <1>7 DEF Next

\* free merges its block with both neighbours, malloc takes the block of a new
\* chunk before anything can follow it, and realloc splits a block only for a
\* smaller size: whatever else the program calls, the number of free neighbours
\* left unmerged does not grow.
THEOREM HeapMergesAll == Spec => ShrinkAloneFragments
<1>1. Init => HeapTight
  <2>1. Init => HeapInv
    BY HeapInductive
  <2>2. Init => Slack(heap, live)
    BY DEF Init, Slack
  <2> QED
    BY <2>1, <2>2 DEF HeapTight
<1>2. HeapTight /\ [Next]_vars => HeapTight'
  BY TightStep
<1>3. HeapTight /\ [Next]_vars =>
        [Cardinality(FreePairs(heap')) > Cardinality(FreePairs(heap)) =>
           \E p \in DOMAIN live : p \in DOMAIN live' /\ live'[p].size < live[p].size]_vars
  BY TightStep DEF Fragments, Shrinks
<1> QED
  BY <1>1, <1>2, <1>3, PTL DEF Spec, ShrinkAloneFragments
=============================================================================
