------------------------------ MODULE AppHeap ------------------------------
(***************************************************************************)
(* The heap of the graphical and network programs (app_heap.inc): a list of *)
(* blocks, each a header followed by its payload, carved out of chunks that *)
(* the kernel maps.  The doubly linked list is the sequence heap; size_t    *)
(* arithmetic wraps at SIZE_MAX + 1.  Every block carries the magic number, *)
(* so its tests always succeed.                                             *)
(***************************************************************************)
EXTENDS Integers, Sequences, FiniteSetsExt

CONSTANTS
    ALIGN, HEADER,                      \* both in bytes; HEADER is header_size()
    CAPACITY, CHUNK_MIN, CHUNK_MAX,     \* limits on what is asked of the kernel
    SIZE_MAX,                           \* largest size_t
    MEM_TOP,                            \* end of the memory the kernel can map
    ChunkBases,                         \* addresses at which it may map a chunk
    Requests,                           \* sizes the program asks for
    Counts                              \* counts the program passes to calloc

\* Beyond this size need + header_size wraps.
MaxRequest == SIZE_MAX + 1 - HEADER - ALIGN

ASSUME HeapAssumption ==
    /\ ALIGN \in Nat \ {0} /\ HEADER \in Nat \ {0}
    /\ HEADER % ALIGN = 0 /\ (SIZE_MAX + 1) % ALIGN = 0
    /\ CAPACITY \in Nat /\ CHUNK_MIN \in Nat /\ CHUNK_MAX \in Nat
    /\ CHUNK_MIN > HEADER /\ CHUNK_MIN <= CHUNK_MAX
    /\ SIZE_MAX \in Nat /\ MEM_TOP \in Nat
    /\ MEM_TOP + HEADER + ALIGN <= SIZE_MAX /\ CHUNK_MAX + ALIGN <= SIZE_MAX
    /\ ChunkBases \subseteq 1..MEM_TOP
    /\ Requests \subseteq 1..MaxRequest /\ Counts \subseteq Nat \ {0}

VARIABLES
    heap,      \* the blocks in list order: [addr, size, used]
    mapped,    \* addresses the kernel has given to the heap
    live,      \* what the program holds: pointer -> [size, due], due being the
               \* bytes from the start that it put there and may still read
    data       \* pointer -> the bytes of it that are really there

vars == <<heap, mapped, live, data>>

NULL == 0

\* The sum of two values of type size_t.
Plus(a, b) == IF a + b <= SIZE_MAX THEN a + b ELSE a + b - (SIZE_MAX + 1)

AlignUp(n) == LET x == Plus(n, ALIGN - 1) IN x - (x % ALIGN)

Payload(b) == b.addr + HEADER
BlockEnd(b) == Payload(b) + b.size
Extent(b) == b.addr..(BlockEnd(b) - 1)

BlocksAreAdjacent(b, c) == BlockEnd(b) = c.addr

-----------------------------------------------------------------------------
(* The list operations.                                                    *)

\* Mutant: the test forgets the header and the alignment, and is off by one.
SplitAlways(h, i, need) ==
    IF h[i].size < need
    THEN h
    ELSE [k \in 1..(Len(h) + 1) |->
            CASE k < i -> h[k]
              [] k = i -> [h[i] EXCEPT !.size = need]
              [] k = i + 1 -> [addr |-> Payload(h[i]) + need,
                               size |-> h[i].size - need - HEADER, used |-> FALSE]
              [] k > i + 1 -> h[k - 1]]

\* Block i keeps need bytes; what is left becomes a free block after it, if it
\* is worth a header.
Split(h, i, need) ==
    IF h[i].size <= Plus(need, HEADER + ALIGN)
    THEN h
    ELSE [k \in 1..(Len(h) + 1) |->
            CASE k < i -> h[k]
              [] k = i -> [h[i] EXCEPT !.size = need]
              [] k = i + 1 -> [addr |-> Payload(h[i]) + need,
                               size |-> h[i].size - need - HEADER, used |-> FALSE]
              [] k > i + 1 -> h[k - 1]]

\* Mutant: the header of the absorbed block is lost.
MergeNextLosesHeader(h, i) ==
    IF h[i].used \/ i = Len(h) \/ h[i + 1].used \/ ~BlocksAreAdjacent(h[i], h[i + 1])
    THEN h
    ELSE [k \in 1..(Len(h) - 1) |->
            CASE k < i -> h[k]
              [] k = i -> [h[i] EXCEPT !.size = @ + h[i + 1].size]
              [] k > i -> h[k + 1]]

\* Mutant: the next block is absorbed even if it is in use.
MergeNextInUse(h, i) ==
    IF h[i].used \/ i = Len(h) \/ ~BlocksAreAdjacent(h[i], h[i + 1])
    THEN h
    ELSE [k \in 1..(Len(h) - 1) |->
            CASE k < i -> h[k]
              [] k = i -> [h[i] EXCEPT !.size = @ + HEADER + h[i + 1].size]
              [] k > i -> h[k + 1]]

\* Block i absorbs the next one if both are free and nothing lies between.
MergeNext(h, i) ==
    IF h[i].used \/ i = Len(h) \/ h[i + 1].used \/ ~BlocksAreAdjacent(h[i], h[i + 1])
    THEN h
    ELSE [k \in 1..(Len(h) - 1) |->
            CASE k < i -> h[k]
              [] k = i -> [h[i] EXCEPT !.size = @ + HEADER + h[i + 1].size]
              [] k > i -> h[k + 1]]

\* The index of the used block a pointer names.
BlockFromPtr(h, p) == {i \in 1..Len(h) : Payload(h[i]) = p /\ h[i].used}

ChunkSize(need) ==
    LET clamped == IF CAPACITY < CHUNK_MIN THEN CHUNK_MIN
                   ELSE IF CAPACITY > CHUNK_MAX THEN CHUNK_MAX ELSE CAPACITY
    IN  AlignUp(IF clamped < Plus(need, HEADER) THEN Plus(need, HEADER) ELSE clamped)

\* Where the kernel may map a chunk: vm_alloc, or else user_heap_alloc.
Bases(m, size) ==
    {b \in ChunkBases : b + size <= MEM_TOP /\ (b..(b + size - 1)) \cap m = {}}

\* What request_chunk may leave behind: the new block at the tail, if any.
RequestChunk(h, m, need) ==
    LET size == ChunkSize(need)
    IN  {[heap |-> Append(h, [addr |-> b, size |-> size - HEADER, used |-> FALSE]),
          mapped |-> m \cup (b..(b + size - 1))] : b \in Bases(m, size)}

\* Mutant: the block is handed out but not marked as used.
TakeUnmarked(h, i, need) == Split(h, i, need)

Take(h, i, need) == [Split(h, i, need) EXCEPT ![i].used = TRUE]

Fits(h, need) == {i \in 1..Len(h) : ~h[i].used /\ h[i].size >= need}

\* malloc: the first block that fits, else a new chunk, else NULL.
MallocResults(h, m, n) ==
    LET need == AlignUp(n)
    IN  IF Fits(h, need) # {}
        THEN LET i == Min(Fits(h, need))
             IN  {[heap |-> Take(h, i, need), mapped |-> m, ptr |-> Payload(h[i])]}
        ELSE {[heap |-> h, mapped |-> m, ptr |-> NULL]} \cup
             {[heap |-> Take(c.heap, Len(c.heap), need), mapped |-> c.mapped,
               ptr |-> Payload(c.heap[Len(c.heap)])] : c \in RequestChunk(h, m, need)}

\* Mutant: the block before the freed one is not looked at.
FreeBlockForward(h, i) == MergeNext([h EXCEPT ![i].used = FALSE], i)

\* free of the used block i.
FreeBlock(h, i) ==
    LET g == MergeNext([h EXCEPT ![i].used = FALSE], i)
    IN  IF i > 1 THEN MergeNext(g, i - 1) ELSE g

-----------------------------------------------------------------------------
(* The program's calls.  free of anything but a used block's payload, and   *)
(* malloc and calloc of nothing, do nothing.                                *)

Lesser(a, b) == IF a <= b THEN a ELSE b

\* The function f with p mapped to v, and without p.
Put(f, p, v) == [q \in DOMAIN f \cup {p} |-> IF q = p THEN v ELSE f[q]]
Dropped(f, p) == [q \in DOMAIN f \ {p} |-> f[q]]

\* The program writes all n bytes it gets.
Fresh(p, n) ==
    /\ live' = Put(live, p, [size |-> n, due |-> n])
    /\ data' = Put(data, p, n)

Malloc(n) ==
    \E r \in MallocResults(heap, mapped, n) :
        /\ heap' = r.heap /\ mapped' = r.mapped
        /\ IF r.ptr = NULL THEN UNCHANGED <<live, data>> ELSE Fresh(r.ptr, n)

\* A product that overflows is refused, the others go to malloc (those above
\* MaxRequest are left out, as for malloc).
Calloc(count, n) ==
    /\ count <= SIZE_MAX \div n
    /\ count * n <= MaxRequest
    /\ Malloc(count * n)

Free(p) ==
    /\ p \in DOMAIN live
    /\ \E i \in BlockFromPtr(heap, p) : heap' = FreeBlock(heap, i)
    /\ live' = Dropped(live, p) /\ data' = Dropped(data, p)
    /\ UNCHANGED mapped

\* p's region is now at q, with at most bytes of what was in it.
Resized(p, q, n, bytes) ==
    /\ live' = Put(Dropped(live, p), q, [size |-> n, due |-> Lesser(live[p].due, n)])
    /\ data' = Put(Dropped(data, p), q, Lesser(data[p], bytes))

\* The block is large enough, and may be split.
ReallocInPlace(p, n) ==
    /\ p \in DOMAIN live
    /\ \E i \in BlockFromPtr(heap, p) :
         /\ heap[i].size >= AlignUp(n)
         /\ heap' = Split(heap, i, AlignUp(n))
    /\ Resized(p, p, n, AlignUp(n))
    /\ UNCHANGED mapped

\* The block and a free next one, which merge_next leaves alone because the
\* block itself is in use.
Grown(h, i) == IF i < Len(h) /\ ~h[i + 1].used THEN MergeNext(h, i) ELSE h

\* Mutant: the old size is taken to include the header.
CopiedLessHeader(old_size, size) == Lesser(old_size - HEADER, size)

\* How much memcpy takes along.
Copied(old_size, size) == Lesser(old_size, size)

\* It is not: the bytes move to a new block, or NULL is returned.
ReallocMoves(p, n) ==
    /\ p \in DOMAIN live
    /\ \E i \in BlockFromPtr(heap, p) :
         LET size == AlignUp(n)
             g == Grown(heap, i)
         IN  /\ heap[i].size < size
             /\ IF g[i].size >= size
                THEN /\ heap' = Split(g, i, size)
                     /\ Resized(p, p, n, size)
                     /\ UNCHANGED mapped
                ELSE \E r \in MallocResults(g, mapped, size) :
                       /\ mapped' = r.mapped
                       /\ IF r.ptr = NULL
                          THEN heap' = r.heap /\ UNCHANGED <<live, data>>
                          ELSE /\ \E j \in BlockFromPtr(r.heap, p) : heap' = FreeBlock(r.heap, j)
                               /\ Resized(p, r.ptr, n, Copied(heap[i].size, size))

Init == heap = <<>> /\ mapped = {} /\ live = <<>> /\ data = <<>>

Next ==
    \/ \E n \in Requests : Malloc(n) \/ \E c \in Counts : Calloc(c, n)
    \/ \E p \in DOMAIN live :
         Free(p) \/ \E n \in Requests : ReallocInPlace(p, n) \/ ReallocMoves(p, n)

Spec == Init /\ [][Next]_vars

-----------------------------------------------------------------------------
(* Properties.                                                             *)

Block == [addr : 1..MEM_TOP, size : Nat, used : BOOLEAN]

\* Every block and every pointer has its type.
TypeOK ==
    /\ heap \in Seq(Block)
    /\ mapped \subseteq 1..MEM_TOP
    /\ DOMAIN live \subseteq 1..MEM_TOP /\ DOMAIN data = DOMAIN live
    /\ \A p \in DOMAIN live : live[p] \in [size : Nat, due : Nat] /\ data[p] \in Nat

\* The headers and payloads of the list cover the kernel's chunks exactly, and
\* no two blocks overlap: splitting and merging neither lose a byte nor hand
\* one out twice, in whatever order the chunks lie in memory.
BlocksTileMemory ==
    /\ UNION {Extent(heap[i]) : i \in 1..Len(heap)} = mapped
    /\ \A i, j \in 1..Len(heap) : i # j => Extent(heap[i]) \cap Extent(heap[j]) = {}

\* Every pointer the program holds is the payload of one used block with room
\* for what was asked, and no used block is forgotten: block_from_ptr finds
\* exactly what malloc and realloc returned.
PointersAreServed ==
    /\ \A p \in DOMAIN live : \E i \in BlockFromPtr(heap, p) : heap[i].size >= live[p].size
    /\ \A i \in 1..Len(heap) : heap[i].used => Payload(heap[i]) \in DOMAIN live

\* realloc keeps the bytes the program may still read.
DataSurvives == \A p \in DOMAIN live : data[p] >= live[p].due

\* Neighbours in the list that a free should have merged.
FreePairs(h) ==
    {i \in 1..(Len(h) - 1) : ~h[i].used /\ ~h[i + 1].used /\ BlocksAreAdjacent(h[i], h[i + 1])}

\* Only a realloc that shrinks a block in place leaves a new pair of free
\* neighbours unmerged: every other call, chunks that happen to be contiguous
\* included, leaves no more of them than it found.
ShrinkAloneFragments ==
    [][Cardinality(FreePairs(heap')) > Cardinality(FreePairs(heap)) =>
         \E p \in DOMAIN live : p \in DOMAIN live' /\ live'[p].size < live[p].size]_vars

\* To the program the heap is an allocator: regions it holds never overlap each
\* other, and a moved region arrives with its bytes due.
Promised == INSTANCE Allocator WITH
    Sizes <- Requests \cup {c * n : c \in Counts, n \in Requests}
IsAllocator == Promised!Spec
=============================================================================
