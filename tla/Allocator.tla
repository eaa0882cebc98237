----------------------------- MODULE Allocator -----------------------------
(***************************************************************************)
(* What malloc, free and realloc promise a program (stdlib.h): memory that  *)
(* is the program's alone until it gives it back, and whose first bytes     *)
(* survive a realloc.                                                       *)
(***************************************************************************)
EXTENDS Integers, FiniteSets

CONSTANTS
    Sizes,       \* sizes the program asks for
    MEM_TOP      \* end of the memory

VARIABLE live    \* pointers the program holds: [size, due]

NULL == 0

\* A place for n bytes that overlaps none of the regions in use.
IsFree(held, p, n) ==
    /\ p > NULL /\ p + n <= MEM_TOP
    /\ \A q \in DOMAIN held : p + n <= q \/ q + held[q].size <= p

Without(held, p) == [q \in DOMAIN held \ {p} |-> held[q]]
With(held, p, n, due) ==
    [q \in DOMAIN held \cup {p} |-> IF q = p THEN [size |-> n, due |-> due] ELSE held[q]]

\* due counts the bytes from the start that the program put there and may read.
Due(p, n) == IF live[p].due <= n THEN live[p].due ELSE n

Alloc(n) == \E p \in 1..MEM_TOP : live' = With(live, p, n, n) /\ IsFree(live, p, n)
Release(p) == live' = Without(live, p)
Resize(p, n) ==
    \E q \in 1..MEM_TOP :
        /\ live' = With(Without(live, p), q, n, Due(p, n))
        /\ IsFree(Without(live, p), q, n)

Init == live = <<>>
Next ==
    \/ \E n \in Sizes : Alloc(n)
    \/ \E p \in DOMAIN live : Release(p) \/ \E n \in Sizes : Resize(p, n)

Spec == Init /\ [][Next]_live
=============================================================================
