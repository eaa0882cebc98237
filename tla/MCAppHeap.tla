----------------------------- MODULE MCAppHeap -----------------------------
(***************************************************************************)
(* An instance of AppHeap for TLC, in units of 16 bytes: a header of two    *)
(* units as in the program, an alignment of two (so that sizes are rounded  *)
(* up), and chunks of 12 units instead of 2 MiB.  Two chunks fit: next to   *)
(* each other in either order, or with a gap between them.                  *)
(***************************************************************************)
EXTENDS AppHeap

MCChunkBases == {2, 14, 16}
MCRequests == {1, 5, MaxRequest}
MCCounts == {3}
=============================================================================
