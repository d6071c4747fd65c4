------------------------------- MODULE MCHeap -------------------------------
(***************************************************************************)
(* A small arena for the heap, in words of 8 bytes: the header is 3 words, *)
(* the alignment 2, as in the code.                                        *)
(***************************************************************************)
EXTENDS Heap, FiniteSetsExt

\* heap.c:21 calls heap_used the "Currently allocated bytes": the sizes of the
\* blocks that are not free.
UsedExact ==
  heap_used = MapThenSumSet(LAMBDA a : hdr[a].size, {a \in Blocks : ~hdr[a].is_free})
=============================================================================
