--------------------------- MODULE PageAllocator ---------------------------
(***************************************************************************)
(* What the physical memory manager promises its callers (pmm.h): after    *)
(* one set-up, every frame of a fixed pool is at any time either free or   *)
(* held by exactly one caller; a request is refused only when nothing is   *)
(* free, and a refusal is never mistaken X     *)
(* return a frame nobody gave it: the pool then has it too, and a promise  *)
(* less is made of it.                                                     *)
(***************************************************************************)
EXTENDS Naturals

CONSTANTS PageSize,     \* bytes of a frame
          NULL          \* the answer to a refused request

VARIABLES ready,        \* the pool has been set up
          free,         \* frames nobody holds
          held,         \* frames a caller holds
          gifts,        \* frames that came to the pool from a caller it gave none
          out           \* the answer of the latest request

vars == <<ready, free, held, gifts, out>>

Init == /\ ready = FALSE
        /\ free = {}
        /\ held = {} /\ gifts = {}
        /\ out = NULL

SetUp == /\ ~ready
         /\ ready' = TRUE
         /\ free' \subseteq Nat
         /\ UNCHANGED <<held, gifts, out>>

Grant(f) == /\ f \in free
            /\ f * PageSize # NULL \/ f \in gifts
            /\ free' = free \ {f}
            /\ held' = held \cup {f}
            /\ out' = f * PageSize
            /\ UNCHANGED <<ready, gifts>>

Refuse == /\ free = {}
          /\ out' = NULL
          /\ UNCHANGED <<ready, free, held, gifts>>

Return(f) == /\ f \in held
             /\ held' = held \ {f}
             /\ free' = free \cup {f}
             /\ UNCHANGED <<ready, gifts, out>>

\* The frame joins the pool.
Give(f) == /\ f \notin free \cup held
           /\ free' = free \cup {f}
           /\ gifts' = gifts \cup {f}
           /\ UNCHANGED <<ready, held, out>>

Next == \/ SetUp
        \/ \E f \in free : Grant(f)
        \/ Refuse
        \/ \E f \in held : Return(f)
        \/ \E f \in free' : Give(f)

Spec == Init /\ [][Next]_vars
============================================================================
