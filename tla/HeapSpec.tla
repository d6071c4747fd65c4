------------------------------ MODULE HeapSpec ------------------------------
(***************************************************************************)
(* What the kernel heap promises its callers (heap.h): live allocations    *)
(* are disjoint ranges of the arena, at least as long as was asked for,    *)
(* and stay where they are until they are freed; and when nothing is live  *)
(* the whole arena is available again, so a request that fits it is        *)
(* granted.                                                                *)
(***************************************************************************)
EXTENDS Naturals

CONSTANTS HeapStart, HeapEnd,   \* the arena is HeapStart .. HeapEnd-1
          Capacity,             \* the largest block of an empty heap
          Slack,                \* what rounding may add to a request
          Sizes,                \* the sizes callers ask for
          NULL

VARIABLES live,                 \* start of each live allocation |-> its size
          asked,                \* the size the latest answer is for
          out                   \* the latest answer

vars == <<live, asked, out>>

Init == live = [p \in {} |-> 0] /\ asked = 0 /\ out = NULL

Disjoint(p, n) ==
  \A q \in DOMAIN live : p + n <= q \/ q + live[q] <= p

Grant(p, n) ==
  /\ p # NULL /\ HeapStart <= p /\ p + n <= HeapEnd
  /\ p \notin DOMAIN live
  /\ Disjoint(p, n)
  /\ live' = [q \in DOMAIN live \cup {p} |-> IF q = p THEN n ELSE live[q]]
  /\ asked' = n /\ out' = p

Refuse(n) ==
  /\ DOMAIN live # {} \/ n + Slack > Capacity
  /\ asked' = n /\ out' = NULL
  /\ UNCHANGED live

RefuseZero == asked' = 0 /\ out' = NULL /\ UNCHANGED live

Release(p) ==
  /\ live' = [q \in DOMAIN live \ {p} |-> live[q]]
  /\ UNCHANGED <<asked, out>>

Next == \/ \E n \in Sizes : \/ \E p \in HeapStart..HeapEnd : Grant(p, n)
                            \/ Refuse(n)
        \/ RefuseZero
        \/ \E p \in DOMAIN live : Release(p)

Spec == Init /\ [][Next]_vars
=============================================================================
