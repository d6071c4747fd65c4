---------------------------- MODULE AddressSpace ----------------------------
(***************************************************************************)
(* What the virtual memory manager promises its callers (vmm.h), and what  *)
(* a processor with a translation cache makes of it: a page is mapped to   *)
(* the frame last asked for it, no request disturbs another page, and an   *)
(* unmapped page is gone at once.  A page that was mapped already may go   *)
(* on being seen at its former frame, until the processor lets go of it.   *)
(* A request may also be the last: the kernel stops on a page fault.       *)
(***************************************************************************)
EXTENDS Integers

CONSTANTS Pages, Targets

VARIABLES state,    \* "up" while the manager's tables are in force
          map,      \* pages mapped |-> the frame asked for
          seen      \* pages the processor can access |-> the frame it reaches

vars == <<state, map, seen>>

Nothing == [v \in {} |-> 0]
With(m, v, f) == [w \in DOMAIN m \cup {v} |-> IF w = v THEN f ELSE m[w]]
Without(m, v) == [w \in DOMAIN m \ {v} |-> m[w]]

Init == state = "down" /\ map = Nothing /\ seen = Nothing

SetUp == state = "down" /\ state' = "up" /\ UNCHANGED <<map, seen>>

\* A fault leaves what is mapped as it was.
Stop == state = "up" /\ state' = "stopped" /\ UNCHANGED <<map, seen>>

Map(v, f) == /\ state = "up"
             /\ map' = With(map, v, f)
             /\ \/ seen' = With(seen, v, f)
                \/ v \in DOMAIN seen /\ seen' = seen
             /\ UNCHANGED state

Unmap(v) == /\ state = "up"
            /\ map' = Without(map, v) /\ seen' = Without(seen, v)
            /\ UNCHANGED state

\* The processor lets go of what it had cached of page v.
Settle(v) == /\ v \in DOMAIN map
             /\ seen' = With(seen, v, map[v])
             /\ UNCHANGED <<state, map>>

Next == \/ SetUp
        \/ Stop
        \/ \E v \in Pages : \/ \E f \in Targets : Map(v, f)
                            \/ Unmap(v)
                            \/ Settle(v)

Spec == Init /\ [][Next]_vars
=============================================================================
