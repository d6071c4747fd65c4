------------------------------- MODULE Loader -------------------------------
(***************************************************************************)
(* What a boot loader promises: when control leaves it for good, memory    *)
(* holds the kernel's segments as its file has them, and what is told of   *)
(* memory is true, and complete if it fits.  The loader may look at both   *)
(* while it works, give up, or be lost; once it has left, what it handed   *)
(* over stays.  Where control goes is not part of this promise.            *)
(***************************************************************************)

VARIABLES state,      \* "loading", "left", "refused" or "lost"
          wanted,     \* the memory image the kernel's file asks for
          truth,      \* what is the case of memory: units and their use
          fits,       \* whether the map of it has room in the boot info
          placed,     \* what is in memory for the kernel
          told        \* what the boot info says of memory

vars == <<state, wanted, truth, fits, placed, told>>

Init == state = "loading" /\ placed = <<>> /\ told = {}

\* The file is read; the firmware changes its map.
Learn == /\ state = "loading"
         /\ UNCHANGED <<state, placed, told>>

Leave == /\ state = "loading" /\ state' = "left"
         /\ placed' = wanted
         /\ told' \subseteq truth
         /\ fits => told' = truth
         /\ UNCHANGED <<wanted, truth, fits>>

GiveUp == /\ state = "loading" /\ state' \in {"refused", "lost"}
          /\ UNCHANGED <<wanted, truth, fits, placed, told>>

Next == Learn \/ Leave \/ GiveUp

Spec == Init /\ [][Next]_vars
=============================================================================
