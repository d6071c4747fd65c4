------------------------------- MODULE MCVmm -------------------------------
(***************************************************************************)
(* Tables of six entries: frames 0-5 are mapped one by one, 6-17 large.    *)
(* Frames 2-5 hold the static tables; of the others 1, 6-9 may be free, or *)
(* 20 too, which the kernel does not reach.                                *)
(***************************************************************************)
EXTENDS Vmm

McPools == {{1, 6, 7, 8, 9}, {1, 6, 7, 20}}
\* A region of its own, with two page tables, and one that shares its PML4.
McVirts == {<<3, 0, 0, 0>>, <<3, 0, 0, 5>>, <<3, 0, 1, 0>>, <<3, 1, 0, 0>>}
Display(a, p, h) == [address |-> a, width |-> 1, height |-> h, pitch |-> p, bpp |-> 1]
\* In pages of 2: one without a height, which is mapped no more than NoDisplay;
\* one page; one page's worth that straddles two.
McDisplays == {Display(60, 2, 0), Display(60, 2, 1), Display(61, 2, 1)}
\* A display of eight pages, which needs four tables.
BigDisplay == {Display(60, 4, 4)}
McTargets == {40, 41}
McSmallPools == {{1, 6, 7}}
============================================================================
