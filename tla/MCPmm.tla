------------------------------- MODULE MCPmm -------------------------------
(***************************************************************************)
(* Small memory maps for the physical memory manager: 2-byte frames, two   *)
(* frames to a bitmap byte, the bitmap at frame 2.                         *)
(***************************************************************************)
EXTENDS Pmm

Usable(b, l) == [base |-> b, length |-> l, type |-> "usable"]
Reserved(b, l) == [base |-> b, length |-> l, type |-> "reserved"]

\* Low and extended memory around a reserved hole, as every PC reports it.
Holed == <<Usable(0, 3), Reserved(3, 1), Usable(4, 12)>>
\* A firmware hole above the last usable byte.
ReservedTop == <<Usable(2, 10), Reserved(12, 6)>>
\* All memory usable: the bitmap, frame 0 and the counter overlap it.
Flat == <<Usable(0, 20)>>
\* A usable region which starts in the middle of a frame.
Unaligned == <<Reserved(0, 3), Usable(3, 7)>>
\* Less memory than one frame.
Tiny == <<Usable(0, 1)>>

McAligned == {<<>>, Holed, ReservedTop, Flat, Tiny}
McUnaligned == McAligned \cup {Unaligned}
=============================================================================
