-------------------------------- MODULE Paper --------------------------------
(***************************************************************************)
(* What a text console promises: a sheet without end, typed on row by row. *)
(* The drivers of the 80 x 25 text screen, in TextScreen, show a part of  *)
(* it.                                                                     *)
(***************************************************************************)
EXTENDS Integers, Sequences

CONSTANTS Width, TabStop,
          Blank              \* what a place shows that was not written on

BlankRow == [x \in 0 .. Width - 1 |-> Blank]
CleanSheet == [rows |-> <<BlankRow>>, col |-> 0]

Feed(p) == [rows |-> Append(p.rows, BlankRow), col |-> 0]
\* The carriage moved to a column; beyond the last one, to the next row.
MoveTo(p, col) == IF col >= Width THEN Feed(p) ELSE [p EXCEPT !.col = col]
Return(p) == MoveTo(p, 0)
Tab(p) == MoveTo(p, (p.col \div TabStop + 1) * TabStop)
Strike(p, mark) ==
  MoveTo([p EXCEPT !.rows[Len(p.rows)] = [@ EXCEPT ![p.col] = mark]], p.col + 1)
=============================================================================
