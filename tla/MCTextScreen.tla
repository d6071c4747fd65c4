---------------------------- MODULE MCTextScreen -----------------------------
(***************************************************************************)
(* A screen of two rows of four columns, tabs of two; eight calls, enough  *)
(* to scroll by newlines, tabs or a filled row, to write after it, and to  *)
(* write a last row over.                                                  *)
(***************************************************************************)
EXTENDS TextScreen
=============================================================================
