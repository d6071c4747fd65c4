------------------------------- MODULE MCV1Boot ------------------------------
(***************************************************************************)
(* All lists of up to three tags before the end tag; the boot information  *)
(* in low memory, in the second and the last large page of the first GiB,  *)
(* and beyond it.                                                          *)
(***************************************************************************)
EXTENDS V1Boot

Tag(type, size, name, lower, upper) ==
  [type |-> type, size |-> size, name |-> name, lower |-> lower, upper |-> upper]
SomeTags == {Tag(2, 13, "grub", 0, 0), Tag(2, 16, "other", 0, 0), Tag(4, 16, "", 639, 130048),
             Tag(9, 20, "", 0, 0)}
McNames == {"grub", "other", "stray", ""}
McPages == {0, 1, 511, 600}
McTagLists == {Append(l, Tag(0, 8, "", 0, 0)) :
                 l \in UNION {[1 .. n -> SomeTags] : n \in 0 .. 3}}
McStrays == {Tag(0, 0, "stray", 0, 0), Tag(2, 24, "stray", 0, 0)}
=============================================================================
