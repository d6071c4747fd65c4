------------------------------ MODULE Numerals -------------------------------
(***************************************************************************)
(* What the reports of both kernels and of stage 1 are to look like: lines *)
(* and numbers in decimal.  The loops that divide and reverse are in the   *)
(* modules of the programs; here a numeral is defined from the number.     *)
(***************************************************************************)
EXTENDS Integers, Sequences

CR == "CR"
LF == "LF"
Digit == [d \in 0 .. 9 |-> <<"0","1","2","3","4","5","6","7","8","9">>[d + 1]]

\* The powers of ten.
Tens[k \in Nat] == IF k = 0 THEN 1 ELSE 10 * Tens[k-1]

\* How many digits n has, and its digits, the first one first, without leading
\* zeros.
Width[n \in Nat] == IF n < 10 THEN 1 ELSE 1 + Width[n \div 10]
Decimal(n) == [i \in 1 .. Width[n] |-> Digit[(n \div Tens[Width[n] - i]) % 10]]
=============================================================================
