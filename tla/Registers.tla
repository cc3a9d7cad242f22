----------------------------- MODULE Registers ------------------------------
(***************************************************************************)
(* Arithmetic of fixed-width registers, shared by the hardware modules.     *)
(***************************************************************************)
EXTENDS Integers

\* a + b in a register that holds 0 .. m-1, for a and b that fit in it.
AddMod(a, b, m) == IF a + b < m THEN a + b ELSE a + b - m

\* A wire as a number.
One(b) == IF b THEN 1 ELSE 0
=============================================================================
