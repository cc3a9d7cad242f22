----------------------------- MODULE MCWrEngine -----------------------------
(***************************************************************************)
(* WrEngine on a 16-byte address space with one-byte beats: one to three    *)
(* bursts of one or two beats, a stride that does not divide the working    *)
(* set.                                                                     *)
(***************************************************************************)
EXTENDS WrEngine, Bitwise

AddrAnd(x, m) == x & m

MCParams ==
    { [wgs |-> 8, stride |-> 3, num |-> n, burst |-> b, init |-> 4] :
          n \in 1 .. 3, b \in 1 .. 2 }
=============================================================================
