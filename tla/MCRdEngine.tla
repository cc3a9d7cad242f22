----------------------------- MODULE MCRdEngine -----------------------------
(***************************************************************************)
(* RdEngine on a 16-byte address space: a working set of 8 at 4, strides 2  *)
(* and 3 (3 does not divide the working set), up to three bursts.           *)
(***************************************************************************)
EXTENDS RdEngine, Bitwise

AddrAnd(x, m) == x & m

MCParams ==
    { [wgs |-> 8, stride |-> 3, num |-> n, init |-> 4, lat |-> l] :
          n \in 1 .. 3, l \in BOOLEAN }

StrideParams ==
    { [wgs |-> 8, stride |-> 2, num |-> 3, init |-> 4, lat |-> l] : l \in BOOLEAN }
=============================================================================
