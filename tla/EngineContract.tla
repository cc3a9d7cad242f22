--------------------------- MODULE EngineContract ---------------------------
(***************************************************************************)
(* What lt_engine and the host rely on in an engine, whichever channel it   *)
(* drives: a start begins a run of num operations, the run's operations     *)
(* complete one at a time, end_of_exec rises when all num have completed    *)
(* and at no other time, and only a reset ends a run early.  RdEngine and   *)
(* WrEngine are shown to implement it.                                      *)
(***************************************************************************)
EXTENDS Naturals

CONSTANT Nums      \* operation counts a run may have

VARIABLES
    busy,          \* a run is in progress
    num,           \* its operation count
    completed,     \* operations of the last run begun that have completed
    ended          \* end_of_exec

vars == <<busy, num, completed, ended>>

Init == busy = FALSE /\ num \in Nums /\ completed = 0 /\ ended = FALSE

Begin ==
    /\ ~busy
    /\ busy' = TRUE /\ num' \in Nums /\ completed' = 0 /\ ended' = FALSE

Complete ==
    /\ busy /\ completed < num
    /\ completed' = completed + 1
    /\ UNCHANGED <<busy, num, ended>>

End ==
    /\ busy /\ completed = num
    /\ busy' = FALSE /\ ended' = TRUE
    /\ UNCHANGED <<num, completed>>

Lower == ended /\ ended' = FALSE /\ UNCHANGED <<busy, num, completed>>

Abort == busy /\ busy' = FALSE /\ UNCHANGED <<num, completed, ended>>

Next == Begin \/ Complete \/ End \/ Lower \/ Abort

Spec == Init /\ [][Next]_vars
=============================================================================
