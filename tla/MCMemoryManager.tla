-------------------------- MODULE MCMemoryManager ---------------------------
(***************************************************************************)
(* Two client threads on three pages of two bytes; sizes that round up.     *)
(***************************************************************************)
EXTENDS MemoryManager

CONSTANTS t1, t2
TwoThreads == {t1, t2}
=============================================================================
