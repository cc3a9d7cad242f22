-------------------------- MODULE MCHostBenchmarks --------------------------
(***************************************************************************)
(* HostBenchmarks with two CPU threads over four settings, the last two of  *)
(* which overflow the 4-bit int; a GPU sweep of four threads in three       *)
(* shapes, launched three times each; and chases that go once round.        *)
(***************************************************************************)
EXTENDS HostBenchmarks

MCPrograms ==
    { [kind |-> "sweep", workers |-> 4, size |-> 32,
       rounds |-> <<[b |-> 1, s |-> 4], [b |-> 2, s |-> 4], [b |-> 4, s |-> 4]>>],
      [kind |-> "throughput", workers |-> 2, size |-> 16,
       rounds |-> <<[op |-> 3, stride |-> 2, burst |-> 1], [op |-> 3, stride |-> 2, burst |-> 2],
                    [op |-> 3, stride |-> 4, burst |-> 1], [op |-> 3, stride |-> 4, burst |-> 2]>>],
      [kind |-> "chase_cpu", workers |-> 1, size |-> 64,
       rounds |-> <<[op |-> 8, stride |-> 1], [op |-> 4, stride |-> 2]>>],
      [kind |-> "chase_gpu", workers |-> 1, size |-> 12,
       rounds |-> <<[op |-> 4, stride |-> 3]>>] }
=============================================================================
