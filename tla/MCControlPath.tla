--------------------------- MODULE MCControlPath ----------------------------
(***************************************************************************)
(* ControlPath with two channels, on a board of each kind, and two          *)
(* invocations whose enables and latency channels differ.                   *)
(***************************************************************************)
EXTENDS ControlPath

MCParamRegs == <<"wgs", "stride">>

\* Channel numbers that differ in one bit: a sampler sees the old or the new.
OldOrNew(old, new) == {old, new}

HbmJobs == << [we |-> {0}, re |-> {0, 1}, lat |-> TRUE, latch |-> 0],
              [we |-> {}, re |-> {1}, lat |-> FALSE, latch |-> 1] >>
DdrJobs == << [we |-> {0}, re |-> {1}, lat |-> TRUE, latch |-> 1],
              [we |-> {}, re |-> {0}, lat |-> FALSE, latch |-> 0] >>
OneJob  == << [we |-> {1}, re |-> {0}, lat |-> FALSE, latch |-> 0] >>

HbmClock == [c \in Channels |-> 0]
DdrClock == [c \in Channels |-> c]

BothBoards == << [kind |-> "hbm", clock |-> HbmClock, jobs |-> HbmJobs],
                 [kind |-> "ddr", clock |-> DdrClock, jobs |-> DdrJobs] >>
HbmBoard   == << [kind |-> "hbm", clock |-> HbmClock, jobs |-> OneJob] >>

MCNumOps == [c \in Channels |-> 10 + c]
=============================================================================
