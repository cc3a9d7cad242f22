---------------------------- MODULE MCXdmaClient ----------------------------
(***************************************************************************)
(* XdmaClient on boards with every combination of optional BARs, 32 or 64   *)
(* bits wide (a 64-bit BAR leaves the next index absent), and on boards     *)
(* that make probe fail by themselves: no config BAR, a config BAR that is  *)
(* too small, no engines.                                                   *)
(***************************************************************************)
EXTENDS XdmaClient

Bars(kinds, width) ==
    [i \in BarIdx |-> IF i % width = 0 /\ i \div width < Len(kinds)
                      THEN kinds[i \div width + 1] ELSE "absent"]

Board(kinds, width, small, cap, h2c, c2h) ==
    [bar |-> Bars(kinds, width), small |-> small, cap |-> cap, h2c |-> h2c, c2h |-> c2h]

MCDevices ==
    { Board(<<"user", "config", "bypass">>, 2, {}, "msix", {0, 1}, {0}),
      Board(<<"user", "config", "bypass">>, 1, {"user"}, "msi", {0}, {0}),
      Board(<<"user", "config">>, 1, {}, "legacy", {0}, {0, 1, 2}),
      Board(<<"config", "bypass">>, 2, {}, "msi", {0}, {0}),
      Board(<<"config">>, 1, {}, "msix", {0}, {0}),
      Board(<<"user", "bypass">>, 1, {}, "msi", {0}, {0}),
      Board(<<"user", "config", "bypass">>, 1, {"config"}, "msix", {0}, {0}),
      Board(<<"user", "config">>, 2, {}, "msi", {0}, {}) }

BugDevices == { Board(<<"user", "config", "bypass">>, 2, {}, "msix", {0}, {0}) }
=============================================================================
