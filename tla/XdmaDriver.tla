----------------------------- MODULE XdmaDriver -----------------------------
(***************************************************************************)
(* The PCI side of the kernel driver, sw/driver/xdma_driver.c: probe, with  *)
(* a failure possible at every call that can fail, its error labels, and    *)
(* remove.  One board, probed and removed any number of times.  The kernel  *)
(* (PCI core, misc devices) is external: held, iomaps, enable_cnt and nodes *)
(* are what it has handed out, inst is what the driver remembers of it.     *)
(***************************************************************************)
EXTENDS Integers, Sequences, FiniteSets, FiniteSetsExt

CONSTANTS
    Devices,     \* boards: bar, small, cap, h2c, c2h
    MaxProbes    \* bound: probe calls explored

BarIdx   == 0 .. 5
Channels == 0 .. 3
NodeNames == {"user", "bypass"}  \* /dev/xdma_control serves the user BAR

\* bar[i] is what BAR i holds, small the BARs below 32 KiB (XDMA_BAR_SIZE and
\* MAP_SIZE), cap the best interrupt capability, h2c and c2h the channels.
\* The XDMA core has at most one BAR of a kind, orders them user, config, bypass
\* and numbers its channels from 0 (external).
BarOrder == {<<"user", "config">>, <<"user", "bypass">>, <<"config", "bypass">>}

ASSUME DevicesAssumption ==
    /\ Devices \subseteq [bar : [BarIdx -> {"absent", "user", "config", "bypass"}],
                          small : SUBSET {"user", "config", "bypass"},
                          cap : {"msix", "msi", "legacy"},
                          h2c : SUBSET Channels, c2h : SUBSET Channels]
    /\ \A d \in Devices : \A i, j \in BarIdx :
          i < j /\ "absent" \notin {d.bar[i], d.bar[j]} => <<d.bar[i], d.bar[j]>> \in BarOrder
    /\ \A d \in Devices : \A s \in {d.h2c, d.c2h} : s # {} => 0 \in s
    /\ MaxProbes \in Nat

VARIABLES
    dev,          \* the board in the slot
    pc,           \* where probe or remove is
    bar_i,        \* map_bars: the loop index
    inst,         \* struct dev_inst
    drvdata,      \* dev_get_drvdata(&pdev->dev) is not NULL
    held,         \* external: allocations and PCI resources not given back
    iomaps,       \* external: BARs mapped into the kernel
    enable_cnt,   \* external: pci_enable_device calls not undone
    nodes,        \* external: the misc devices
    running,      \* <<bank, channel>>: engines whose control register was set
    probes,       \* history: probe calls so far
    failed,       \* history: the calls at which probes have failed
    in_use,       \* history: probes that found the regions taken
    misreleased   \* history: resources given back without being held

driver == <<dev, pc, bar_i, inst, drvdata, held, iomaps, enable_cnt, nodes, running,
            probes, failed, in_use, misreleased>>

\* struct dev_inst after alloc_dev_instance; list and pos are map_bars' locals
\* bar_id_list and config_bar_pos.
Inst0 == [bar |-> {}, list |-> <<>>, pos |-> 0, config |-> -1, user |-> -1, bypass |-> -1,
          in_use |-> FALSE, got |-> FALSE, msi |-> FALSE, msix |-> FALSE,
          h2c |-> 0, c2h |-> 0]

DriverInit ==
    /\ dev \in Devices
    /\ pc = "unbound" /\ bar_i = 0
    /\ inst = Inst0 /\ drvdata = FALSE
    /\ held = {} /\ iomaps = {} /\ enable_cnt = 0
    /\ nodes = [n \in NodeNames |-> "absent"]
    /\ running = {}
    /\ probes = 0 /\ failed = {} /\ in_use = 0 /\ misreleased = {}

\* Moves probe on: to the next call, or to the label of the one that failed.
Goto(call, ok, next, label) ==
    /\ pc = call
    /\ pc' = IF ok THEN next ELSE label
    /\ failed' = IF ok THEN failed ELSE failed \cup {call}
    /\ UNCHANGED <<dev, probes>>

-----------------------------------------------------------------------------
(***************************************************************************)
(* probe                                                                    *)
(***************************************************************************)
\* A failed kzalloc goes to err_alloc with rc = 0: the core takes the device
\* for bound although there is no instance.
AllocInstance(ok) ==
    /\ pc = "unbound" /\ probes < MaxProbes
    /\ probes' = probes + 1
    /\ \/ /\ ok
          /\ inst' = Inst0 /\ drvdata' = TRUE /\ held' = held \cup {"inst"}
          /\ pc' = "enable"
       \/ ~ok /\ pc' = "bound" /\ UNCHANGED <<inst, drvdata, held>>
    /\ UNCHANGED <<dev, bar_i, iomaps, enable_cnt, nodes, running, failed, in_use, misreleased>>

EnableDevice(ok) ==
    /\ Goto("enable", ok, "scan_msi", "err_enable")
    /\ enable_cnt' = IF ok THEN enable_cnt + 1 ELSE enable_cnt
    /\ UNCHANGED <<bar_i, inst, drvdata, held, iomaps, nodes, running, in_use, misreleased>>

ScanLabelTooEarly == "err_regions"
ScanLabel == "err_scan_msi"

\* The driver sets its flag also when enabling fails; the PCI core refuses to
\* enable what is still enabled.
ScanMsi(ok) ==
    /\ ok \/ dev.cap # "legacy"
    /\ dev.cap \in held => ~ok
    /\ Goto("scan_msi", ok, "regions", ScanLabel)
    /\ inst' = [inst EXCEPT !.msix = dev.cap = "msix", !.msi = dev.cap = "msi"]
    /\ held' = IF ok /\ dev.cap # "legacy" THEN held \cup {dev.cap} ELSE held
    /\ UNCHANGED <<bar_i, drvdata, iomaps, enable_cnt, nodes, running, in_use, misreleased>>

\* A failure is taken to mean that another driver uses the device.
RequestRegions(ok) ==
    /\ Goto("regions", ok, "map_bars", "err_regions")
    /\ inst' = [inst EXCEPT !.in_use = ~ok, !.got = ok]
    /\ held' = IF ok THEN held \cup {"regions"} ELSE held
    /\ in_use' = IF ok THEN in_use ELSE in_use + 1
    /\ bar_i' = 0
    /\ UNCHANGED <<drvdata, iomaps, enable_cnt, nodes, running, misreleased>>

\* Which BAR serves what follows from how many there are and where the config
\* BAR stands among them; list holds the indices of the BARs present.
IdentifyBarsByCount(list, pos) ==
    [user   |-> IF Len(list) >= 2 THEN list[1] ELSE -1,
     bypass |-> IF Len(list) = 3 THEN list[3] ELSE -1]

IdentifyBars(list, pos) ==
    CASE Len(list) = 2 /\ pos = 0 -> [user |-> -1,      bypass |-> list[2]]
      [] Len(list) = 2 /\ pos = 1 -> [user |-> list[1], bypass |-> -1]
      [] Len(list) = 3 /\ pos = 1 -> [user |-> list[1], bypass |-> list[3]]
      [] OTHER                    -> [user |-> -1,      bypass |-> -1]

IsConfigBar(i) == dev.bar[i] = "config" /\ "config" \notin dev.small

\* One turn of map_bars' loop.
MapSingleBar(ok) ==
    /\ pc = "map_bars" /\ bar_i \in BarIdx
    /\ \/ dev.bar[bar_i] = "absent" /\ bar_i' = bar_i + 1
          /\ UNCHANGED <<pc, inst, iomaps, failed>>
       \/ /\ dev.bar[bar_i] # "absent" /\ ok
          /\ bar_i' = bar_i + 1
          /\ iomaps' = iomaps \cup {bar_i}
          /\ inst' = [inst EXCEPT
                !.bar = @ \cup {bar_i}, !.list = Append(@, bar_i),
                !.config = IF @ < 0 /\ IsConfigBar(bar_i) THEN bar_i ELSE @,
                !.pos = IF inst.config < 0 /\ IsConfigBar(bar_i) THEN Len(inst.list) ELSE @]
          /\ UNCHANGED <<pc, failed>>
       \/ /\ dev.bar[bar_i] # "absent" /\ ~ok
          /\ iomaps' = iomaps \ inst.bar /\ inst' = [inst EXCEPT !.bar = {}]
          /\ pc' = "err_map" /\ failed' = failed \cup {"map_bars"}
          /\ UNCHANGED bar_i
    /\ UNCHANGED <<dev, drvdata, held, enable_cnt, nodes, running, probes, in_use, misreleased>>

\* After the loop: without a config BAR map_bars unmaps what it mapped.
MapBarsEnd ==
    /\ bar_i \notin BarIdx
    /\ Goto("map_bars", inst.config >= 0, "mask", "err_map")
    /\ LET found == IdentifyBars(inst.list, inst.pos)
       IN  IF inst.config >= 0
           THEN /\ inst' = [inst EXCEPT !.user = found.user, !.bypass = found.bypass]
                /\ UNCHANGED iomaps
           ELSE /\ inst' = [inst EXCEPT !.bar = {}]
                /\ iomaps' = iomaps \ inst.bar
    /\ UNCHANGED <<bar_i, drvdata, held, enable_cnt, nodes, running, in_use, misreleased>>

SetDmaMask(ok) ==
    /\ Goto("mask", ok, "engines", "err_mask")
    /\ UNCHANGED <<bar_i, inst, drvdata, held, iomaps, enable_cnt, nodes, running, in_use,
                   misreleased>>

LastEngine(channels) == Max(channels)
\* probe_for_engine keeps the first channel it finds in each direction.
FirstEngine(channels) == Min(channels)

\* H2C_CHANNEL_OFFSET is the offset of the C2H bank and the other way around:
\* h2c_regs points at C2H channel h2c_engine, c2h_regs at H2C channel c2h_engine.
ControlWrites(h2c, c2h) == {<<"C2H", h2c>>, <<"H2C", c2h>>}

ProbeEngines ==
    LET found == dev.h2c # {} /\ dev.c2h # {}
        h2c   == FirstEngine(dev.h2c)
        c2h   == FirstEngine(dev.c2h)
    IN  /\ Goto("engines", found, "node_user", "err_engines")
        /\ IF found
           THEN /\ inst' = [inst EXCEPT !.h2c = h2c, !.c2h = c2h]
                /\ running' = running \cup ControlWrites(h2c, c2h)
           ELSE UNCHANGED <<inst, running>>
        /\ UNCHANGED <<bar_i, drvdata, held, iomaps, enable_cnt, nodes, in_use, misreleased>>

\* misc_register refuses a name that exists, and by then the node has lost its
\* minor number: nobody can open it any more.
MiscRegister(n, ok) ==
    /\ nodes[n] # "absent" => ~ok
    /\ nodes' = [nodes EXCEPT ![n] = CASE ok                   -> "present"
                                       [] ~ok /\ @ = "absent"  -> "absent"
                                       [] OTHER                -> "orphan"]
    /\ UNCHANGED <<bar_i, inst, drvdata, held, iomaps, enable_cnt, running, in_use, misreleased>>

RegisterControl(ok) ==
    Goto("node_user", ok, "node_bypass", "err_engines") /\ MiscRegister("user", ok)
RegisterBypass(ok) ==
    Goto("node_bypass", ok, "bound", "err_engines") /\ MiscRegister("bypass", ok)

-----------------------------------------------------------------------------
(***************************************************************************)
(* The error labels, which fall through in this order, and remove.          *)
(***************************************************************************)
Labels == <<"err_engines", "err_mask", "err_map", "err_regions", "err_scan_msi", "err_enable">>
Passed(label) == \E i, j \in DOMAIN Labels : i <= j /\ Labels[i] = pc /\ Labels[j] = label

\* What the labels from pc on give back besides the BARs and the enabling.
\* irq_teardown finds no interrupt line; MSI-X has no label.
UnwindKeepsRegions ==
    (IF Passed("err_regions") /\ inst.msi THEN {"msi"} ELSE {}) \cup {"inst"}
Unwind ==
    (IF Passed("err_map") /\ inst.got THEN {"regions"} ELSE {})
      \cup (IF Passed("err_regions") /\ inst.msi THEN {"msi"} ELSE {})
      \cup {"inst"}

DisableOnUnwindAlways == ~inst.in_use
DisableOnUnwind == Passed("err_scan_msi") /\ ~inst.in_use

UnmapBars(all) ==
    /\ iomaps' = IF all THEN iomaps \ inst.bar ELSE iomaps
    /\ inst' = IF all THEN [inst EXCEPT !.bar = {}] ELSE inst

Give(resources, disable) ==
    /\ held' = held \ resources
    /\ enable_cnt' = IF disable THEN enable_cnt - 1 ELSE enable_cnt
    /\ misreleased' = misreleased \cup (resources \ held)

ProbeUnwind ==
    /\ pc \in {Labels[i] : i \in DOMAIN Labels}
    /\ UnmapBars(Passed("err_mask"))
    /\ Give(Unwind, DisableOnUnwind)
    /\ pc' = "returned"
    /\ UNCHANGED <<dev, bar_i, drvdata, nodes, running, probes, failed, in_use>>

\* Without an instance remove returns at once.
RemoveNodes ==
    /\ pc = "bound"
    /\ \/ ~drvdata /\ pc' = "returned" /\ UNCHANGED nodes
       \/ drvdata /\ pc' = "removing" /\ nodes' = [n \in NodeNames |-> "absent"]
    /\ UNCHANGED <<dev, bar_i, inst, drvdata, held, iomaps, enable_cnt, running,
                   probes, failed, in_use, misreleased>>

RemoveResources ==
    /\ pc = "removing"
    /\ UnmapBars(TRUE)
    /\ Give((IF inst.got THEN {"regions"} ELSE {})
              \cup (IF inst.msix THEN {"msix"} ELSE IF inst.msi THEN {"msi"} ELSE {})
              \cup {"inst"},
            ~inst.in_use)
    /\ pc' = "returned"
    /\ UNCHANGED <<dev, bar_i, drvdata, nodes, running, probes, failed, in_use>>

\* The driver core forgets the driver data once probe has failed or remove has
\* returned (external).
CoreUnbinds ==
    /\ pc = "returned"
    /\ pc' = "unbound" /\ drvdata' = FALSE
    /\ UNCHANGED <<dev, bar_i, inst, held, iomaps, enable_cnt, nodes, running,
                   probes, failed, in_use, misreleased>>

DriverNext ==
    \/ \E ok \in BOOLEAN :
          \/ AllocInstance(ok)
          \/ EnableDevice(ok)
          \/ ScanMsi(ok)
          \/ RequestRegions(ok)
          \/ MapSingleBar(ok)
          \/ SetDmaMask(ok)
          \/ RegisterControl(ok)
          \/ RegisterBypass(ok)
    \/ MapBarsEnd
    \/ ProbeEngines
    \/ ProbeUnwind
    \/ RemoveNodes
    \/ RemoveResources
    \/ CoreUnbinds

DriverSpec == DriverInit /\ [][DriverNext]_driver

-----------------------------------------------------------------------------
Calls == {"enable", "scan_msi", "regions", "map_bars", "mask", "engines", "node_user",
          "node_bypass"}

DriverTypeOK ==
    /\ dev \in Devices
    /\ pc \in Calls \cup {Labels[i] : i \in DOMAIN Labels}
              \cup {"unbound", "bound", "removing", "returned"}
    /\ bar_i \in 0 .. 6
    /\ inst.bar \subseteq BarIdx /\ iomaps \subseteq BarIdx
    /\ {inst.config, inst.user, inst.bypass} \subseteq BarIdx \cup {-1}
    /\ {inst.h2c, inst.c2h} \subseteq Channels
    /\ {drvdata, inst.got, inst.in_use, inst.msi, inst.msix} \subseteq BOOLEAN
    /\ {held, misreleased} \subseteq SUBSET {"inst", "regions", "msi", "msix"}
    /\ {enable_cnt, in_use, probes} \subseteq Nat
    /\ nodes \in [NodeNames -> {"absent", "present", "orphan"}]
    /\ failed \subseteq Calls

\* Once probe has failed or remove has returned, the driver has given back all
\* it took, at whichever call it failed and whatever probes came before - except
\* MSI-X vectors after a failed probe (no error label disables them), the
\* control node when registering the bypass node failed, and the enabling of a
\* device whose regions were in use.  Nothing else is ever left over.
UnboundHoldsNothing ==
    pc = "unbound" =>
        /\ iomaps = {}
        /\ enable_cnt = in_use
        /\ held \subseteq {"msix"}
        /\ "msix" \in held => failed \ {"enable", "scan_msi"} # {}
        /\ nodes["bypass"] = "absent"
        /\ nodes["user"] # "absent" => "node_bypass" \in failed

\* The labels and remove give back only what is held: nothing twice, nothing
\* that the failing call, or a call after it, would have taken.
OnlyHeldReleased == misreleased = {}

\* A bound board has both of its chosen engines running, although the two
\* channel offsets are exchanged between probing and use.
EnginesRun ==
    pc = "bound" /\ drvdata => {<<"H2C", inst.h2c>>, <<"C2H", inst.c2h>>} \subseteq running
=============================================================================
