----------------------------- MODULE XdmaProofs -----------------------------
(***************************************************************************)
(* What the XDMA driver and its clients keep, for every set of boards and   *)
(* every sequence of probes, failures, removes, processes and kills.        *)
(***************************************************************************)
EXTENDS XdmaClient, TLAPS

-----------------------------------------------------------------------------
(***************************************************************************)
(* The inductive invariant of probe and remove: what is held at each call   *)
(* and at each error label.                                                 *)
(***************************************************************************)
\* A board that is bound without an instance holds what an unbound one does.
At(S) == pc \in S /\ (pc = "bound" => drvdata)

ErrAfterScan == {"err_regions", "err_map", "err_mask", "err_engines"}
LabelSet     == ErrAfterScan \cup {"err_scan_msi", "err_enable"}
Established  == {"mask", "engines", "node_user", "node_bypass", "bound", "removing",
                 "err_mask", "err_engines"}
WithRegions  == Established \cup {"map_bars", "err_map"}
WithMsi      == WithRegions \cup {"regions", "err_regions"}
Enabled      == WithRegions \cup {"scan_msi", "regions", "err_scan_msi"}
WithInst     == Calls \cup LabelSet \cup {"bound", "removing"}

InstType ==
    inst \in [bar : SUBSET BarIdx, list : Seq(BarIdx), pos : Nat,
              config : BarIdx \cup {-1}, user : BarIdx \cup {-1}, bypass : BarIdx \cup {-1},
              in_use : BOOLEAN, got : BOOLEAN, msi : BOOLEAN, msix : BOOLEAN,
              h2c : Channels, c2h : Channels]

PlaceType ==
    /\ dev \in Devices
    /\ pc \in Calls \cup LabelSet \cup {"unbound", "bound", "removing", "returned"}
    /\ bar_i \in 0 .. 6 /\ iomaps \subseteq BarIdx /\ drvdata \in BOOLEAN
    /\ held \subseteq {"inst", "regions", "msi", "msix"}
    /\ enable_cnt \in Nat /\ in_use \in Nat /\ probes \in Nat
    /\ nodes \in [NodeNames -> {"absent", "present", "orphan"}]
    /\ failed \subseteq Calls

\* The driver core's pointer to the instance.
DataInv ==
    /\ pc \in Calls \cup LabelSet \cup {"removing"} => drvdata
    /\ pc = "unbound" => ~drvdata

\* What the driver holds is what the place it has reached says it holds; only
\* MSI-X vectors may be older than this probe.
HeldInv ==
    /\ "inst" \in held <=> At(WithInst)
    /\ "regions" \in held <=> At(WithRegions)
    /\ At(WithRegions) => inst.got
    /\ "msi" \in held <=> At(WithMsi) /\ dev.cap = "msi"
    /\ At(WithMsi) => (inst.msi <=> dev.cap = "msi") /\ (inst.msix <=> dev.cap = "msix")
    /\ At(WithMsi) /\ dev.cap = "msix" => "msix" \in held
    /\ "msix" \in held => dev.cap = "msix"
    /\ misreleased = {}

\* A probe that fails after scan_msi is on record, and only such a probe leaves
\* MSI-X vectors behind.
BlameInv ==
    /\ "msix" \in held /\ ~At(WithMsi) => failed \ {"enable", "scan_msi"} # {}
    /\ pc \in ErrAfterScan => failed \ {"enable", "scan_msi"} # {}

\* Every probe that did not find its regions taken undoes its enabling.
EnableInv ==
    /\ enable_cnt = in_use + (IF At(Enabled) THEN 1 ELSE 0)
    /\ pc = "enable" \/ At(Enabled) => ~inst.in_use
    /\ pc = "err_regions" => inst.in_use

MapInv ==
    /\ iomaps = IF At(Established \cup {"map_bars"}) THEN inst.bar ELSE {}
    /\ pc \in {"enable", "scan_msi", "regions"} => inst.bar = {}

NodeInv ==
    /\ nodes["bypass"] # "absent" => pc = "bound" /\ drvdata
    /\ nodes["user"] # "absent" /\ ~(pc = "node_bypass" \/ At({"bound"})) => "node_bypass" \in failed

\* The engines chosen are channel 0 in both directions, for which the exchanged
\* offsets make no difference.
EngineInv ==
    At({"node_user", "node_bypass", "bound"}) =>
        inst.h2c = 0 /\ inst.c2h = 0 /\ {<<"H2C", 0>>, <<"C2H", 0>>} \subseteq running

ResourceInv ==
    PlaceType /\ InstType /\ DataInv /\ HeldInv /\ BlameInv /\ EnableInv /\ MapInv
        /\ NodeInv /\ EngineInv

-----------------------------------------------------------------------------
\* The board's description.
LEMMA DeviceFields ==
    ASSUME dev \in Devices
    PROVE  /\ dev.bar \in [BarIdx -> {"absent", "user", "config", "bypass"}]
           /\ dev.cap \in {"msix", "msi", "legacy"}
           /\ dev.h2c \subseteq Channels /\ dev.c2h \subseteq Channels
           /\ dev.h2c # {} => 0 \in dev.h2c
           /\ dev.c2h # {} => 0 \in dev.c2h
           /\ \A i, j \in BarIdx : i < j /\ dev.bar[i] # "absent" /\ dev.bar[j] # "absent" =>
                  <<dev.bar[i], dev.bar[j]>> \in BarOrder
  BY DevicesAssumption

\* The labels in the order in which they fall through.
LEMMA LabelsPassed ==
    /\ {Labels[i] : i \in DOMAIN Labels} = LabelSet
    /\ Passed("err_mask") <=> pc \in {"err_engines", "err_mask"}
    /\ Passed("err_map") <=> pc \in {"err_engines", "err_mask", "err_map"}
    /\ Passed("err_regions") <=> pc \in ErrAfterScan
    /\ Passed("err_scan_msi") <=> pc \in ErrAfterScan \cup {"err_scan_msi"}
  <1>1. DOMAIN Labels = {1, 2, 3, 4, 5, 6}
    BY DEF Labels
  <1>2. {Labels[i] : i \in DOMAIN Labels} = LabelSet
    BY <1>1 DEF Labels, LabelSet, ErrAfterScan
  <1>3. Passed("err_mask") <=> pc \in {"err_engines", "err_mask"}
    BY <1>1 DEF Labels, Passed
  <1>4. Passed("err_map") <=> pc \in {"err_engines", "err_mask", "err_map"}
    BY <1>1 DEF Labels, Passed
  <1>5. Passed("err_regions") <=> pc \in ErrAfterScan
    BY <1>1 DEF Labels, Passed, ErrAfterScan
  <1>6. Passed("err_scan_msi") <=> pc \in ErrAfterScan \cup {"err_scan_msi"}
    BY <1>1 DEF Labels, Passed, ErrAfterScan
  <1> QED
    BY <1>2, <1>3, <1>4, <1>5, <1>6

\* The invariant covers the type invariant.
LEMMA DriverTypes == ResourceInv => DriverTypeOK
  <1> SUFFICES ASSUME ResourceInv PROVE DriverTypeOK
    OBVIOUS
  <1> USE DEF ResourceInv
  <1>1. /\ inst.bar \subseteq BarIdx
        /\ {inst.config, inst.user, inst.bypass} \subseteq BarIdx \cup {-1}
        /\ {inst.h2c, inst.c2h} \subseteq Channels
        /\ {drvdata, inst.got, inst.in_use, inst.msi, inst.msix} \subseteq BOOLEAN
    BY DEF InstType, PlaceType
  <1>2. {held, misreleased} \subseteq SUBSET {"inst", "regions", "msi", "msix"}
    BY DEF PlaceType, HeldInv
  <1>3. pc \in Calls \cup {Labels[i] : i \in DOMAIN Labels}
                 \cup {"unbound", "bound", "removing", "returned"}
    BY LabelsPassed DEF PlaceType
  <1> QED
    BY <1>1, <1>2, <1>3 DEF DriverTypeOK, PlaceType

\* A new instance has the fields of one.
LEMMA Inst0Type ==
    Inst0 \in [bar : SUBSET BarIdx, list : Seq(BarIdx), pos : Nat,
               config : BarIdx \cup {-1}, user : BarIdx \cup {-1}, bypass : BarIdx \cup {-1},
               in_use : BOOLEAN, got : BOOLEAN, msi : BOOLEAN, msix : BOOLEAN,
               h2c : Channels, c2h : Channels]
  BY DEF Inst0, BarIdx, Channels

\* The driver's state before the first probe.
LEMMA DriverInitInv == DriverInit => ResourceInv
  <1> SUFFICES ASSUME DriverInit PROVE ResourceInv
    OBVIOUS
  <1> USE DEF DriverInit
  <1>1. InstType
    BY Inst0Type DEF InstType
  <1>2. PlaceType
    <2>1. drvdata \in BOOLEAN /\ pc \in {"unbound"} /\ failed \subseteq Calls
      OBVIOUS
    <2>2. nodes \in [NodeNames -> {"absent", "present", "orphan"}]
      OBVIOUS
    <2>3. bar_i \in 0 .. 6 /\ enable_cnt \in Nat /\ in_use \in Nat /\ probes \in Nat
      OBVIOUS
    <2> QED
      BY <2>1, <2>2, <2>3 DEF PlaceType
  <1>3. DataInv /\ BlameInv
    BY DEF DataInv, BlameInv, Calls, LabelSet, ErrAfterScan
  <1>4. HeldInv
    BY DEF HeldInv, At, WithInst, WithMsi, WithRegions, Established, LabelSet, ErrAfterScan, Calls
  <1>5. EnableInv /\ MapInv
    BY DEF EnableInv, MapInv, At, Enabled, WithRegions, Established
  <1>6. NodeInv /\ EngineInv
    BY DEF NodeInv, EngineInv, At, NodeNames
  <1> QED
    BY <1>1, <1>2, <1>3, <1>4, <1>5, <1>6 DEF ResourceInv

\* Registering an instance begins a probe; without one the board is bound empty.
LEMMA AllocInv ==
    ASSUME ResourceInv, NEW ok \in BOOLEAN, AllocInstance(ok)
    PROVE  ResourceInv'
  <1> USE DEF ResourceInv, AllocInstance
  <1>1. InstType'
    BY Inst0Type DEF InstType
  <1>2. PlaceType'
    <2>1. drvdata' \in BOOLEAN
      BY DEF PlaceType
    <2>2. held' \subseteq {"inst", "regions", "msi", "msix"}
      BY DEF PlaceType
    <2>3. pc' \in Calls \cup {"bound"} /\ probes' \in Nat
      BY DEF PlaceType, Calls
    <2> QED
      BY <2>1, <2>2, <2>3 DEF PlaceType
  <1>3. DataInv' /\ BlameInv'
    BY DEF DataInv, BlameInv, HeldInv, At, WithMsi, WithRegions, Established, Calls, LabelSet, ErrAfterScan
  <1>4. HeldInv'
    BY DEF HeldInv, DataInv, At, WithInst, WithMsi, WithRegions, Established, LabelSet, ErrAfterScan, Calls
  <1>5. EnableInv' /\ MapInv'
    BY DEF EnableInv, MapInv, DataInv, At, Enabled, WithRegions, Established, Inst0
  <1>6. NodeInv' /\ EngineInv'
    BY DEF NodeInv, EngineInv, DataInv, At, NodeNames
  <1> QED
    BY <1>1, <1>2, <1>3, <1>4, <1>5, <1>6 DEF ResourceInv

\* pci_enable_device.
LEMMA EnableDeviceInv ==
    ASSUME ResourceInv, NEW ok \in BOOLEAN, EnableDevice(ok)
    PROVE  ResourceInv'
  <1> USE DEF ResourceInv, EnableDevice, Goto
  <1>1. InstType'
    BY DEF InstType
  <1>2. PlaceType'
    BY DEF PlaceType, LabelSet, ErrAfterScan, Calls
  <1>3. DataInv' /\ BlameInv'
    BY DEF DataInv, BlameInv, HeldInv, At, WithMsi, WithRegions, Established, LabelSet, ErrAfterScan,
              Calls
  <1>4. HeldInv'
    BY DEF HeldInv, DataInv, At, WithInst, WithMsi, WithRegions, Established, LabelSet, ErrAfterScan, Calls
  <1>5. EnableInv'
    BY DEF EnableInv, DataInv, PlaceType, At, Enabled, WithRegions, Established, LabelSet, Calls
  <1>6. MapInv'
    BY DEF MapInv, DataInv, At, Established, LabelSet, Calls
  <1>7. NodeInv' /\ EngineInv'
    BY DEF NodeInv, EngineInv, DataInv, At, Calls
  <1> QED
    BY <1>1, <1>2, <1>3, <1>4, <1>5, <1>6, <1>7

\* msi_msix_detect: the driver's flag says what the board has, not what was enabled.
LEMMA ScanMsiInv ==
    ASSUME ResourceInv, NEW ok \in BOOLEAN, ScanMsi(ok)
    PROVE  ResourceInv'
  <1> USE DEF ResourceInv, ScanMsi, Goto, ScanLabel
  <1>1. InstType'
    BY DEF InstType
  <1>2. PlaceType'
    BY DeviceFields DEF PlaceType, LabelSet, ErrAfterScan, Calls
  <1>3. DataInv' /\ BlameInv'
    BY DEF DataInv, BlameInv, HeldInv, At, WithMsi, WithRegions, Established, LabelSet, ErrAfterScan,
              Calls
  <1>4. HeldInv'
    BY DeviceFields DEF HeldInv, InstType, PlaceType, DataInv, At, WithInst, WithMsi, WithRegions, Established, LabelSet, ErrAfterScan, Calls
  <1>5. EnableInv'
    BY DEF EnableInv, DataInv, PlaceType, At, Enabled, WithRegions, Established, LabelSet, Calls
  <1>6. MapInv'
    BY DEF MapInv, DataInv, At, Established, LabelSet, Calls
  <1>7. NodeInv' /\ EngineInv'
    BY DEF NodeInv, EngineInv, DataInv, At, Calls
  <1> QED
    BY <1>1, <1>2, <1>3, <1>4, <1>5, <1>6, <1>7

\* pci_request_regions.
LEMMA RequestRegionsInv ==
    ASSUME ResourceInv, NEW ok \in BOOLEAN, RequestRegions(ok)
    PROVE  ResourceInv'
  <1> USE DEF ResourceInv, RequestRegions, Goto
  <1>1. InstType'
    BY DEF InstType
  <1>2. PlaceType'
    BY DEF PlaceType, LabelSet, ErrAfterScan, Calls
  <1>3. DataInv' /\ BlameInv'
    BY DEF DataInv, BlameInv, HeldInv, At, WithMsi, WithRegions, Established, LabelSet, ErrAfterScan,
              Calls
  <1>4. HeldInv'
    BY DEF HeldInv, DataInv, At, WithInst, WithMsi, WithRegions, Established, LabelSet, ErrAfterScan, Calls
  <1>5. EnableInv'
    <2>1. /\ inst'.in_use = ~ok /\ enable_cnt' = enable_cnt /\ pc = "regions"
          /\ pc' = IF ok THEN "map_bars" ELSE "err_regions"
          /\ in_use' = IF ok THEN in_use ELSE in_use + 1
      BY DEF InstType
    <2>2. enable_cnt = in_use + 1 /\ in_use \in Nat
      BY <2>1 DEF EnableInv, PlaceType, At, Enabled, WithRegions, Established
    <2>3. CASE ok
      <3>1. inst'.in_use = FALSE /\ pc' = "map_bars" /\ in_use' = in_use
        BY <2>1, <2>3
      <3> QED
        BY <2>1, <2>2, <3>1 DEF EnableInv, At, Enabled, WithRegions, Established
    <2>4. CASE ~ok
      <3>1. inst'.in_use = TRUE /\ pc' = "err_regions" /\ in_use' = in_use + 1
        BY <2>1, <2>4
      <3> QED
        BY <2>1, <2>2, <3>1 DEF EnableInv, At, Enabled, WithRegions, Established
    <2> QED
      BY <2>3, <2>4
  <1>6. MapInv'
    BY DEF MapInv, DataInv, At, Established, LabelSet, Calls
  <1>7. NodeInv' /\ EngineInv'
    BY DEF NodeInv, EngineInv, DataInv, At, Calls
  <1> QED
    BY <1>1, <1>2, <1>3, <1>4, <1>5, <1>6, <1>7

\* pci_set_dma_mask.
LEMMA SetDmaMaskInv ==
    ASSUME ResourceInv, NEW ok \in BOOLEAN, SetDmaMask(ok)
    PROVE  ResourceInv'
  <1> USE DEF ResourceInv, SetDmaMask, Goto
  <1>1. InstType'
    BY DEF InstType
  <1>2. PlaceType'
    BY DEF PlaceType, LabelSet, ErrAfterScan, Calls
  <1>3. DataInv' /\ BlameInv'
    BY DEF DataInv, BlameInv, HeldInv, At, WithMsi, WithRegions, Established, LabelSet, ErrAfterScan,
              Calls
  <1>4. HeldInv'
    BY DEF HeldInv, DataInv, At, WithInst, WithMsi, WithRegions, Established, LabelSet, ErrAfterScan, Calls
  <1>5. EnableInv'
    BY DEF EnableInv, DataInv, PlaceType, At, Enabled, WithRegions, Established, LabelSet, Calls
  <1>6. MapInv'
    BY DEF MapInv, DataInv, At, Established, LabelSet, Calls
  <1>7. NodeInv' /\ EngineInv'
    BY DEF NodeInv, EngineInv, DataInv, At, Calls
  <1> QED
    BY <1>1, <1>2, <1>3, <1>4, <1>5, <1>6, <1>7

\* A turn of map_bars' loop: what is mapped is recorded before the next turn, and
\* a failure unmaps what is recorded.
LEMMA MapSingleBarInv ==
    ASSUME ResourceInv, NEW ok \in BOOLEAN, MapSingleBar(ok)
    PROVE  ResourceInv'
  <1> USE DEF ResourceInv
  <1>0. /\ pc = "map_bars" /\ bar_i \in BarIdx
        /\ UNCHANGED <<dev, drvdata, held, enable_cnt, nodes, running, probes, in_use, misreleased>>
    BY DEF MapSingleBar
  <1>1. CASE dev.bar[bar_i] = "absent"
    <2>1. bar_i' = bar_i + 1 /\ UNCHANGED <<pc, inst, iomaps, failed>>
      BY <1>1 DEF MapSingleBar
    <2>2. PlaceType'
      BY <1>0, <2>1 DEF PlaceType, BarIdx
    <2>3. InstType' /\ DataInv' /\ HeldInv' /\ BlameInv'
      BY <1>0, <2>1 DEF InstType, DataInv, HeldInv, BlameInv, At
    <2>4. EnableInv' /\ MapInv' /\ NodeInv' /\ EngineInv'
      BY <1>0, <2>1 DEF EnableInv, MapInv, NodeInv, EngineInv, At
    <2> QED
      BY <2>2, <2>3, <2>4
  <1>2. CASE dev.bar[bar_i] # "absent" /\ ok
    <2>1. /\ bar_i' = bar_i + 1 /\ iomaps' = iomaps \cup {bar_i} /\ UNCHANGED <<pc, failed>>
          /\ inst' = [inst EXCEPT
                !.bar = @ \cup {bar_i}, !.list = Append(@, bar_i),
                !.config = IF @ < 0 /\ IsConfigBar(bar_i) THEN bar_i ELSE @,
                !.pos = IF inst.config < 0 /\ IsConfigBar(bar_i) THEN Len(inst.list) ELSE @]
      BY <1>2 DEF MapSingleBar
    <2>2. PlaceType'
      BY <1>0, <2>1 DEF PlaceType, BarIdx
    <2>3. InstType'
      <3>1. /\ inst.bar \cup {bar_i} \in SUBSET BarIdx /\ Append(inst.list, bar_i) \in Seq(BarIdx)
            /\ (IF inst.config < 0 /\ IsConfigBar(bar_i) THEN bar_i ELSE inst.config) \in BarIdx \cup {-1}
            /\ (IF inst.config < 0 /\ IsConfigBar(bar_i) THEN Len(inst.list) ELSE inst.pos) \in Nat
        BY <1>0 DEF InstType
      <3> QED
        BY <2>1, <3>1 DEF InstType
    <2>4. /\ inst'.bar = inst.bar \cup {bar_i} /\ inst'.got = inst.got /\ inst'.in_use = inst.in_use
          /\ inst'.msi = inst.msi /\ inst'.msix = inst.msix
      BY <2>1 DEF InstType
    <2>5. DataInv' /\ HeldInv' /\ BlameInv'
      BY <1>0, <2>1, <2>4 DEF DataInv, HeldInv, BlameInv, At
    <2>6. EnableInv' /\ MapInv' /\ NodeInv' /\ EngineInv'
      BY <1>0, <2>1, <2>4 DEF EnableInv, MapInv, NodeInv, EngineInv, At
    <2> QED
      BY <2>2, <2>3, <2>5, <2>6
  <1>3. CASE dev.bar[bar_i] # "absent" /\ ~ok
    <2>1. /\ iomaps' = iomaps \ inst.bar /\ inst' = [inst EXCEPT !.bar = {}]
          /\ pc' = "err_map" /\ failed' = failed \cup {"map_bars"} /\ UNCHANGED bar_i
      BY <1>3 DEF MapSingleBar
    <2>2. PlaceType'
      BY <1>0, <2>1 DEF PlaceType, LabelSet, ErrAfterScan, Calls
    <2>3. /\ InstType'
          /\ inst'.bar = {} /\ inst'.got = inst.got /\ inst'.in_use = inst.in_use
          /\ inst'.msi = inst.msi /\ inst'.msix = inst.msix
      BY <2>1 DEF InstType
    <2>4. DataInv' /\ BlameInv'
      BY <1>0, <2>1 DEF DataInv, BlameInv, At, WithMsi, WithRegions, LabelSet, ErrAfterScan, Calls
    <2>5. HeldInv'
      BY <1>0, <2>1, <2>3 DEF HeldInv, At, WithInst, WithMsi, WithRegions, Established,
                              LabelSet, ErrAfterScan, Calls
    <2>6. EnableInv' /\ MapInv'
      BY <1>0, <2>1, <2>3 DEF EnableInv, MapInv, At, Enabled, WithRegions, Established
    <2>7. NodeInv' /\ EngineInv'
      BY <1>0, <2>1 DEF NodeInv, EngineInv, At
    <2> QED
      BY <2>2, <2>3, <2>4, <2>5, <2>6, <2>7
  <1> QED
    BY <1>1, <1>2, <1>3

\* The end of map_bars, with or without a config BAR.
LEMMA MapBarsEndInv ==
    ASSUME ResourceInv, MapBarsEnd
    PROVE  ResourceInv'
  <1> USE DEF ResourceInv
  <1>0. /\ pc = "map_bars" /\ pc' = IF inst.config >= 0 THEN "mask" ELSE "err_map"
        /\ failed' = IF inst.config >= 0 THEN failed ELSE failed \cup {"map_bars"}
        /\ UNCHANGED <<dev, probes, bar_i, drvdata, held, enable_cnt, nodes, running, in_use,
                       misreleased>>
    BY DEF MapBarsEnd, Goto
  <1>1. /\ iomaps' = IF inst.config >= 0 THEN iomaps ELSE iomaps \ inst.bar
        /\ inst'.bar = (IF inst.config >= 0 THEN inst.bar ELSE {}) /\ InstType'
        /\ inst'.got = inst.got /\ inst'.in_use = inst.in_use
        /\ inst'.msi = inst.msi /\ inst'.msix = inst.msix
    <2>1. CASE inst.config >= 0
      <3>1. PICK found : /\ found = IdentifyBars(inst.list, inst.pos) /\ iomaps' = iomaps
                         /\ inst' = [inst EXCEPT !.user = found.user, !.bypass = found.bypass]
        BY <2>1 DEF MapBarsEnd
      <3>2. found.user \in BarIdx \cup {-1} /\ found.bypass \in BarIdx \cup {-1}
        <4>1. Len(inst.list) >= 2 => inst.list[1] \in BarIdx /\ inst.list[2] \in BarIdx
          BY DEF InstType
        <4>2. Len(inst.list) >= 3 => inst.list[3] \in BarIdx
          BY DEF InstType
        <4>3. Len(inst.list) \in Nat
          BY DEF InstType
        <4> QED
          BY <3>1, <4>1, <4>2, <4>3 DEF IdentifyBars
      <3> QED
        BY <2>1, <3>1, <3>2 DEF InstType
    <2>2. CASE ~(inst.config >= 0)
      BY <2>2 DEF MapBarsEnd, InstType
    <2> QED
      BY <2>1, <2>2
  <1>2. PlaceType'
    BY <1>0, <1>1 DEF PlaceType, LabelSet, ErrAfterScan, Calls
  <1>3. DataInv' /\ BlameInv'
    BY <1>0 DEF DataInv, BlameInv, At, WithMsi, WithRegions, Established, LabelSet, ErrAfterScan, Calls
  <1>4. HeldInv'
    BY <1>0, <1>1 DEF HeldInv, At, WithInst, WithMsi, WithRegions, Established,
                      LabelSet, ErrAfterScan, Calls
  <1>5. EnableInv' /\ MapInv'
    BY <1>0, <1>1 DEF EnableInv, MapInv, At, Enabled, WithRegions, Established
  <1>6. NodeInv' /\ EngineInv'
    BY <1>0 DEF NodeInv, EngineInv, At
  <1> QED
    BY <1>1, <1>2, <1>3, <1>4, <1>5, <1>6

\* probe_for_engine finds channel 0 first, if there is a channel.
LEMMA FirstEngineIsZero ==
    ASSUME NEW S \in SUBSET Channels, 0 \in S
    PROVE  FirstEngine(S) = 0
  <1>1. \A y \in S : y \in Int /\ 0 <= y
    BY DEF Channels
  <1>2. \E x \in S : \A y \in S : x <= y
    BY <1>1
  <1>3. Min(S) \in S /\ \A y \in S : Min(S) <= y
    BY <1>2 DEF Min
  <1> QED
    BY <1>1, <1>3 DEF FirstEngine

\* The engines of both directions are found and started, or probe fails.
LEMMA ProbeEnginesInv ==
    ASSUME ResourceInv, ProbeEngines
    PROVE  ResourceInv'
  <1> USE DEF ResourceInv
  <1> DEFINE found == dev.h2c # {} /\ dev.c2h # {}
  <1>0. /\ pc = "engines" /\ pc' = IF found THEN "node_user" ELSE "err_engines"
        /\ failed' = IF found THEN failed ELSE failed \cup {"engines"}
        /\ UNCHANGED <<dev, probes, bar_i, drvdata, held, iomaps, enable_cnt, nodes, in_use,
                       misreleased>>
    BY DEF ProbeEngines, Goto
  <1>1. /\ InstType'
        /\ inst'.bar = inst.bar /\ inst'.got = inst.got /\ inst'.in_use = inst.in_use
        /\ inst'.msi = inst.msi /\ inst'.msix = inst.msix
        /\ found => /\ inst'.h2c = 0 /\ inst'.c2h = 0
                    /\ {<<"H2C", 0>>, <<"C2H", 0>>} \subseteq running'
    <2>1. CASE found
      <3>1. FirstEngine(dev.h2c) = 0 /\ FirstEngine(dev.c2h) = 0
        BY <2>1, DeviceFields, FirstEngineIsZero DEF PlaceType
      <3>2. /\ inst' = [inst EXCEPT !.h2c = 0, !.c2h = 0]
            /\ running' = running \cup ControlWrites(0, 0)
        BY <2>1, <3>1 DEF ProbeEngines
      <3> QED
        <4>1. 0 \in Channels /\ {<<"H2C", 0>>, <<"C2H", 0>>} \subseteq running'
          BY <3>2 DEF Channels, ControlWrites
        <4> QED
          BY <3>2, <4>1 DEF InstType
    <2>2. CASE ~found
      BY <2>2 DEF ProbeEngines, InstType
    <2> QED
      BY <2>1, <2>2
  <1> HIDE DEF found
  <1>2. PlaceType'
    BY <1>0, <1>1 DEF PlaceType, LabelSet, ErrAfterScan, Calls
  <1>3. DataInv' /\ BlameInv'
    BY <1>0 DEF DataInv, BlameInv, At, WithMsi, WithRegions, Established, LabelSet, ErrAfterScan, Calls
  <1>4. HeldInv'
    BY <1>0, <1>1 DEF HeldInv, At, WithInst, WithMsi, WithRegions, Established,
                      LabelSet, ErrAfterScan, Calls
  <1>5. EnableInv' /\ MapInv'
    BY <1>0, <1>1 DEF EnableInv, MapInv, At, Enabled, WithRegions, Established
  <1>6. NodeInv' /\ EngineInv'
    BY <1>0, <1>1 DEF NodeInv, EngineInv, At
  <1> QED
    BY <1>1, <1>2, <1>3, <1>4, <1>5, <1>6

\* misc_register on the control node; a node left by an earlier probe is to blame
\* on a failed bypass registration.
LEMMA RegisterControlInv ==
    ASSUME ResourceInv, NEW ok \in BOOLEAN, RegisterControl(ok)
    PROVE  ResourceInv'
  <1> USE DEF ResourceInv
  <1>0. /\ pc = "node_user" /\ pc' = IF ok THEN "node_bypass" ELSE "err_engines"
        /\ failed' = IF ok THEN failed ELSE failed \cup {"node_user"}
        /\ UNCHANGED <<dev, probes, bar_i, inst, drvdata, held, iomaps, enable_cnt, running, in_use,
                       misreleased>>
    BY DEF RegisterControl, Goto, MiscRegister
  <1>1. /\ nodes' \in [NodeNames -> {"absent", "present", "orphan"}]
        /\ nodes'["bypass"] = nodes["bypass"]
        /\ ~ok /\ nodes["user"] = "absent" => nodes'["user"] = "absent"
    BY DEF RegisterControl, MiscRegister, PlaceType, NodeNames
  <1>2. PlaceType' /\ InstType'
    BY <1>0, <1>1 DEF PlaceType, InstType, LabelSet, ErrAfterScan, Calls
  <1>3. DataInv' /\ BlameInv'
    BY <1>0 DEF DataInv, BlameInv, At, WithMsi, WithRegions, Established, LabelSet, ErrAfterScan, Calls
  <1>4. HeldInv'
    BY <1>0 DEF HeldInv, At, WithInst, WithMsi, WithRegions, Established,
                      LabelSet, ErrAfterScan, Calls
  <1>5. EnableInv' /\ MapInv'
    BY <1>0 DEF EnableInv, MapInv, At, Enabled, WithRegions, Established
  <1>6. NodeInv'
    BY <1>0, <1>1 DEF NodeInv, At
  <1>7. EngineInv'
    BY <1>0 DEF EngineInv, At
  <1> QED
    BY <1>2, <1>3, <1>4, <1>5, <1>6, <1>7

\* misc_register on the bypass node, the last call of probe.
LEMMA RegisterBypassInv ==
    ASSUME ResourceInv, NEW ok \in BOOLEAN, RegisterBypass(ok)
    PROVE  ResourceInv'
  <1> USE DEF ResourceInv
  <1>0. /\ pc = "node_bypass" /\ pc' = IF ok THEN "bound" ELSE "err_engines"
        /\ failed' = IF ok THEN failed ELSE failed \cup {"node_bypass"}
        /\ UNCHANGED <<dev, probes, bar_i, inst, drvdata, held, iomaps, enable_cnt, running, in_use,
                       misreleased>>
        /\ drvdata
    BY DEF RegisterBypass, Goto, MiscRegister, DataInv, Calls
  <1>1. /\ nodes' \in [NodeNames -> {"absent", "present", "orphan"}]
        /\ nodes'["user"] = nodes["user"]
        /\ ~ok => nodes'["bypass"] = "absent"
    BY <1>0 DEF RegisterBypass, MiscRegister, PlaceType, NodeNames, NodeInv
  <1>2. PlaceType' /\ InstType'
    BY <1>0, <1>1 DEF PlaceType, InstType, LabelSet, ErrAfterScan, Calls
  <1>3. DataInv' /\ BlameInv'
    BY <1>0 DEF DataInv, BlameInv, At, WithMsi, WithRegions, Established, LabelSet, ErrAfterScan, Calls
  <1>4. HeldInv'
    BY <1>0 DEF HeldInv, At, WithInst, WithMsi, WithRegions, Established,
                      LabelSet, ErrAfterScan, Calls
  <1>5. EnableInv' /\ MapInv'
    BY <1>0 DEF EnableInv, MapInv, At, Enabled, WithRegions, Established
  <1>6. NodeInv'
    BY <1>0, <1>1 DEF NodeInv, At
  <1>7. EngineInv'
    BY <1>0 DEF EngineInv, At
  <1> QED
    BY <1>2, <1>3, <1>4, <1>5, <1>6, <1>7

\* The error labels give back exactly what the failing call found taken; MSI-X
\* vectors stay, and a call is on record for them.
LEMMA ProbeUnwindInv ==
    ASSUME ResourceInv, ProbeUnwind
    PROVE  ResourceInv'
  <1> USE DEF ResourceInv
  <1>0. /\ pc \in LabelSet /\ pc' = "returned" /\ drvdata
        /\ UNCHANGED <<dev, bar_i, drvdata, nodes, running, probes, failed, in_use>>
    BY LabelsPassed DEF ProbeUnwind, DataInv
  <1>1. /\ iomaps' = {}
        /\ InstType'
    <2>1. CASE pc \in {"err_engines", "err_mask"}
      BY <2>1, LabelsPassed DEF ProbeUnwind, UnmapBars, MapInv, InstType, At, Established
    <2>2. CASE pc \notin {"err_engines", "err_mask"}
      BY <1>0, <2>2, LabelsPassed DEF ProbeUnwind, UnmapBars, MapInv, InstType, At, Established,
                                      LabelSet, ErrAfterScan
    <2> QED
      BY <2>1, <2>2
  <1>2. /\ Unwind \subseteq held
        /\ held \ Unwind \subseteq {"msix"}
    <2>1. "inst" \in held /\ "inst" \in Unwind
      BY <1>0 DEF HeldInv, At, WithInst, LabelSet, ErrAfterScan, Unwind
    <2>2. "regions" \in held <=> "regions" \in Unwind
      BY <1>0, LabelsPassed DEF HeldInv, At, WithRegions, Established, LabelSet, ErrAfterScan, Unwind
    <2>3. "msi" \in held <=> "msi" \in Unwind
      BY <1>0, LabelsPassed DEF HeldInv, At, WithMsi, WithRegions, Established, LabelSet,
                                ErrAfterScan, Unwind
    <2>4. Unwind \subseteq {"inst", "regions", "msi"}
      BY DEF Unwind
    <2> QED
      BY <2>1, <2>2, <2>3, <2>4 DEF PlaceType
  <1>3. /\ held' = held \ Unwind /\ held' \subseteq {"msix"} /\ misreleased' = {}
    BY <1>2 DEF ProbeUnwind, Give, HeldInv
  <1>4. enable_cnt' = in_use
    <2>1. DisableOnUnwind <=> At(Enabled)
      BY <1>0, LabelsPassed DEF DisableOnUnwind, EnableInv, At, Enabled, WithRegions, Established,
                                LabelSet, ErrAfterScan
    <2> QED
      BY <2>1 DEF ProbeUnwind, Give, EnableInv, PlaceType
  <1>5. PlaceType'
    BY <1>0, <1>1, <1>3, <1>4 DEF PlaceType
  <1>6. DataInv'
    BY <1>0 DEF DataInv, LabelSet, ErrAfterScan, Calls
  <1>7. HeldInv'
    BY <1>0, <1>3 DEF HeldInv, At, WithInst, WithMsi, WithRegions, Established,
                      LabelSet, ErrAfterScan, Calls
  <1>8. BlameInv'
    BY <1>0, <1>3 DEF BlameInv, At, WithMsi, WithRegions, Established, LabelSet, ErrAfterScan
  <1>9. EnableInv' /\ MapInv'
    BY <1>0, <1>1, <1>4 DEF EnableInv, MapInv, At, Enabled, WithRegions, Established, PlaceType
  <1>10. NodeInv' /\ EngineInv'
    BY <1>0 DEF NodeInv, EngineInv, At, LabelSet, ErrAfterScan
  <1> QED
    BY <1>1, <1>5, <1>6, <1>7, <1>8, <1>9, <1>10

\* remove, as far as the nodes.
LEMMA RemoveNodesInv ==
    ASSUME ResourceInv, RemoveNodes
    PROVE  ResourceInv'
  <1> USE DEF ResourceInv
  <1>0. /\ pc = "bound"
        /\ UNCHANGED <<dev, bar_i, inst, drvdata, held, iomaps, enable_cnt, running,
                       probes, failed, in_use, misreleased>>
    BY DEF RemoveNodes
  <1>1. CASE ~drvdata
    <2>1. pc' = "returned" /\ nodes' = nodes
      BY <1>1 DEF RemoveNodes
    <2>2. PlaceType' /\ InstType' /\ DataInv'
      BY <1>0, <2>1 DEF PlaceType, InstType, DataInv, LabelSet, ErrAfterScan, Calls
    <2>3. HeldInv' /\ BlameInv'
      BY <1>0, <1>1, <2>1 DEF HeldInv, BlameInv, At, WithInst, WithMsi, WithRegions, Established,
                        LabelSet, ErrAfterScan, Calls
    <2>4. EnableInv' /\ MapInv'
      BY <1>0, <1>1, <2>1 DEF EnableInv, MapInv, At, Enabled, WithRegions, Established
    <2>5. NodeInv' /\ EngineInv'
      BY <1>0, <1>1, <2>1 DEF NodeInv, EngineInv, At
    <2> QED
      BY <2>2, <2>3, <2>4, <2>5
  <1>2. CASE drvdata
    <2>1. pc' = "removing" /\ nodes' = [n \in NodeNames |-> "absent"]
      BY <1>2 DEF RemoveNodes
    <2>2. PlaceType' /\ InstType' /\ DataInv'
      BY <1>0, <1>2, <2>1 DEF PlaceType, InstType, DataInv
    <2>3. HeldInv' /\ BlameInv'
      BY <1>0, <1>2, <2>1 DEF HeldInv, BlameInv, At, WithInst, WithMsi, WithRegions, Established,
                        LabelSet, ErrAfterScan, Calls
    <2>4. EnableInv' /\ MapInv'
      BY <1>0, <1>2, <2>1 DEF EnableInv, MapInv, At, Enabled, WithRegions, Established
    <2>5. NodeInv' /\ EngineInv'
      BY <1>0, <2>1 DEF NodeInv, EngineInv, At, NodeNames
    <2> QED
      BY <2>2, <2>3, <2>4, <2>5
  <1> QED
    BY <1>1, <1>2

\* The rest of remove gives back all there is, vectors included.
LEMMA RemoveResourcesInv ==
    ASSUME ResourceInv, RemoveResources
    PROVE  ResourceInv'
  <1> USE DEF ResourceInv
  <1> DEFINE All == (IF inst.got THEN {"regions"} ELSE {})
                      \cup (IF inst.msix THEN {"msix"} ELSE IF inst.msi THEN {"msi"} ELSE {})
                      \cup {"inst"}
  <1>0. /\ pc = "removing" /\ pc' = "returned"
        /\ UNCHANGED <<dev, bar_i, drvdata, nodes, running, probes, failed, in_use>>
        /\ iomaps' = {} /\ InstType'
    BY DEF RemoveResources, UnmapBars, MapInv, InstType, At, Established
  <1>1. All = held
    <2>1. At(WithRegions) /\ At(WithMsi) /\ At(WithInst)
      BY <1>0 DEF At, WithInst, WithMsi, WithRegions, Established
    <2>2. inst.got /\ "regions" \in held /\ "inst" \in held
      BY <2>1 DEF HeldInv
    <2>3. (inst.msix <=> "msix" \in held) /\ (inst.msi <=> "msi" \in held) /\ ~(inst.msi /\ inst.msix)
      BY <2>1 DEF HeldInv
    <2>4. held \subseteq {"inst", "regions", "msi", "msix"}
      BY DEF PlaceType
    <2>5. CASE inst.msix
      BY <2>2, <2>3, <2>4, <2>5
    <2>6. CASE ~inst.msix /\ inst.msi
      BY <2>2, <2>3, <2>4, <2>6
    <2>7. CASE ~inst.msix /\ ~inst.msi
      BY <2>2, <2>3, <2>4, <2>7
    <2> QED
      BY <2>5, <2>6, <2>7
  <1>2. held' = {} /\ misreleased' = {} /\ enable_cnt' = in_use
    <2>1. Give(All, ~inst.in_use)
      BY DEF RemoveResources
    <2>2. ~inst.in_use /\ enable_cnt = in_use + 1
      BY <1>0 DEF EnableInv, At, Enabled, WithRegions, Established
    <2> QED
      BY <1>1, <2>1, <2>2 DEF Give, HeldInv, PlaceType
  <1>3. PlaceType'
    BY <1>0, <1>2 DEF PlaceType
  <1>4. DataInv' /\ BlameInv'
    BY <1>0, <1>2 DEF DataInv, BlameInv, LabelSet, ErrAfterScan, Calls
  <1>5. HeldInv'
    BY <1>0, <1>2 DEF HeldInv, At, WithInst, WithMsi, WithRegions, Established,
                      LabelSet, ErrAfterScan, Calls
  <1>6. EnableInv' /\ MapInv'
    BY <1>0, <1>2 DEF EnableInv, MapInv, At, Enabled, WithRegions, Established, PlaceType
  <1>7. NodeInv' /\ EngineInv'
    BY <1>0 DEF NodeInv, EngineInv, At
  <1> QED
    BY <1>0, <1>3, <1>4, <1>5, <1>6, <1>7

\* The driver core forgets the instance.
LEMMA CoreUnbindsInv ==
    ASSUME ResourceInv, CoreUnbinds
    PROVE  ResourceInv'
  <1> USE DEF ResourceInv, CoreUnbinds
  <1>1. PlaceType' /\ InstType' /\ DataInv'
    <2>1. drvdata' \in BOOLEAN /\ pc' \in {"unbound"}
      OBVIOUS
    <2> QED
      BY <2>1 DEF PlaceType, InstType, DataInv, LabelSet, ErrAfterScan, Calls
  <1>2. HeldInv' /\ BlameInv'
    BY DEF HeldInv, BlameInv, At, WithInst, WithMsi, WithRegions, Established, LabelSet,
           ErrAfterScan, Calls
  <1>3. EnableInv' /\ MapInv'
    BY DEF EnableInv, MapInv, At, Enabled, WithRegions, Established
  <1>4. NodeInv' /\ EngineInv'
    BY DEF NodeInv, EngineInv, At
  <1> QED
    BY <1>1, <1>2, <1>3, <1>4

\* Every step of the driver keeps the invariant.
LEMMA DriverStepInv == ResourceInv /\ [DriverNext]_driver => ResourceInv'
  <1> SUFFICES ASSUME ResourceInv, [DriverNext]_driver PROVE ResourceInv'
    OBVIOUS
  <1>1. ASSUME NEW ok \in BOOLEAN, AllocInstance(ok) \/ EnableDevice(ok) \/ ScanMsi(ok)
        PROVE  ResourceInv'
    BY <1>1, AllocInv, EnableDeviceInv, ScanMsiInv
  <1>2. ASSUME NEW ok \in BOOLEAN, RequestRegions(ok) \/ MapSingleBar(ok) \/ SetDmaMask(ok)
        PROVE  ResourceInv'
    BY <1>2, RequestRegionsInv, MapSingleBarInv, SetDmaMaskInv
  <1>3. ASSUME NEW ok \in BOOLEAN, RegisterControl(ok) \/ RegisterBypass(ok)
        PROVE  ResourceInv'
    BY <1>3, RegisterControlInv, RegisterBypassInv
  <1>4. CASE MapBarsEnd \/ ProbeEngines \/ ProbeUnwind
    BY <1>4, MapBarsEndInv, ProbeEnginesInv, ProbeUnwindInv
  <1>5. CASE RemoveNodes \/ RemoveResources \/ CoreUnbinds
    BY <1>5, RemoveNodesInv, RemoveResourcesInv, CoreUnbindsInv
  <1>6. CASE UNCHANGED driver
    <2>1. PlaceType' /\ InstType' /\ DataInv' /\ HeldInv' /\ BlameInv'
      BY <1>6 DEF ResourceInv, driver, PlaceType, InstType, DataInv, HeldInv, BlameInv, At
    <2>2. EnableInv' /\ MapInv' /\ NodeInv' /\ EngineInv'
      BY <1>6 DEF ResourceInv, driver, EnableInv, MapInv, NodeInv, EngineInv, At
    <2> QED
      BY <2>1, <2>2 DEF ResourceInv
  <1> QED
    BY <1>1, <1>2, <1>3, <1>4, <1>5, <1>6 DEF DriverNext

-----------------------------------------------------------------------------
(***************************************************************************)
(* Which BAR the nodes serve, and the process' buffer.                      *)
(***************************************************************************)
Present(i) == dev.bar[i] # "absent"
BarOf(n)   == IF \E i \in BarIdx : dev.bar[i] = n
              THEN CHOOSE i \in BarIdx : dev.bar[i] = n ELSE -1

\* What map_bars knows after bar_i turns: its list holds the BARs present so far,
\* in order, and pos says where in it the config BAR is.
ListInv ==
    LET list == inst.list
    IN  /\ \A k \in 1 .. Len(list) : list[k] < bar_i /\ Present(list[k])
        /\ \A k, l \in 1 .. Len(list) : k < l => list[k] < list[l]
        /\ \A i \in BarIdx : i < bar_i /\ Present(i) => \E k \in 1 .. Len(list) : list[k] = i
        /\ inst.config >= 0 => /\ inst.pos < Len(list)
                               /\ dev.bar[list[inst.pos + 1]] = "config"

\* The nodes' BARs: not known until map_bars has ended, right from then on.
BarInv ==
    /\ pc \in {"enable", "scan_msi", "regions"} => inst.list = <<>> /\ inst.config = -1
    /\ pc = "map_bars" => ListInv
    /\ inst.user \in {-1, BarOf("user")} /\ inst.bypass \in {-1, BarOf("bypass")}
    /\ At(Established) => inst.user = BarOf("user") /\ inst.bypass = BarOf("bypass")

\* What a process has mapped.
BaseInv == base \in [NodeNames -> {"none", "failed", "wild", "user", "bypass"}]
               /\ \A n \in NodeNames : base[n] \in {"none", "failed", "wild", n}

ClientType ==
    /\ cpc \in {"start", "open_bypass", "mmap_user", "mmap_bypass", "set", "get", "using"}
    /\ slot \in [array : {"wild", "pinned", "freed"}, npages : Nat, hnpages : Nat]
    /\ table \in Nat /\ pins \in Nat /\ got \in Nat /\ leaked \in Nat
    /\ oops \in {"no", "bug_on", "wild"}

\* The driver's record is this run's own from BUFFER_SET to RELEASE.
BufferInv ==
    /\ pins = leaked + got
    /\ got > 0 => slot.npages = got /\ slot.hnpages = CeilDiv(got, PerHuge)
    /\ cpc \notin {"get", "using"} => got = 0
    /\ cpc # "using" => table = 0
    /\ got > 0 /\ table > 0 => table = CeilDiv(got, PerHuge) /\ table <= Room

ClientInv == BarInv /\ BaseInv /\ ClientType /\ BufferInv

\* A board has one BAR of a kind.
LEMMA BarOfUnique ==
    ASSUME dev \in Devices, NEW n \in NodeNames
    PROVE  /\ \A i \in BarIdx : dev.bar[i] = n => BarOf(n) = i
           /\ (\A i \in BarIdx : dev.bar[i] # n) => BarOf(n) = -1
           /\ BarOf(n) # -1 => BarOf(n) \in BarIdx /\ dev.bar[BarOf(n)] = n
  <1>1. ASSUME NEW i \in BarIdx, NEW j \in BarIdx, dev.bar[i] = n, dev.bar[j] = n
        PROVE  i = j
    <2>1. ~(i < j) /\ ~(j < i)
      BY <1>1, DeviceFields DEF NodeNames, BarOrder
    <2> QED
      BY <2>1 DEF BarIdx
  <1>2. CASE \E i \in BarIdx : dev.bar[i] = n
    <2> DEFINE c == CHOOSE i \in BarIdx : dev.bar[i] = n
    <2>1. c \in BarIdx /\ dev.bar[c] = n
      BY <1>2
    <2>2. BarOf(n) = c
      BY <1>2 DEF BarOf
    <2> HIDE DEF c
    <2> QED
      BY <1>1, <1>2, <2>1, <2>2
  <1>3. CASE ~\E i \in BarIdx : dev.bar[i] = n
    BY <1>3 DEF BarOf
  <1> QED
    BY <1>2, <1>3

\* identify_bars finds the nodes' BARs from the number of BARs and the place of
\* the config BAR alone.
LEMMA IdentifyBarsRight ==
    ASSUME dev \in Devices, InstType, bar_i = 6, ListInv, inst.config >= 0
    PROVE  IdentifyBars(inst.list, inst.pos) = [user |-> BarOf("user"), bypass |-> BarOf("bypass")]
  <1> DEFINE list == inst.list
             p    == inst.pos + 1
             L    == Len(list)
             K(k) == dev.bar[list[k]]
  <1>1. L \in Nat /\ p \in 1 .. L /\ \A k \in 1 .. L : list[k] \in BarIdx
    BY DEF InstType, ListInv
  <1>2. K(p) = "config"
    BY DEF ListInv
  <1>3. \A k, l \in 1 .. L : k < l => <<K(k), K(l)>> \in BarOrder
    <2> SUFFICES ASSUME NEW k \in 1 .. L, NEW l \in 1 .. L, k < l
                 PROVE  <<K(k), K(l)>> \in BarOrder
      OBVIOUS
    <2>1. list[k] < list[l] /\ K(k) # "absent" /\ K(l) # "absent"
      BY DEF ListInv, Present
    <2> QED
      BY <1>1, <2>1, DeviceFields
  <1>4. \A i \in BarIdx : dev.bar[i] \in NodeNames => \E k \in 1 .. L : list[k] = i
    <2> SUFFICES ASSUME NEW i \in BarIdx, dev.bar[i] \in NodeNames
                 PROVE  \E k \in 1 .. L : list[k] = i
      OBVIOUS
    <2>1. i < bar_i /\ Present(i)
      BY DEF BarIdx, Present, NodeNames
    <2> QED
      BY <2>1 DEF ListInv
  <1>5. \A k \in 1 .. L : (k < p => K(k) = "user") /\ (p < k => K(k) = "bypass")
    <2> SUFFICES ASSUME NEW k \in 1 .. L
                 PROVE  (k < p => K(k) = "user") /\ (p < k => K(k) = "bypass")
      OBVIOUS
    <2>1. k < p => <<K(k), "config">> \in BarOrder
      BY <1>1, <1>2, <1>3
    <2>2. p < k => <<"config", K(k)>> \in BarOrder
      BY <1>1, <1>2, <1>3
    <2> HIDE DEF K
    <2> QED
      BY <2>1, <2>2 DEF BarOrder
  <1> HIDE DEF K, list, L, p
  <1>6. p \in {1, 2} /\ L \in {p, p + 1}
    <2>1. p < 3
      <3> SUFFICES ASSUME p >= 3 PROVE FALSE
        BY <1>1
      <3>1. K(1) = "user" /\ K(2) = "user" /\ <<K(1), K(2)>> \in BarOrder
        BY <1>1, <1>3, <1>5
      <3> QED
        BY <3>1 DEF BarOrder
    <2>2. L < p + 2
      <3> SUFFICES ASSUME L >= p + 2 PROVE FALSE
        BY <1>1
      <3>1. /\ K(p + 1) = "bypass" /\ K(p + 2) = "bypass"
            /\ <<K(p + 1), K(p + 2)>> \in BarOrder
        BY <1>1, <1>3, <1>5
      <3> QED
        BY <3>1 DEF BarOrder
    <2> QED
      BY <1>1, <2>1, <2>2
  <1>7. BarOf("user") = IF p = 2 THEN list[1] ELSE -1
    <2>1. CASE p = 2
      <3>1. dev.bar[list[1]] = "user" /\ list[1] \in BarIdx
        BY <1>1, <1>5, <2>1 DEF K
      <3> QED
        BY <2>1, <3>1, BarOfUnique DEF NodeNames
    <2>2. CASE p = 1
      <3>1. \A k \in 1 .. L : K(k) # "user"
        BY <1>1, <1>2, <1>5, <2>2
      <3>2. \A i \in BarIdx : dev.bar[i] # "user"
        BY <1>4, <3>1 DEF K, NodeNames
      <3> QED
        BY <2>2, <3>2, BarOfUnique DEF NodeNames
    <2> QED
      BY <1>6, <2>1, <2>2
  <1>8. BarOf("bypass") = IF L = p + 1 THEN list[p + 1] ELSE -1
    <2>1. CASE L = p + 1
      <3>1. dev.bar[list[p + 1]] = "bypass" /\ list[p + 1] \in BarIdx
        BY <1>1, <1>5, <2>1 DEF K
      <3> QED
        BY <2>1, <3>1, BarOfUnique DEF NodeNames
    <2>2. CASE L = p
      <3>1. \A k \in 1 .. L : K(k) # "bypass"
        BY <1>1, <1>2, <1>5, <2>2
      <3>2. \A i \in BarIdx : dev.bar[i] # "bypass"
        BY <1>4, <3>1 DEF K, NodeNames
      <3> QED
        BY <1>1, <2>2, <3>2, BarOfUnique DEF NodeNames
    <2> QED
      BY <1>6, <2>1, <2>2
  <1>9. /\ L = Len(inst.list) /\ list = inst.list /\ p = inst.pos + 1 /\ inst.pos \in Nat
    BY DEF list, L, p, InstType
  <1>10. CASE p = 1 /\ L = 1
    BY <1>7, <1>8, <1>9, <1>10 DEF IdentifyBars
  <1>11. CASE p = 1 /\ L = 2
    BY <1>7, <1>8, <1>9, <1>11 DEF IdentifyBars
  <1>12. CASE p = 2 /\ L = 2
    BY <1>7, <1>8, <1>9, <1>12 DEF IdentifyBars
  <1>13. CASE p = 2 /\ L = 3
    BY <1>7, <1>8, <1>9, <1>13 DEF IdentifyBars
  <1> QED
    BY <1>6, <1>10, <1>11, <1>12, <1>13

\* A turn of the loop extends the list by the BAR it looks at.
LEMMA MapSingleBarList ==
    ASSUME ResourceInv, BarInv, NEW ok \in BOOLEAN, MapSingleBar(ok)
    PROVE  BarInv'
  <1> USE DEF ResourceInv
  <1>0. /\ pc = "map_bars" /\ bar_i \in BarIdx /\ UNCHANGED <<dev, drvdata>>
        /\ ListInv
    BY DEF MapSingleBar, BarInv
  <1>1. BarOf("user")' = BarOf("user") /\ BarOf("bypass")' = BarOf("bypass")
    BY <1>0 DEF BarOf
  <1>2. CASE dev.bar[bar_i] = "absent"
    <2>1. bar_i' = bar_i + 1 /\ UNCHANGED <<pc, inst>>
      BY <1>2 DEF MapSingleBar
    <2>2. ListInv'
      <3>1. \A k \in 1 .. Len(inst.list) : inst.list[k] \in Int /\ inst.list[k] < bar_i + 1
        <4>1. \A k \in 1 .. Len(inst.list) : inst.list[k] \in BarIdx
          BY DEF InstType
        <4>2. \A k \in 1 .. Len(inst.list) : inst.list[k] < bar_i
          BY <1>0 DEF ListInv
        <4> QED
          BY <1>0, <4>1, <4>2 DEF BarIdx
      <3>2. \A i \in BarIdx : i < bar_i + 1 /\ Present(i) => i < bar_i
        BY <1>0, <1>2 DEF BarIdx, Present
      <3> QED
        BY <1>0, <2>1, <3>1, <3>2 DEF ListInv, Present
    <2> QED
      BY <1>0, <1>1, <2>1, <2>2 DEF BarInv, At, Established
  <1>3. CASE dev.bar[bar_i] # "absent" /\ ok
    <2> DEFINE hit == inst.config < 0 /\ IsConfigBar(bar_i)
    <2>1. /\ bar_i' = bar_i + 1 /\ pc' = pc
          /\ inst' = [inst EXCEPT
                !.bar = @ \cup {bar_i}, !.list = Append(@, bar_i),
                !.config = IF @ < 0 /\ IsConfigBar(bar_i) THEN bar_i ELSE @,
                !.pos = IF inst.config < 0 /\ IsConfigBar(bar_i) THEN Len(inst.list) ELSE @]
      BY <1>3 DEF MapSingleBar
    <2>2. /\ inst'.user = inst.user /\ inst'.bypass = inst.bypass
          /\ inst'.list = Append(inst.list, bar_i)
          /\ inst'.config = IF hit THEN bar_i ELSE inst.config
          /\ inst'.pos = IF hit THEN Len(inst.list) ELSE inst.pos
      BY <2>1 DEF InstType
    <2>3. /\ Len(inst.list) \in Nat /\ Len(inst'.list) = Len(inst.list) + 1
          /\ \A k \in 1 .. Len(inst.list) : inst'.list[k] = inst.list[k] /\ inst.list[k] \in BarIdx
          /\ inst'.list[Len(inst.list) + 1] = bar_i
      BY <1>0, <2>2 DEF InstType
    <2>4. \A k \in 1 .. Len(inst'.list) : inst'.list[k] < bar_i' /\ Present(inst'.list[k])
      BY <1>0, <1>3, <2>1, <2>3 DEF ListInv, BarIdx, Present
    <2>5. \A k, l \in 1 .. Len(inst'.list) : k < l => inst'.list[k] < inst'.list[l]
      <3> SUFFICES ASSUME NEW k \in 1 .. Len(inst'.list), NEW l \in 1 .. Len(inst'.list), k < l
                   PROVE  inst'.list[k] < inst'.list[l]
        OBVIOUS
      <3>1. k \in 1 .. Len(inst.list) /\ (l \in 1 .. Len(inst.list) \/ l = Len(inst.list) + 1)
        BY <2>3
      <3> QED
        BY <1>0, <2>3, <3>1 DEF ListInv
    <2>6. \A i \in BarIdx : i < bar_i' /\ Present(i) => \E k \in 1 .. Len(inst'.list) : inst'.list[k] = i
      <3> SUFFICES ASSUME NEW i \in BarIdx, i < bar_i', Present(i)
                   PROVE  \E k \in 1 .. Len(inst'.list) : inst'.list[k] = i
        OBVIOUS
      <3>1. CASE i = bar_i
        BY <2>3, <3>1
      <3>2. CASE i < bar_i
        <4>1. PICK k \in 1 .. Len(inst.list) : inst.list[k] = i
          BY <1>0, <3>2 DEF ListInv
        <4> QED
          BY <2>3, <4>1
      <3> QED
        BY <1>0, <2>1, <3>1, <3>2 DEF BarIdx
    <2>7. inst'.config >= 0 => inst'.pos < Len(inst'.list) /\ dev.bar[inst'.list[inst'.pos + 1]] = "config"
      <3>1. CASE hit
        BY <1>0, <2>2, <2>3, <3>1 DEF IsConfigBar
      <3>2. CASE ~hit
        <4>1. inst.pos \in Nat /\ inst'.pos = inst.pos /\ inst'.config = inst.config
          BY <2>2, <3>2 DEF InstType
        <4>2. inst.config >= 0 => /\ inst.pos + 1 \in 1 .. Len(inst.list)
                                  /\ dev.bar[inst.list[inst.pos + 1]] = "config"
          BY <1>0, <2>3, <4>1 DEF ListInv
        <4> QED
          BY <2>3, <4>1, <4>2
      <3> QED
        BY <3>1, <3>2
    <2>8. ListInv'
      BY <1>0, <2>4, <2>5, <2>6, <2>7 DEF ListInv, Present
    <2> QED
      BY <1>0, <1>1, <2>1, <2>2, <2>8 DEF BarInv, At, Established
  <1>4. CASE dev.bar[bar_i] # "absent" /\ ~ok
    <2>1. inst'.user = inst.user /\ inst'.bypass = inst.bypass /\ pc' = "err_map"
      BY <1>4 DEF MapSingleBar, InstType
    <2> QED
      BY <1>0, <1>1, <2>1 DEF BarInv, At, Established
  <1> QED
    BY <1>2, <1>3, <1>4

\* map_bars ends with the BARs of the nodes identified.
LEMMA MapBarsEndList ==
    ASSUME ResourceInv, BarInv, MapBarsEnd
    PROVE  BarInv'
  <1> USE DEF ResourceInv
  <1>0. /\ pc = "map_bars" /\ pc' = IF inst.config >= 0 THEN "mask" ELSE "err_map"
        /\ UNCHANGED <<dev, drvdata>> /\ ListInv /\ bar_i = 6
    BY DEF MapBarsEnd, Goto, BarInv, BarIdx, PlaceType
  <1>1. BarOf("user")' = BarOf("user") /\ BarOf("bypass")' = BarOf("bypass")
    BY <1>0 DEF BarOf
  <1>2. CASE inst.config >= 0
    <2>1. IdentifyBars(inst.list, inst.pos) = [user |-> BarOf("user"), bypass |-> BarOf("bypass")]
      BY <1>0, <1>2, IdentifyBarsRight DEF PlaceType
    <2>2. inst' = [inst EXCEPT !.user = BarOf("user"), !.bypass = BarOf("bypass")]
      BY <1>2, <2>1 DEF MapBarsEnd
    <2>3. inst'.user = BarOf("user") /\ inst'.bypass = BarOf("bypass")
      BY <2>2 DEF InstType
    <2> QED
      BY <1>0, <1>1, <1>2, <2>3 DEF BarInv
  <1>3. CASE ~(inst.config >= 0)
    <2>1. inst'.user = inst.user /\ inst'.bypass = inst.bypass
      BY <1>3 DEF MapBarsEnd, InstType
    <2> QED
      BY <1>0, <1>1, <1>3, <2>1 DEF BarInv, At, Established
  <1> QED
    BY <1>2, <1>3

\* Every step of the driver keeps what is known of the BARs.
LEMMA DriverStepBars == ResourceInv /\ BarInv /\ [DriverNext]_driver => BarInv'
  <1> SUFFICES ASSUME ResourceInv, BarInv, [DriverNext]_driver PROVE BarInv'
    OBVIOUS
  <1> USE DEF ResourceInv
  <1>0. dev' = dev => BarOf("user")' = BarOf("user") /\ BarOf("bypass")' = BarOf("bypass")
    BY DEF BarOf
  <1>1. ASSUME NEW ok \in BOOLEAN, AllocInstance(ok)
        PROVE  BarInv'
    <2>1. CASE ok
      BY <1>0, <1>1, <2>1 DEF AllocInstance, BarInv, Inst0, At, Established
    <2>2. CASE ~ok
      BY <1>0, <1>1, <2>2 DEF AllocInstance, BarInv, At, Established, DataInv
    <2> QED
      BY <2>1, <2>2
  <1>2. ASSUME NEW ok \in BOOLEAN, EnableDevice(ok) \/ SetDmaMask(ok)
        PROVE  BarInv'
    BY <1>0, <1>2 DEF EnableDevice, SetDmaMask, Goto, BarInv, At, Established
  <1>3. ASSUME NEW ok \in BOOLEAN, ScanMsi(ok)
        PROVE  BarInv'
    BY <1>0, <1>3 DEF ScanMsi, Goto, ScanLabel, BarInv, At, Established, InstType
  <1>4. ASSUME NEW ok \in BOOLEAN, RequestRegions(ok)
        PROVE  BarInv'
    <2>1. /\ pc = "regions" /\ pc' \in {"map_bars", "err_regions"} /\ bar_i' = 0 /\ dev' = dev
          /\ inst'.list = <<>> /\ inst'.config = -1 
          /\ inst'.user = inst.user /\ inst'.bypass = inst.bypass
      BY <1>4 DEF RequestRegions, Goto, InstType, BarInv
    <2>2. ListInv'
      BY <2>1 DEF ListInv, BarIdx
    <2> QED
      BY <1>0, <2>1, <2>2 DEF BarInv, At, Established
  <1>5. ASSUME NEW ok \in BOOLEAN, RegisterControl(ok) \/ RegisterBypass(ok)
        PROVE  BarInv'
    BY <1>0, <1>5 DEF RegisterControl, RegisterBypass, MiscRegister, Goto, BarInv, At, Established
  <1>6. CASE ProbeEngines
    <2>1. /\ pc = "engines" /\ pc' \in {"node_user", "err_engines"} /\ dev' = dev
          /\ inst'.user = inst.user /\ inst'.bypass = inst.bypass
      BY <1>6 DEF ProbeEngines, Goto, InstType
    <2> QED
      BY <1>0, <2>1 DEF BarInv, At, Established
  <1>7. CASE ProbeUnwind \/ RemoveResources
    <2>1. /\ pc' = "returned" /\ dev' = dev
          /\ inst'.user = inst.user /\ inst'.bypass = inst.bypass
      BY <1>7 DEF ProbeUnwind, RemoveResources, UnmapBars, InstType
    <2> QED
      BY <1>0, <2>1 DEF BarInv, At, Established
  <1>8. CASE RemoveNodes \/ CoreUnbinds
    BY <1>0, <1>8 DEF RemoveNodes, CoreUnbinds, BarInv, At, Established
  <1>9. CASE UNCHANGED driver
    BY <1>9 DEF driver, BarInv, ListInv, BarOf, Present, At
  <1> QED
    BY <1>1, <1>2, <1>3, <1>4, <1>5, <1>6, <1>7, <1>8, <1>9, MapSingleBarList, MapBarsEndList
       DEF DriverNext

\* Whole huge pages, also for no pages.
LEMMA CeilDivType ==
    ASSUME NEW a \in Nat
    PROVE  CeilDiv(a, PerHuge) \in Nat
  <1>1. PerHuge \in Nat /\ PerHuge >= 1
    BY BufferAssumption
  <1>2. a + PerHuge - 1 \in Nat
    BY <1>1
  <1> QED
    BY <1>1, <1>2 DEF CeilDiv

\* The size of the caller's table.
LEMMA RoomType == Room \in Nat
  <1>1. PerHuge \in Nat /\ PerHuge >= 1 /\ BufPages \in Nat
    BY BufferAssumption
  <1> QED
    BY <1>1 DEF Room

\* The state in which the first process and the first probe find the driver.
LEMMA ClientInitInv == Init => ClientInv
  <1> SUFFICES ASSUME Init PROVE ClientInv
    OBVIOUS
  <1> USE DEF Init, DriverInit
  <1>1. BarInv
    BY DEF BarInv, Inst0, At, Established
  <1>2. BaseInv
    BY DEF BaseInv, Unmapped, NodeNames
  <1>3. ClientType
    BY BufferAssumption, RoomType DEF ClientType
  <1>4. BufferInv
    BY DEF BufferInv
  <1> QED
    BY <1>1, <1>2, <1>3, <1>4 DEF ClientInv

\* The end of a run leaves the pinned pages to the history.
LEMMA GoneInv ==
    ASSUME ClientInv, Gone
    PROVE  BaseInv' /\ ClientType' /\ BufferInv'
  <1> USE DEF ClientInv, Gone, ioctls
  <1>1. BaseInv'
    BY DEF BaseInv, Unmapped, NodeNames
  <1>2. ClientType'
    BY DEF ClientType
  <1>3. BufferInv'
    BY DEF BufferInv, ClientType
  <1> QED
    BY <1>1, <1>2, <1>3

\* What a node's mmap can return is the BAR it is named for.
LEMMA MmapOfRight ==
    ASSUME ResourceInv, BarInv, NEW n \in NodeNames
    PROVE  MmapOf(n) \subseteq {"failed", "wild", n}
  <1>1. inst[n] \in {-1, BarOf(n)}
    BY DEF BarInv, NodeNames
  <1>2. inst[n] # -1 => dev.bar[inst[n]] = n
    BY <1>1, BarOfUnique DEF ResourceInv, PlaceType
  <1> QED
    BY <1>2 DEF MmapOf

\* A process maps a node, whatever the driver is doing meanwhile.
LEMMA MmapNodeInv ==
    ASSUME ResourceInv, ClientInv, NEW n \in NodeNames,
           NEW at \in {"mmap_user", "mmap_bypass"}, NEW next \in {"mmap_bypass", "set"},
           MmapNode(n, at, next)
    PROVE  BaseInv' /\ ClientType' /\ BufferInv'
  <1> USE DEF ClientInv, MmapNode, ioctls
  <1>1. BaseInv'
    <2>1. base' = base \/ \E r \in {"failed", "wild", n} : base' = [base EXCEPT ![n] = r]
      BY MmapOfRight
    <2> QED
      BY <2>1 DEF BaseInv, NodeNames
  <1>2. ClientType'
    BY DEF ClientType
  <1>3. BufferInv'
    BY DEF BufferInv, ClientType
  <1> QED
    BY <1>1, <1>2, <1>3

\* BUFFER_SET, with all, some or none of the pages pinned.
LEMMA BufferSetInv ==
    ASSUME ClientInv, BufferSet
    PROVE  BaseInv' /\ ClientType' /\ BufferInv'
  <1> USE DEF ClientInv
  <1>0. cpc = "set" /\ UNCHANGED <<base, table, leaked>> /\ got = 0 /\ table = 0 /\ pins = leaked
    BY DEF BufferSet, BufferInv, ClientType
  <1>1. BaseInv'
    BY <1>0 DEF BaseInv
  <1>2. ASSUME NEW rc \in 1 .. BufPages, SetSlot(rc), pins' = pins + rc, got' = rc, cpc' = "get",
               oops' = oops
        PROVE  ClientType' /\ BufferInv'
    <2>1. rc \in Nat /\ CeilDiv(rc, PerHuge) \in Nat
      BY CeilDivType, BufferAssumption
    <2>2. slot'.npages = rc /\ slot'.hnpages = CeilDiv(rc, PerHuge)
      BY <1>2 DEF SetSlot
    <2>3. ClientType'
      BY <1>0, <1>1, <1>2, <2>1 DEF ClientType, SetSlot
    <2>4. BufferInv'
      BY <1>0, <1>1, <1>2, <2>1, <2>2 DEF BufferInv, ClientType
    <2> QED
      BY <2>3, <2>4
  <1>3. CASE slot' = [slot EXCEPT !.array = "wild"] /\ cpc' = "get" /\ UNCHANGED <<pins, got, oops>>
    BY <1>0, <1>1, <1>3 DEF ClientType, BufferInv
  <1>4. CASE oops' = "wild" /\ UNCHANGED <<slot, pins, got, cpc>>
    BY <1>0, <1>1, <1>4 DEF ClientType, BufferInv
  <1> QED
    BY <1>1, <1>2, <1>3, <1>4 DEF BufferSet

\* MAPPING_GET, refused, served or failing to copy.
LEMMA MappingGetInv ==
    ASSUME ClientInv, MappingGet
    PROVE  BaseInv' /\ ClientType' /\ BufferInv'
  <1> USE DEF ClientInv
  <1>0. cpc = "get" /\ UNCHANGED <<base, got, leaked, slot, pins>> /\ table = 0
    BY DEF MappingGet, BufferInv, ioctls
  <1>1. BaseInv'
    BY <1>0 DEF BaseInv
  <1>2. CASE Room < slot.hnpages /\ cpc' = "using" /\ UNCHANGED <<table, oops>>
    BY <1>0, <1>1, <1>2 DEF ClientType, BufferInv
  <1>3. CASE Room >= slot.hnpages /\ table' \in {table, slot.hnpages} /\ cpc' = "using" /\ UNCHANGED oops
    BY <1>0, <1>1, <1>3, RoomType DEF ClientType, BufferInv
  <1>4. CASE oops' = "wild" /\ UNCHANGED <<table, cpc>>
    BY <1>0, <1>1, <1>4 DEF ClientType, BufferInv
  <1> QED
    BY <1>1, <1>2, <1>3, <1>4 DEF MappingGet

\* RELEASE puts the pages this run pinned.
LEMMA ReleaseInv ==
    ASSUME ClientInv, ReleaseMapping
    PROVE  BaseInv' /\ ClientType' /\ BufferInv'
  <1> USE DEF ClientInv, ReleaseMapping
  <1>1. BaseInv'
    BY DEF BaseInv
  <1>2. pins' = leaked /\ leaked' = leaked
    BY DEF BufferInv, ClientType
  <1>3. ClientType'
    BY <1>2 DEF ClientType
  <1>4. BufferInv'
    BY <1>2 DEF BufferInv, ClientType
  <1> QED
    BY <1>1, <1>3, <1>4

\* The conjunction is inductive.
LEMMA StepInv == ResourceInv /\ ClientInv /\ [Next]_vars => ResourceInv' /\ ClientInv'
  <1> SUFFICES ASSUME ResourceInv, ClientInv, [Next]_vars PROVE ResourceInv' /\ ClientInv'
    OBVIOUS
  <1>1. ResourceInv' /\ BarInv'
    <2>1. [DriverNext]_driver
      BY DEF Next, ClientStep, DriverStep, Stopped, vars
    <2> QED
      BY <2>1, DriverStepInv, DriverStepBars DEF ClientInv
  <1>2. BaseInv' /\ ClientType' /\ BufferInv'
    <2>1. CASE OpenControl \/ OpenBypass
      <3>1. CASE Gone
        BY <3>1, GoneInv
      <3>2. CASE /\ cpc' \in {"open_bypass", "mmap_user"} /\ cpc \in {"start", "open_bypass"}
                 /\ UNCHANGED <<base, table, got, leaked, ioctls, oops>>
        BY <3>2 DEF ClientInv, BaseInv, ClientType, BufferInv, ioctls
      <3> QED
        BY <2>1, <3>1, <3>2 DEF OpenControl, OpenBypass, OpenNode
    <2>2. CASE MmapControl \/ MmapBypass
      BY <2>2, MmapNodeInv DEF MmapControl, MmapBypass, NodeNames
    <2>3. CASE BufferSet \/ MappingGet \/ ReleaseMapping
      BY <2>3, BufferSetInv, MappingGetInv, ReleaseInv
    <2>4. CASE Clear \/ Killed
      BY <2>4, GoneInv DEF Clear, Killed
    <2>5. CASE UNCHANGED <<client, ioctls, oops>>
      BY <2>5 DEF ClientInv, BaseInv, ClientType, BufferInv, client, ioctls
    <2> QED
      BY <2>1, <2>2, <2>3, <2>4, <2>5 DEF Next, ClientStep, DriverStep, Stopped, vars
  <1> QED
    BY <1>1, <1>2 DEF ClientInv

\* The invariants hold of the driver and its clients together.
THEOREM Invariance == Spec => [](ResourceInv /\ ClientInv)
  <1>1. Init => ResourceInv /\ ClientInv
    BY DriverInitInv, ClientInitInv DEF Init
  <1> QED
    BY <1>1, StepInv, PTL DEF Spec

\* Types of the driver's, the kernel's and the process' state.
THEOREM TypeCorrect == Spec => []TypeOK
  <1>1. ResourceInv /\ ClientInv => TypeOK
    <2> SUFFICES ASSUME ResourceInv, ClientInv PROVE TypeOK
      OBVIOUS
    <2>1. DriverTypeOK
      BY DriverTypes
    <2>2. base \in [NodeNames -> {"none", "failed", "wild", "user", "config", "bypass"}]
      BY DEF ClientInv, BaseInv
    <2> QED
      BY <2>1, <2>2 DEF ClientInv, ClientType, TypeOK
  <1> QED
    BY <1>1, Invariance, PTL

\* Whatever the board, and whichever calls have failed in whichever probes: once
\* the driver is off the board it holds nothing but what UnboundHoldsNothing
\* excepts.
THEOREM DriverCleansUp == Spec => []UnboundHoldsNothing
  <1>1. ResourceInv => UnboundHoldsNothing
    <2> SUFFICES ASSUME ResourceInv, pc = "unbound" PROVE UnboundHoldsNothing
      BY DEF UnboundHoldsNothing
    <2> USE DEF ResourceInv
    <2>1. ~At(WithInst) /\ ~At(WithMsi) /\ ~At(WithRegions) /\ ~At(Enabled)
            /\ ~At(Established \cup {"map_bars"})
      BY DEF At, WithInst, WithMsi, WithRegions, Enabled, Established, LabelSet, ErrAfterScan, Calls
    <2>2. held \subseteq {"msix"} /\ ("msix" \in held => failed \ {"enable", "scan_msi"} # {})
      BY <2>1 DEF HeldInv, BlameInv, PlaceType
    <2>3. iomaps = {} /\ enable_cnt = in_use
      BY <2>1 DEF MapInv, EnableInv, PlaceType
    <2>4. nodes["bypass"] = "absent" /\ (nodes["user"] # "absent" => "node_bypass" \in failed)
      BY DEF NodeInv, At
    <2> QED
      BY <2>2, <2>3, <2>4 DEF UnboundHoldsNothing
  <1> QED
    BY <1>1, Invariance, PTL

\* No error label and no path of remove gives back what is not held.
THEOREM ReleasesOnlyHeld == Spec => []OnlyHeldReleased
  <1>1. ResourceInv => OnlyHeldReleased
    BY DEF ResourceInv, HeldInv, OnlyHeldReleased
  <1> QED
    BY <1>1, Invariance, PTL

\* Both engines of a bound board run, although the offsets of their register
\* banks are exchanged: the first channel found has the same number in both.
THEOREM BoundEnginesRun == Spec => []EnginesRun
  <1>1. ResourceInv => EnginesRun
    BY DEF ResourceInv, EngineInv, EnginesRun, At
  <1> QED
    BY <1>1, Invariance, PTL

\* identify_bars is right for every board that keeps the core's order of BARs,
\* and an mmap through a live instance never gives the BAR of another node.
THEOREM NodesAreRight == Spec => []NodesServeTheirBars
  <1>1. ResourceInv /\ ClientInv => NodesServeTheirBars
    <2> SUFFICES ASSUME ResourceInv, ClientInv, NEW n \in NodeNames
                 PROVE  /\ base[n] \in {"none", "failed", "wild", n}
                        /\ pc = "bound" /\ drvdata =>
                             inst[n] = IF \E i \in BarIdx : dev.bar[i] = n
                                       THEN CHOOSE i \in BarIdx : dev.bar[i] = n ELSE -1
      BY DEF NodesServeTheirBars
    <2>1. base[n] \in {"none", "failed", "wild", n}
      BY DEF ClientInv, BaseInv
    <2>2. pc = "bound" /\ drvdata => inst[n] = BarOf(n)
      BY DEF ClientInv, BarInv, At, Established, NodeNames
    <2> QED
      BY <2>1, <2>2 DEF BarOf
  <1> QED
    BY <1>1, Invariance, PTL

\* Page references balance and MAPPING_GET stays within the caller's table, for
\* every buffer size and every sequence of runs and kills.
THEOREM PagesAccounted == Spec => []BufferAccounted
  <1>1. ClientInv => BufferAccounted
    BY DEF ClientInv, BufferInv, BufferAccounted
  <1> QED
    BY <1>1, Invariance, PTL
=============================================================================
