----------------------------- MODULE XdmaClient -----------------------------
(***************************************************************************)
(* A process that uses the board through sw/src/fpga/Fpga.cpp, and the      *)
(* driver's file operations it calls, beside the probing and removing of    *)
(* XdmaDriver.  A file outlives remove: the process may call into a driver  *)
(* that has let go of the board.  The process may be killed at any point    *)
(* and run again; its next run finds what the last one left in the driver.  *)
(*                                                                          *)
(* xdma_open takes the instance from inode->i_cdev, which for a misc device *)
(* is the misc core's own cdev: the buffer ioctls do not work on the        *)
(* instance that probe made but on one record (slot) that all files share,  *)
(* that starts with arbitrary contents and that survives remove.            *)
(***************************************************************************)
EXTENDS XdmaDriver

CONSTANTS
    BufPages,   \* DMA_SIZE in 4 KiB pages
    PerHuge,    \* 512, the 4 KiB pages of a huge page
    MaxLeaked   \* bound: page references left behind by dead runs

ASSUME BufferAssumption ==
    /\ BufPages \in Nat \ {0} /\ PerHuge \in Nat \ {0} /\ MaxLeaked \in Nat
    /\ BufPages % PerHuge = 0

VARIABLES
    cpc,       \* where the process is
    base,      \* m_base and by_base: what the node's mmap returned
    table,     \* entries MAPPING_GET filled in
    slot,      \* the driver's record of the buffer: array, npages, hnpages
    pins,      \* external: page references taken and not put
    got,       \* history: pages the last BUFFER_SET of this run pinned
    leaked,    \* history: page references of runs that are over
    oops       \* external: "bug_on" or "wild" once the kernel has crashed

client == <<cpc, base, table, got, leaked>>
ioctls == <<slot, pins>>
vars   == <<driver, client, ioctls, oops>>

CeilDiv(a, b) == (a + b - 1) \div b
Room == BufPages \div PerHuge    \* map.npages

Unmapped == [n \in NodeNames |-> "none"]

Init ==
    /\ DriverInit
    /\ cpc = "start" /\ base = Unmapped /\ table = 0
    /\ slot \in [array : {"wild"}, npages : {0, BufPages}, hnpages : {0, Room + 1}]
    /\ pins = 0 /\ got = 0 /\ leaked = 0
    /\ oops = "no"

-----------------------------------------------------------------------------
\* The end of a run: clear, exit(1) or a signal.  The files are closed and the
\* mappings go; xdma_release does nothing, so the pinned pages stay pinned.
Gone ==
    /\ cpc' = "start" /\ base' = Unmapped /\ table' = 0
    /\ got' = 0 /\ leaked' = leaked + got
    /\ UNCHANGED <<ioctls, oops>>

\* initializeMemory: opens the two nodes in order, exits when one is missing.
OpenNode(n, at, next) ==
    /\ cpc = at
    /\ \/ nodes[n] = "present" /\ cpc' = next
          /\ UNCHANGED <<base, table, got, leaked, ioctls, oops>>
       \/ nodes[n] # "present" /\ Gone
OpenControl == leaked <= MaxLeaked /\ OpenNode("user", "start", "open_bypass")
OpenBypass  == OpenNode("bypass", "open_bypass", "mmap_user")

\* xdma_mmap and xdma_bypass_mmap on a live instance: a BAR index of -1 reads a
\* resource in front of the device's array, a BAR below MAP_SIZE is refused, and
\* the remapping may fail.
MmapOf(n) ==
    CASE inst[n] = -1                   -> {"wild", "failed"}
      [] inst[n] # -1 /\ n \in dev.small -> {"failed"}
      [] OTHER                          -> {"failed", dev.bar[inst[n]]}

\* BUG_ON(!inst) when the core has forgotten the instance, an access to freed
\* memory when it is about to.  The process looks at no result.
MmapNode(n, at, next) ==
    /\ cpc = at
    /\ \/ ~drvdata /\ oops' = "bug_on" /\ UNCHANGED <<cpc, base>>
       \/ /\ drvdata /\ "inst" \notin held
          /\ \/ oops' = "wild" /\ UNCHANGED <<cpc, base>>
             \/ cpc' = next /\ base' = [base EXCEPT ![n] = "wild"] /\ UNCHANGED oops
       \/ /\ drvdata /\ "inst" \in held
          /\ cpc' = next
          /\ \E r \in MmapOf(n) : base' = [base EXCEPT ![n] = r]
          /\ UNCHANGED oops
    /\ UNCHANGED <<table, got, leaked, ioctls>>
MmapControl == MmapNode("user", "mmap_user", "mmap_bypass")
MmapBypass  == MmapNode("bypass", "mmap_bypass", "set")

-----------------------------------------------------------------------------
SetSlotAsRequested(rc) ==
    slot' = [array |-> "pinned", npages |-> BufPages, hnpages |-> Room]
SetSlot(rc) ==
    slot' = [array |-> "pinned", npages |-> rc, hnpages |-> CeilDiv(rc, PerHuge)]

\* get_user_pages pins rc pages, possibly fewer than asked for.  With rc = 0 the
\* new array stays uninitialized beside the old counts; a negative rc, or an
\* array that could not be allocated, is used all the same.
BufferSet ==
    /\ cpc = "set"
    /\ \/ \E rc \in 1 .. BufPages :
             /\ SetSlot(rc)
             /\ pins' = pins + rc /\ got' = rc
             /\ cpc' = "get" /\ UNCHANGED oops
       \/ /\ slot' = [slot EXCEPT !.array = "wild"]
          /\ cpc' = "get" /\ UNCHANGED <<pins, got, oops>>
       \/ oops' = "wild" /\ UNCHANGED <<slot, pins, got, cpc>>
    /\ UNCHANGED <<base, table, leaked>>

\* Refused when the caller's table is too small; an array that is not pinned is
\* read all the same.
MappingGet ==
    /\ cpc = "get"
    /\ \/ Room < slot.hnpages /\ cpc' = "using" /\ UNCHANGED <<table, oops>>
       \/ /\ Room >= slot.hnpages
          /\ slot.array = "pinned" \/ slot.npages = 0
          /\ table' \in {table, slot.hnpages}  \* copy_to_user may fail
          /\ cpc' = "using" /\ UNCHANGED oops
       \/ /\ Room >= slot.hnpages
          /\ slot.array # "pinned" /\ slot.npages > 0
          /\ oops' = "wild" /\ UNCHANGED <<table, cpc>>
    /\ UNCHANGED <<base, got, leaked, ioctls>>

\* IOCTL_XDMA_RELEASE: puts npages pages, frees the array and resets nothing.
\* Fpga.cpp never calls it; a client may, once, after a BUFFER_SET that worked.
ReleaseMapping ==
    /\ cpc = "using" /\ got > 0
    /\ pins' = pins - slot.npages
    /\ slot' = [slot EXCEPT !.array = "freed"]
    /\ got' = 0 /\ table' = 0
    /\ UNCHANGED <<cpc, base, leaked, oops>>

Clear == cpc = "using" /\ Gone
Killed == cpc # "start" /\ Gone

ClientStep ==
    /\ oops = "no"
    /\ \/ OpenControl
       \/ OpenBypass
       \/ MmapControl
       \/ MmapBypass
       \/ BufferSet
       \/ MappingGet
       \/ ReleaseMapping
       \/ Clear
       \/ Killed
    /\ UNCHANGED driver

DriverStep == oops = "no" /\ DriverNext /\ UNCHANGED <<client, ioctls, oops>>

\* The kernel has crashed, or the bounds on probes and runs are used up.
Stopped ==
    /\ \/ oops # "no"
       \/ cpc = "start" /\ leaked > MaxLeaked
    /\ UNCHANGED vars

Next == ClientStep \/ DriverStep \/ Stopped

Spec == Init /\ [][Next]_vars

-----------------------------------------------------------------------------
TypeOK ==
    /\ DriverTypeOK
    /\ cpc \in {"start", "open_bypass", "mmap_user", "mmap_bypass", "set", "get", "using"}
    /\ base \in [NodeNames -> {"none", "failed", "wild", "user", "config", "bypass"}]
    /\ slot.array \in {"wild", "pinned", "freed"}
    /\ {slot.npages, slot.hnpages, table, pins, got, leaked} \subseteq Nat
    /\ oops \in {"no", "bug_on", "wild"}

\* Whatever BARs the board has and however wide they are: a bound driver's
\* nodes point at the BARs they are named for, and an mmap that reads a live
\* instance never gives the config BAR or the other node's, also in the middle
\* of a second probe.  What it gives for a freed instance or a BAR the board does
\* not have is "wild": anything, of which nothing is said here.
NodesServeTheirBars ==
    /\ \A n \in NodeNames :
          /\ base[n] \in {"none", "failed", "wild", n}
          /\ pc = "bound" /\ drvdata =>
                inst[n] = IF \E i \in BarIdx : dev.bar[i] = n
                          THEN CHOOSE i \in BarIdx : dev.bar[i] = n ELSE -1

\* RELEASE puts exactly the pages BUFFER_SET pinned, also when fewer were pinned
\* than asked for and when earlier runs ended without a RELEASE, and MAPPING_GET
\* returns one address per huge page begun, within the table of the caller.
BufferAccounted ==
    /\ pins = leaked + got
    /\ got > 0 /\ table > 0 => table = CeilDiv(got, PerHuge) /\ table <= Room

\* xdma_driver.c:273 BUG_ON(!inst): a process that maps a node finds the
\* driver's instance.
InstanceOnMmap == oops # "bug_on"
=============================================================================
