# A TLA+ model of Shuhai

Shuhai measures the throughput and the latency of FPGA memory. A host program
writes parameters into registers of the board over PCIe, raises `start`, waits
for `end` flags and reads totals and latency samples back; on the board one
read engine and one write engine per memory channel issue bursts with a given
stride over a given working set and time them. A measurement is only worth
something if every engine ran exactly once, with its own parameters, over the
addresses it was told to use, timed exactly its own bursts, and if what the
host prints is that engine's result. Beneath that the kernel driver must hand
the right windows of the board to the host program and take back what it took,
and the CPU and GPU programs kept for comparison must have done the work they
divide by the time. These are the properties of this project.

## 1. Inventory

| Component (source) | State | Operations | Talks to |
|---|---|---|---|
| Read engine (`hw/rtl/*/rd_engine.sv`) | FSM, offset, address register, ARVALID, response counter, latency timer and sum | one clock edge per FSM state; reset | memory port (AXI AR/R), channel glue |
| Write engine (`wr_engine.sv`) | FSM, offset, address register, AWVALID/WVALID guards, beat and burst counters, `wr_data_done` | one clock edge; reset | memory port (AXI AW/W/B), channel glue |
| Channel glue (`hbm_benchmark.sv`, `lt_engine.sv`) | `lt_params` per channel, start pipeline, end flags, latency mux | copy parameters while selected, start edge, set/clear flags | both engines, register file |
| Register file (`xdma_control.sv`) | `dma_control_reg`, AXI-Lite write and read FSM, output registers, sample FIFO, sample RAM and its pointers | write, read, status update, log sample | host over PCIe, glue over an unsynchronised clock crossing |
| Host (`FpgaController.cpp`, `hbm_test.cpp`, `ddr_test.cpp`) | place in its program, poll results, samples | configHBM, runHBMtest, readHBMData and the DDR twins | register file |
| Memory manager (`MemoryManager.cpp`) | chunk list, mutex | allocate, free | client threads |
| `Fpga.cpp` | singletons, mapped huge pages | initializeMemory, clear, allocate, free | driver ioctls, memory manager |
| Kernel driver (`sw/driver/xdma_driver.c`) | `struct dev_inst`: PCI resources, BAR maps, interrupts, engines; two global misc nodes; pinned pages | probe, remove, open, mmap, three ioctls | PCI core, `Fpga.cpp`, hardware |
| CPU benchmarks (`cpu_benchmark/*.cpp`) | globals `burst` and `stride`, barrier, per-thread times | threads behind a barrier; a timed pointer chase | clock, result file |
| GPU benchmarks (`gpu_benchmark/*.cu`) | array, launch geometry | strided sweep, pointer chase | device |
| Scripts | none | project generation, plotting | - |

Hard behaviours: address, data and response channels that overlap freely;
counters kept by blocks beside the FSM; starts and resets in the middle of a
run; asynchronous clocks with nothing synchronised between them; posted
writes whose order and spacing matter; status flags that outlive a run; a
latency pipeline longer than the wait that hides it; an allocator whose free
takes no lock; a probe that may fail at any of a dozen calls, and files that
outlive a remove; processes killed between two ioctls; threads that share the
variables their main program moves on. `PROJECT.json` lists the hazards at
their lines.

## 2. Modules

`Registers` holds the fixed-width arithmetic the hardware modules share. The
modules below model one component each; the `MC*` modules give the constants of
their runs. Definitions keep the source's names (`read_resp_lasts`,
`guard_ARVALID`, `lt_params`, `roundedSize`). An operator that stands just
before a definition and has its name with a suffix (`LastAddressLate`,
`RunHBMtestNoSelect`) is a faulty variant of it: the property it breaks is
named in `PROJECT.json` under `mutants`, and shows that the property depends on
that line of the code.

### EngineContract

The abstract specification of an engine: idle or busy, operations complete one
by one, `end_of_exec` rises when all `num` have and at no other time, only a
reset ends a run early. `RdEngine` and `WrEngine` end with the refinement
mapping (`Contract == INSTANCE EngineContract WITH ...`): an operation of the
read engine is complete when its burst is answered, one of the write engine
when its address and its data have both been taken. ControlPath uses no more of
an engine than this.

### RdEngine

A step is one clock edge. `Tick(start, ready, last)` takes the inputs of the
edge - the start pulse, ARREADY, RLAST & RVALID - and gives every register the
value its always block gives it: `started`, the response counter
(`CountLasts`), the FSM (`RdIdle` ... `RdEnd`, one action per state) and, on the
external side, the memory (`Memory`), which accepts and answers when it likes
but answers only what it accepted. `Reset` is a cycle with `rst_n` low. It
assigns `state` and `started` only, so ARVALID and `end_of_exec` are frozen;
`hbm_reset` also resets the memory port, so the port forgets its bursts and is
not ready in its first cycle (`mem_ready`). Parameters are records of working
set, stride, number of operations, initial address and latency flag;
`lt_params_r` at the start of a run is any of `Params`. The histories
`accepted`, `answered`, `samples` and `age` count what the memory saw in the
current run. Data, burst length and the fixed AXI fields are left out.

### WrEngine

The same conventions. `DataBlock` is the second always block, which counts
beats and bursts on WREADY & `guard_WVALID` - also when WVALID is low - and
raises `wr_data_done`, through which the FSM waits for the data. `WLead` is the
number of bursts of data the (external) memory takes before their addresses;
AXI allows any, the engine is right up to one.

### ControlPath

Composes the host, the register file, the glue and the engines, for either
board: `Boards` gives each channel its clock (one for all channels on HBM, one
each on DDR) and the invocations of its test program. The host's program is a
place `pc`: the call or loop body it is in (`fn`: config, run, poll or sums), its
channel and side where there is one body per channel or engine, and the step in
it. `Calls` gives the register accesses of a place (`TestHBM`, `TestDDR`; the DDR
functions of FpgaController are copies of the HBM ones) and `NextCalls` the
place that follows. `BusTick` is an edge of the PCIe-side clock:
the AXI-Lite FSMs, the register file, the output registers and, when a phase
completes, the host's next access. `MemTick` is an edge of one memory clock:
parameter copies, start edge and fan-out, end flags, staging registers and the
engines, reduced to idle/busy/end as RdEngine and WrEngine establish. The first
memory edge after a bus edge samples old or new values (`Samples`), because the
constraints declare the crossing a false path. On the DDR board a channel's end
flags fall at the start edge of any channel, which one on another clock may see
one edge late (`Clears`, `edge_prev`). A parameter value is the pair
<<invocation, channel>>, so that a foreign or stale one is recognised.

### LatencyCapture

The way of the latency samples: engine, FIFO, 8-bit sample RAM, RAM read
pipeline, `lat_timer_out`, register 16, host array - with both RAM pointers,
the read FSM's RWAIT counter, and the start register that holds the pointers at
zero.

### MemoryManager

`allocate` and `free` split at each access to a field the other may be using.
`allocate` holds the mutex from AllocBegin to Return; `free` holds nothing.
Field accesses are atomic and in program order, which is what the x86-64 build
does; in C++ terms the plain fields `size` and `next` are a data race.

### XdmaDriver

probe as a program counter over its calls, each of which may fail; the error
labels as one action that gives back what the labels from the failing one on
give back; remove in two steps, nodes first. `inst` is what the driver
remembers, `held`, `iomaps`, `enable_cnt` and `nodes` what the kernel has handed
out: the properties compare the two. The board (`Devices`) says which BARs it
has and how wide, its interrupt capability and its channels.

### XdmaClient

Extends XdmaDriver with a process that goes through `Fpga::initializeMemory`:
open, mmap of the two nodes, BUFFER_SET, MAPPING_GET, then clear, or a signal at
any point, and the next run. Client and driver interleave freely, so a node may
be mapped after a remove. `xdma_open` takes the instance from
`inode->i_cdev`, which for a misc device is the misc core's cdev; the ioctls
therefore work on one record (`slot`) that is not the instance of the probe.
What the kernel does with a freed or missing instance or a wild array is either
an oops, after which nothing happens any more, or a garbage result.

### HostBenchmarks

All four measurement programs have the shape of one machine: main starts
workers, each reads its share, main joins them, divides work by time and moves
the globals on. A round is one or more passes over the array (`Passes`), of
which some are on the clock (`InTimed`): the GPU sweep is launched once to warm
up and then cIterations times; the CPU chase goes round twice and times the
second; the GPU chase reads every element, chases on the clock, and reads the
element it ended at. `work` counts the reads of the timed passes only. A kernel
launch may fail (`Outcomes`), and then none of its threads runs; `status` is what
cudaGetLastError holds, and the sweep takes and so clears it once after the
warm-up. `Locs`, `More` and `Claimed` hold what is particular to a program.
Signed overflow of `i*stride` is either of the two values a compiler produces
(`IntProducts`); `below` and `beyond` record reads in front of the array and
behind it.

## 3. Runs

| Run | Instance | What it shows |
|---|---|---|
| `rd_engine` | 16-byte address space, working set 8 at 4, stride 3, 1 to 3 bursts, both modes; stalls, restarts, resets | completeness at `end_of_exec`, no stray bursts, exact latencies, each offered address as a function of the cycles waited, working set, ARVALID held, runs end, EngineContract implemented |
| `rd_stride` (violation) | memory that never stalls, no restart, no reset | the k-th access is not k strides into the working set |
| `wr_engine` | 1 to 3 bursts of 1 or 2 beats, lead 1, resets | the join of addresses and data, WLAST, address pattern, VALID held, runs end, EngineContract implemented |
| `wr_lead` (violation) | lead 2 | more than num bursts of data are sent |
| `control_path` | an HBM and a DDR board, two channels, two parameter registers, two invocations with different enables and latency channels | each enabled engine runs once per start with its own parameters, totals printed are its own, all invocations finish |
| `speed_ops` (violation) | one invocation | a channel's speed is computed with another channel's operation count |
| `latency_capture` | RAM of 4, 4 samples, pipeline 3 + 2 against wait 2 + 2 | every sample reaches the host, in order, unchanged |
| `latency_wrap` (violation) | 5 samples, RAM of 4 | early samples are overwritten |
| `memory_manager` | two threads, three pages | no overlap, free memory is zero, the list tiles the buffer, calls return |
| `xdma_driver` | eight boards, two probes, a four-page buffer of two huge pages, runs killed at any point | leftovers of failed probes are exactly the three known ones, nothing released twice, engines run, nodes lead to their BARs, pins accounted for |
| `driver_bug_on` (violation) | one board, one probe | an mmap, after a remove, of a file opened before it runs into `BUG_ON(!inst)` |
| `benchmarks` | two CPU threads over four settings (two overflow), a sweep of four GPU threads in three shapes, each launched once to warm up and twice on the clock, two chases; any launch may fail | work claimed is work done on the clock if the launches succeed, and more than that if a timed one fails; no pass of sweep or chase repeats an element; reads leave the array only where an int overflows, and only to the front; timing starts together and is never too short |

Bounds. Three bursts distinguish the first, a middle and the last access; a
stride that does not divide the working set makes masks and wraps visible; the
timer of the instance wraps at 3 and the total at 2, so that overflow happens.
Two invocations are what stale flags, parameters and totals need; two
parameter registers show a half-written set. In `latency_capture` pipeline and
wait are shortened together, keeping the one cycle by which the code's pipeline
(17 + 2) exceeds its read FSM (16 + 2). Three pages allow a chunk to be split,
freed and reused while another walk is under way. The eight boards cover every
set of optional BARs, both widths, every interrupt capability and every reason
a board by itself makes probe fail; two probes show what a first one leaves to
a second, and four pages in huge pages of two let BUFFER_SET stop inside a huge
page. The benchmark instance uses an int of four bits and a second of two
ticks, so that overflow and second boundaries occur within a few reads.

Deadlock is checked in every run; modules whose program ends have a `Finished`
step.

### Assumptions on what is not in the repository

- The memory does not accept in the first cycle after its reset
  (`mem_ready`). Otherwise the address frozen on the port by a reset would be
  accepted in an idle engine.
- The PCIe bridge leaves at least one bus cycle between a write response and
  the next read (`ReadGap = 1`): with none, a total may be read before the mux
  has followed `hbm_channel`, and ReportIsOwnTotal fails.
- It leaves at least two bus cycles between consecutive reads (`HostGap = 2`);
  with one the read FSM is faster than the RAM pipeline.
- The first latency sample arrives after the host has written start = 0
  (`StartOutlasts = FALSE`). With TRUE the sample is overwritten, and
  EverySampleLogged fails.
- A clock edge samples each crossing register as a whole (`Torn`). A mixture of
  the bits of `hbm_channel` would let a third channel copy parameters.
- An engine is busy for at least two cycles (`MinBusy = 2`; the FSMs need
  four). With one cycle a DDR channel that sees start late clears the end flag
  of one that has already finished, and AllJobsFinish fails.
- Memory clocks have at least one and at most two edges per bus cycle
  (`MemPerBus = 2`), as 300 and 450 MHz have against 250.
- The XDMA core has at most one BAR of a kind, orders them user, config, bypass
  and numbers the channels of a direction from 0 (`DevicesAssumption`).
- `misc_register` refuses a name that exists and resets the node's minor; the
  PCI core refuses to enable MSI or MSI-X twice; the driver core clears the
  driver data after a failed probe or a remove.
- A client issues RELEASE at most once per successful BUFFER_SET; the driver
  does not check it, and a second one puts the pages again.
- The processes that use the driver issue the ioctls in the order of `Fpga.cpp`,
  one process at a time.
- The FIFO between an engine and the sample RAM is never full: a sample takes
  the engine at least three memory cycles, and the register file takes one out
  in every bus cycle. EverySampleLogged and NoSampleLostOnTheWay say nothing
  about a full one.
- The clock the CPU threads read (CLOCK_REALTIME) does not go backwards.
- start is not raised during a run of the write engine (`AllowRestart`), as
  runHBMtest is only called after the previous readHBMData. The read engine is
  checked and proved without this assumption.

### Fairness

The clocks run (weak fairness of the tick). AXI makes a slave accept an offer
and answer what it accepted (weak fairness of the accepting and answering
ticks). In ControlPath the bridge does not hold a phase back for ever, and a
busy engine ends, which is what RunEnds establishes for the engines alone; both
are strong fairness because memory edges intervene between bus edges. In
MemoryManager a thread inside a call is scheduled; a thread waiting for the
mutex is not promised it.

## 4. What is proved

TLC checks small instances; the theorems below hold for every value of the
constants that satisfies the named assumptions of the module concerned. Each
proof module extends the module it is about. `RegisterTheorems` holds the
arithmetic they share: fixed-width addition, quotient and remainder, and that a
wrapping register holds the remainder of what it counts (ModAdd, StrideStep,
ModShift). In each module one conjunction of named parts is inductive; it was
checked with TLC on the instance of the run before it was proved.

| Module | Theorems | Beyond the module's assumptions |
|---|---|---|
| `RdEngineProofs` | TypeCorrect, EndIsComplete, BurstsStayInRun, LatencyIsExact, OfferIsHeld, AccessesStayInWorkingSet, AddressesByWait, ReadEngineImplements | none |
| `WrEngineProofs` | TypeCorrect, AddressesInOrder | none |
| | EndIsComplete, BurstsStayInRun, LastBeatIsMarked, OffersAreHeld, WriteEngineImplements | `CountingAssumed` |
| `MemoryManagerProofs` | TypeCorrect, BlocksDisjoint, FreeMemoryReadsZero, ListTiles | none |
| `XdmaProofs` | TypeCorrect, DriverCleansUp, ReleasesOnlyHeld, BoundEnginesRun, NodesAreRight, PagesAccounted | none |
| `LatencyCaptureProofs` | TypeCorrect | none |
| | NothingLostOnTheWay | `StartInTime` |
| | SamplesLogged | `CaptureFits` |
| `HostBenchmarksProofs` | TypeCorrect, TimedTogether, SharesDone | none |
| | WorkDone | `EvenRounds` |
| `ControlPathProofs` | TypeCorrect, OneRun | none |
| | JobsConfigured | `WholeSamples` |
| | OwnTotals | `WholeSamples`, `ReadGap >= 1` |

### Read engine

For every parameter set, register width and memory behaviour, with starts and
resets in any cycle. The assumptions are those of RdEngine: `num` is positive,
the working set is positive and smaller than the address space, registers have
at least two values, `BitAnd(x, m)` lies in 0 .. m.

None of the properties is inductive. EndMeansAllAnswered speaks of the cycle
after RD_END, and what makes it true was established when RD_TH_RESP saw the
response counter, or RD_LAT_RESP the last beat. `IndInv` says what each FSM
state knows:

- OfferInv: an address is on offer only in the issuing states, or frozen at a
  port that cannot accept it;
- BalanceInv: accepted = answered + outstanding during a run, nothing is
  outstanding in RD_IDLE, and the response counter - which a restart may clear
  - never exceeds the responses of this run. This inequality is why a restart
  can delay the end of a run but never bring it forward;
- IssueInv: the FSM's index is the number of accepted addresses, below num in
  the issuing states and equal to num after them;
- SampleInv: in latency mode samples published plus the one on the wire equal
  the accepted addresses, and the timer equals the age of the burst;
- EndInv: end_of_exec is high only in RD_IDLE, with the run complete.

TickInv shows that a clock edge preserves it, one step per FSM state, on top of
TickFacts, which states in arithmetic what the memory and the response counter
do on an edge. Two properties about the address register need small invariants
of their own: InWorkingSet, since it concerns an address loaded a cycle
earlier, and AddressByWait, for which the offset register must be known to hold
`mem_op_index` strides modulo the address space (StrideStep). AddressByWait is
exact: after an access is accepted the next one, the k-th from 0, is offered
for one cycle at k - 1 strides and, if that cycle does not accept it, at k
strides from then on (`waited`). So one address may be accessed twice and the
next not at all: with k = 1 accepted at once and k = 2 after a stall the accesses
are at 0, 0 and 2 strides.

ReadEngineImplements is the refinement: on top of `IndInv` every Tick maps to
Begin, Complete, End or Lower of EngineContract or to a stutter, and every
Reset to Abort or a stutter.

### Write engine

Types and address pattern hold without conditions. Counting does not:
`CountingAssumed` says that the memory takes data at most one burst ahead of its
address and that start is not raised during a run. Both are necessary: with a
lead of two, `wr_lead` shows an extra burst; with `AllowRestart = TRUE` in the
instance of `wr_engine`, LastBeatMarked fails, because a start clears the beat
counter inside a burst. Both are what the surroundings provide (section 3). The argument is about two counters of one event: the data
block counts on WREADY & `guard_WVALID`, the memory on WREADY & WVALID. DataInv
says that they agree until `wr_data_done`, that afterwards the block may count
one burst more, and that then the guard falls with that same edge, so the
difference is never seen. WLAST, the held offers, the end of a run and the
refinement follow.

### Control path

For any number of channels, any assignment of channels to clocks, any jobs and
parameter registers, any MemPerBus and MinBusy. The four properties speak of the
end of a chain - host, AXI-Lite FSMs, register file, output registers,
unsynchronised crossing, glue, staging registers, engine, end flags, register
file, host - and `ControlInv` says at each link how far the last change has
come:

- WriteInv: the registers hold what the program has written before its place
  (`Expect`), and a write changes them only after the last one has stood in the
  output registers for a whole bus cycle;
- StartInv, SwitchInv: while start is up or on its way the enables and the
  latency channel's parameters stand still; a channel that is deselected had
  been given all its parameters;
- SeenInv: between two changes of the output registers every channel has had two
  memory edges, however its clock lies, so that both halves of `lt_params` and
  both of `start_r` and `start_rr` have followed;
- ConfInv, ParamsInv: a channel past its configuration holds its own
  parameters, and when start is out every channel does;
- TokenInv: before a channel has seen start it is empty; afterwards the one
  start of an enabled engine is in exactly one place - edge detector, one of
  three registers, or `begun` - with the right parameters beside it. A channel
  may see start fall before another has seen it rise; `Over` and `NotYet` keep
  these cases apart;
- FlagInv: once a channel has seen start its flag is up only for an engine that
  is done. A flag left from the last invocation falls at the start edge, which
  every channel has seen before start leaves the output registers; the write
  with which the poll begins gives the status registers time to follow;
- SumInv, for the readout: while a total is read the status register holds the
  selected engine's.

`WholeSamples` says that a sampler of the changing `hbm_channel` sees its old or
its new value. It guards only the parts of the invariant about parameters: with
three channels and arbitrary mixtures TLC finds a third channel that copies
parameters, so JobAsConfigured fails, while OneRunPerStart is proved without it,
since `start` is one bit. The second condition of OwnTotals is needed too: with
`ReadGap = 0` the total may be read before the mux has followed `hbm_channel`.

### Memory manager

For every number of threads and every buffer, with `free` beside `allocate` at
every interleaving; clients free only blocks they hold, once. The invariant:

- LayoutInv: chunks are whole pages and every byte is in exactly one;
- ListInv: the list runs upwards, and to the neighbour except between the two
  writes of a split, which only the holder of the mutex can see;
- OwnerInv: a chunk is free, or held by one client, or in the hands of exactly
  one thread. `InHand` also counts a chunk that `free` is still walking towards:
  this is what keeps `allocate` from taking it in between, and why the unlocked
  walk finds it (ListInv: the walk never passes an address it looks for);
- ZeroInv: what is on offer, about to be split off or about to be released
  is clean.

That the manager never runs out of chunk numbers is a pigeonhole argument:
disjoint chunks of at least a page are at most as many as there are pages.

### Kernel driver and its client

For every set of boards and any sequence of probes, failures, removes,
processes and kills. `ResourceInv` gives, for every place of probe, every error
label and remove, exactly what is held (HeldInv), enabled (EnableInv), mapped
(MapInv), registered (NodeInv) and started (EngineInv). BlameInv records why
something may be left over: MSI-X vectors outlive a probe only if a call after
scan_msi failed. `ClientInv` adds the BARs: ListInv is the loop invariant of
map_bars, from which the positional choice of user and bypass BAR is right
because the XDMA core has at most one BAR of a kind and orders them user,
config, bypass (`DevicesAssumption`; without it the choice is wrong); and
BufferInv, the pin count.

### Latency samples

TypeCorrect has no condition. NothingLostOnTheWay needs that no sample comes
while start is still high (`StartInTime`) and holds for runs of any length:
CountInv says that the write pointer is the number of samples written, modulo
the RAM. SamplesLogged needs `CaptureFits`: the run fits the RAM (with one
sample more, `latency_wrap` shows the loss), latencies fit a RAM word, and
`RWait + HostGap >= RamLatency + 1`. In the code RWait is 16 and the RAM's
latency 17, so the host must leave two bus cycles between reads; with one the
proof fails where the host takes the value. DataInv places each
sample in FIFO, write register or RAM word; PathInv says how far the value
under the read pointer has come, by `Age`, the cycles since the pointer moved as
far as the read FSM can tell; when the FSM is in RDATA the age is enough for the
register.

### Comparison programs

For every number of workers, array size, list of settings and length of a
second, and any outcome of the launches. OrderInv and ThreadInv say that workers
start in order, that a thread past the barrier finds all others there, and that
a thread's start time is not in the future; ElapsedCovers is the arithmetic of
the time difference, which counts ten seconds for each boundary and so never too
little. SharesDone says without conditions that main has joined all threads,
that each has read exactly its share on the clock, and that no read has gone
behind the array, nor in front of it while op*stride is an int: where it is not,
C's remainder of a wrapped product may be negative, but never past the size
(CModBounds).

WorkDone is all of ReportedWorkDone, every timed launch of the GPU sweep
included, for rounds that come out even (`EvenRounds`): whole groups of b
threads, an array of whole turns of the unrolled loop, b at most s; chases that
end before they come round. The settings in the four programs are such; with
others the sweep reads past the end or counts elements it did not read. ReadInv
has four parts: PartInv, how much each worker has read in this pass; ChaseInv,
where a chase stands; SeenInv, that what a pass has read are the first elements
of each worker's part, none twice and all in the array; SweepInv, that a sweep
whose launches succeeded has read its part once for every timed pass. FailInv
adds that after a failed timed launch every worker stays a whole part behind.
That no two reads of a pass meet is arithmetic: thread and read number are the
quotients and remainders of the element by the step, by s and by b (TermsUnique,
SweepStarts, PlacesDiffer). The unrolled loop, which tests its bound once per
turn, stops exactly at the end because a part is a multiple of Unroll
(SweepMore).

### Only model-checked

- Liveness: RunEnds, AllJobsFinish, ReadoutFinishes, CallsReturn. Fairness and
  ENABLED are out of the prover's reach.
- The expected violations of section 3, which are counterexamples.

## 5. Findings

1. The stride between accesses is not the configured one: the address register
   lags the offset by one cycle, so throughput runs without stalls issue the
   first address twice and never the last, and latency runs step two strides or
   more.
2. The write engine sends more than num bursts of data if the memory takes data
   two bursts ahead of the addresses.
3. Printed speeds use the operation count of the latency channel for every
   channel.
4. Runs of more than 4096 operations overwrite the latency samples the host
   then reads.
5. A process that opened `/dev/xdma_control` before a remove and maps it after
   crashes the kernel in `BUG_ON(!inst)`.

Met on the way, without a run of their own: the GPU sweep takes the status of
its launches to "make configurations that cannot launch error-out with 0
bandwidth" (`global_TH.cu:139`) and never reads it, so that a failed launch
counts as done (ReportedWorkDone says so of every failed timed launch); the
read address changes under a valid offer when the memory stalls right after an
accepted one (`rd_engine.sv:230`), which is also how an address comes to be
skipped; a node registered by a probe that fails later stays registered; MSI-X
vectors of a failed probe stay enabled, and every later probe fails
(UnboundHoldsNothing lists this among the leftovers); `Fpga.cpp` never releases
its pinned pages; `throughput.cpp` counts a second as ten (`10e9`), so that a
thread crossing a second boundary reports too low a speed; and in its settings
with strides from 4096 on op*stride does not fit an int, so that a thread may
read in front of its array.

## 6. Plan

Done: all modules of section 2, both refinements of EngineContract, and proofs
about every module: every invariant and action property of the passing runs is a
theorem. What could be added next is a model of the parts section 7 leaves out,
first an invocation killed between two accesses and hbm_reset in ControlPath.

## 7. Not modelled

- The AXI slave, the PCIe bridge, FIFO and RAM primitives beyond what the code
  uses of them; clock generation, port wiring and the PCIe wrapper
  (`xdma_app.v`); values of totals and data.
- hbm_reset in ControlPath, and an invocation killed between two accesses: the
  code has no answer to it, the next invocation may print the killed one's
  total.
- The DDR board's two latency FIFOs and register 17.
- Parsing of options and configuration files in the test programs: straight
  assignments into arrays, from which ControlPath's jobs start.
- The register width of num in the read engine (32 bits against 64 elsewhere)
  and num = 0, which the host programs never configure.
- The driver's interrupt functions (`xdma_driver.c` lines 954 to 1040), called
  from nowhere, and two boards in one host, which would share the global nodes.
- In the benchmarks: failing pthread_create, allocations, cudaMalloc and
  cudaMemcpy, none of which the programs check; kernel errors that show only
  after a launch; the times the GPU programs measure; the store of the GPU chase
  one past the end of its index array (`global_latency.cu:184`).
- A full sample FIFO (see the assumptions).
- Cache effects and values in the benchmarks; `repeat.h`, which none includes;
  `perf_counter` in `latency_huge_table.cpp`, which nothing calls.
- Build and plotting scripts.
