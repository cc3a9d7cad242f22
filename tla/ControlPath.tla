---------------------------- MODULE ControlPath -----------------------------
(***************************************************************************)
(* How invocations of test-hbm or test-ddr drive their board:               *)
(* FpgaController's register accesses (sw/src/fpga/FpgaController.cpp,      *)
(* called from sw/src/hbm_test.cpp and ddr_test.cpp), the AXI-Lite register *)
(* file (xdma_control.sv), the glue that fans parameters and start out to   *)
(* the channels and collects the end flags (hbm_benchmark.sv), and the      *)
(* staging registers of lt_engine.sv, under hw/rtl/u280_hbm and u280_ddr.   *)
(* The two boards differ in their clocks: all HBM channels share one, every *)
(* DDR channel has its own.                                                 *)
(*                                                                          *)
(* The actors that interleave are the host's thread behind the PCIe bridge, *)
(* the register file on s_aclk (BusTick) and the channels of each memory    *)
(* clock (MemTick).  The clocks are asynchronous (set_false_path in         *)
(* hw/constraints/u280_hbm.xdc) and nothing synchronises the registers that *)
(* cross: the first memory edge after a bus edge may still see the old      *)
(* value of the register that changed, and of a multi-bit register a        *)
(* mixture of old and new bits (Torn).                                      *)
(*                                                                          *)
(* An engine is reduced to what RdEngine and WrEngine show of it: started   *)
(* finds it idle and stages the parameters, MinBusy or more cycles later    *)
(* end_of_exec is high for one cycle and lat_timer_sum holds the total.     *)
(***************************************************************************)
EXTENDS Integers, Sequences, SequencesExt

CONSTANTS
    NumChannels,    \* N_MEM_INTF
    Boards,         \* kind, clock (of each channel) and jobs, the successive
                    \* invocations: we, re, lat, latch (latency_channel)
    ParamRegs,      \* the parameter registers, in the order they are written
    NumOps,         \* numOps[i], hbm_test.cpp
    RWait,          \* cycles the read FSM spends in RWAIT (16)
    ReadGap,        \* external: bus cycles the bridge leaves between a write and a read
    MemPerBus,      \* at most this many edges of a memory clock between two bus edges
    MinBusy,        \* an engine is busy for at least this many cycles
    Torn(_, _)      \* external: values a sampler may see of a changing hbm_channel

Channels == 0 .. NumChannels - 1
Sides    == {"wr", "rd"}

ASSUME BoundsAssumption ==
    /\ NumChannels \in Nat \ {0}
    /\ RWait \in Nat \ {0} /\ ReadGap \in Nat /\ MemPerBus \in Nat \ {0}
    /\ MinBusy \in Nat \ {0} /\ NumOps \in [Channels -> Nat]
ASSUME BoardsAssumption ==
    \A b \in DOMAIN Boards :
        /\ Boards[b].kind \in {"hbm", "ddr"}
        /\ Boards[b].clock \in [Channels -> Channels]
        /\ Boards[b].jobs \in
              Seq([we : SUBSET Channels, re : SUBSET Channels, lat : BOOLEAN, latch : Channels])
ASSUME ParamRegsAssumption ==
    /\ ParamRegs \in Seq(STRING)
    /\ ToSet(ParamRegs) \cap {"chan", "we", "re", "lat", "start"} = {}
ASSUME TornAssumption ==
    \A old, new \in Channels : {old, new} \subseteq Torn(old, new)

VARIABLES
    board,      \* the board in the host
    run,        \* the invocation the host is in
    pc,         \* its next register access
    endWr,      \* the host's copy of register 12 while polling
    report,     \* what it printed: [side][channel] -> sums and operation count
    w_cstate, r_cstate, counter,    \* the write and read FSMs
    gap,        \* bus cycles since the last write response, up to ReadGap
    dma,        \* dma_control_reg
    out,        \* xdma_control's output registers
    out_prev,   \* what they held before the last bus edge
    mem_edges,  \* [clock] -> its edges since the last bus edge
    lt_params,  \* [channel] -> write half and read half
    pipe,       \* [channel] -> lt_params_reg, lt_params_staged, lt_params_r
    start_r, start_rr,  \* sets of channels; the HBM board has one copy of each
    edge_prev,  \* channels whose start edge stood before the last memory edge
    start_pipe, \* [channel][side] -> start_xx, start_xx_reg, started
    eng,        \* [channel][side] -> the engine
    end_o,      \* [side] -> channels whose end flag is up
    begun       \* history: [channel][side] -> runs begun in this invocation

host   == <<board, run, pc, endWr, report>>
bus    == <<w_cstate, r_cstate, counter, gap, dma, out, out_prev>>
glue   == <<lt_params, pipe, start_r, start_rr, edge_prev, start_pipe, end_o>>
vars   == <<host, bus, mem_edges, glue, eng, begun>>

-----------------------------------------------------------------------------
(***************************************************************************)
(* The host's program.  One invocation calls config for every channel, then *)
(* run, then polls the end flags and reads the total of every enabled       *)
(* engine.  pc holds the call or loop body the host is in - fn, and chan    *)
(* and side where it has one per channel or engine - and the register       *)
(* access it is at, step.  A parameter value is <<invocation, channel>>:    *)
(* whose value it is.                                                       *)
(***************************************************************************)
W(reg, val)  == [op |-> "write", reg |-> reg, val |-> val]
R(reg, chan) == [op |-> "read", reg |-> reg, val |-> chan]

WriteParams(r, c) == [k \in 1 .. Len(ParamRegs) |-> W(ParamRegs[k], <<r, c>>)]

ConfigHBM(r, c) ==
    << W("chan", c) >> \o WriteParams(r, c) \o << W("lat", FALSE) >>

RunHBMtestNoSelect(j, r) ==
    WriteParams(r, j.latch)
    \o << W("we", j.we), W("re", j.re), W("lat", j.lat),
          W("start", TRUE), W("start", FALSE) >>
RunHBMtest(j, r) ==
    << W("chan", j.latch) >> \o WriteParams(r, j.latch)
    \o << W("we", j.we), W("re", j.re), W("lat", j.lat),
          W("start", TRUE), W("start", FALSE) >>

\* Polls registers 12 and 13, then reads 14 or 15 of an enabled engine.
ReadHBMData(j, p) ==
    IF p.fn = "poll" THEN << W("chan", j.latch), R("end_wr", 0), R("end_rd", 0) >>
    ELSE << W("chan", p.chan), R(IF p.side = "wr" THEN "sum_wr" ELSE "sum_rd", p.chan) >>

\* The DDR functions are copies of the HBM ones: the same accesses.
ConfigDDR(r, c)   == ConfigHBM(r, c)
RunDDRtest(j, r)  == RunHBMtest(j, r)
ReadDDRData(j, p) == ReadHBMData(j, p)

TestHBM(j, r, p) ==
    CASE p.fn = "config" -> ConfigHBM(r, p.chan)
      [] p.fn = "run" -> RunHBMtest(j, r)
      [] p.fn \in {"poll", "sums"} -> ReadHBMData(j, p)
TestDDR(j, r, p) ==
    CASE p.fn = "config" -> ConfigDDR(r, p.chan)
      [] p.fn = "run" -> RunDDRtest(j, r)
      [] p.fn \in {"poll", "sums"} -> ReadDDRData(j, p)

Running == run \in DOMAIN Boards[board].jobs
Job     == Boards[board].jobs[run]
Calls   == IF Boards[board].kind = "hbm" THEN TestHBM(Job, run, pc) ELSE TestDDR(Job, run, pc)
Access  == Calls[pc.step]
Polled  == Running /\ pc.fn = "sums"

Enabled(s) == IF s = "wr" THEN Job.we ELSE Job.re

\* The readout loop visits the enabled engines by channel, writer first.
Precedes(x, y) == x[1] < y[1] \/ (x[1] = y[1] /\ x[2] = "wr" /\ y[2] = "rd")
SumsLeft ==
    {x \in Channels \X Sides :
        x[1] \in Enabled(x[2]) /\ (pc.fn = "sums" => Precedes(<<pc.chan, pc.side>>, x))}

At(fn, c, s) == [fn |-> fn, chan |-> c, side |-> s, step |-> 1]
Start == At("config", 0, "wr")

\* The call or loop body after this one; none after the last readout.
NextCalls ==
    CASE pc.fn = "config" /\ pc.chan < NumChannels - 1 -> {At("config", pc.chan + 1, "wr")}
      [] pc.fn = "config" /\ pc.chan = NumChannels - 1 -> {At("run", 0, "wr")}
      [] pc.fn = "run" -> {At("poll", 0, "wr")}
      [] pc.fn \in {"poll", "sums"} ->
            {At("sums", x[1], x[2]) :
                x \in {y \in SumsLeft : \A z \in SumsLeft \ {y} : Precedes(y, z)}}

Clocks       == {Boards[board].clock[c] : c \in Channels}
ClockedBy(d) == {c \in Channels : Boards[board].clock[c] = d}

-----------------------------------------------------------------------------
\* lt_params: the parameters and the latency bit of one half.
Word(o) == [prm |-> o.prm, lat |-> o.lat]

Control0 ==
    [chan |-> 0, prm |-> [k \in ToSet(ParamRegs) |-> <<0, 0>>],
     we |-> {}, re |-> {}, lat |-> FALSE, start |-> FALSE]

NoSum == [prm |-> Control0.prm, final |-> FALSE]

\* The FPGA after s_aresetn and arstn: reset values everywhere.
Init ==
    /\ board \in DOMAIN Boards
    /\ run = 1 /\ pc = Start /\ endWr = {}
    /\ report = [s \in Sides |-> << >>]
    /\ w_cstate = "WIDLE" /\ r_cstate = "RIDLE" /\ counter = 0 /\ gap = 0
    /\ dma = [ctl |-> Control0, end_wr |-> {}, end_rd |-> {}, sum_wr |-> NoSum, sum_rd |-> NoSum]
    /\ out = Control0 /\ out_prev = Control0 /\ mem_edges = [d \in Clocks |-> 0]
    /\ lt_params = [c \in Channels |-> [wr |-> Word(Control0), rd |-> Word(Control0)]]
    /\ pipe = [c \in Channels |-> [k \in 1 .. 3 |-> [wr |-> Word(Control0), rd |-> Word(Control0)]]]
    /\ start_r = {} /\ start_rr = {} /\ edge_prev = {}
    /\ start_pipe = [c \in Channels |-> [s \in Sides |-> <<FALSE, FALSE, FALSE>>]]
    /\ eng = [c \in Channels |-> [s \in Sides |->
                 [busy |-> 0, job |-> Word(Control0), end |-> FALSE, sum |-> NoSum]]]
    /\ end_o = [s \in Sides |-> {}]
    /\ begun = [c \in Channels |-> [s \in Sides |-> 0]]

-----------------------------------------------------------------------------
(***************************************************************************)
(* s_aclk.  go: the bridge has the next phase of the access ready.          *)
(***************************************************************************)
\* A register write.
Put(ctl, a) ==
    CASE a.reg \in ToSet(ParamRegs) -> [ctl EXCEPT !.prm[a.reg] = a.val]
      [] a.reg = "chan"  -> [ctl EXCEPT !.chan = a.val]
      [] a.reg = "we"    -> [ctl EXCEPT !.we = a.val]
      [] a.reg = "re"    -> [ctl EXCEPT !.re = a.val]
      [] a.reg = "lat"   -> [ctl EXCEPT !.lat = a.val]
      [] a.reg = "start" -> [ctl EXCEPT !.start = a.val]

\* Writes land in WBRSP; in every other cycle the status registers follow the
\* channels.
RegisterFile ==
    dma' = IF w_cstate = "WBRSP" THEN [dma EXCEPT !.ctl = Put(dma.ctl, Access)]
           ELSE [dma EXCEPT !.end_wr = end_o["wr"], !.end_rd = end_o["rd"],
                            !.sum_wr = eng[out.chan]["wr"].sum,
                            !.sum_rd = eng[out.chan]["rd"].sum]

OutputRegisters == out' = dma.ctl /\ out_prev' = out

\* The next access, the next call or the next invocation.
NextInvocation ==
    /\ pc' = Start /\ run' = run + 1 /\ begun' = [c \in Channels |-> [s \in Sides |-> 0]]
    /\ UNCHANGED board

ProceedPast ==
    \/ /\ pc.step <= Len(Calls) /\ pc' = [pc EXCEPT !.step = @ + 1]
       /\ UNCHANGED <<board, run, begun>>
    \/ pc.step > Len(Calls) /\ NextCalls = {} /\ NextInvocation
Proceed ==
    \/ /\ pc.step < Len(Calls) /\ pc' = [pc EXCEPT !.step = @ + 1]
       /\ UNCHANGED <<board, run, begun>>
    \/ /\ pc.step = Len(Calls) /\ pc' \in NextCalls
       /\ UNCHANGED <<board, run, begun>>
    \/ pc.step = Len(Calls) /\ NextCalls = {} /\ NextInvocation

\* A write occupies WIDLE, WDATA and WBRSP; the next access of the host may
\* begin while the read FSM is still in RWAIT.
WriteFSM(go) ==
    w_cstate' = CASE go /\ w_cstate = "WIDLE" /\ Access.op = "write" -> "WDATA"
                  [] go /\ w_cstate = "WDATA" -> "WBRSP"
                  [] go /\ w_cstate = "WBRSP" -> "WIDLE"
                  [] OTHER -> w_cstate

ReadFSM(go) ==
    /\ r_cstate' = CASE go /\ r_cstate = "RIDLE" /\ Access.op = "read" /\ gap = ReadGap -> "RDATA"
                     [] go /\ r_cstate = "RDATA" -> "RWAIT"
                     [] r_cstate = "RWAIT" /\ counter = RWait - 1 -> "RIDLE"
                     [] OTHER -> r_cstate
    /\ counter' = IF r_cstate = "RWAIT" /\ counter < RWait - 1 THEN counter + 1 ELSE 0

\* What the host does with the value it reads (readHBMData, readDDRData).
PollSatisfiedAny == dma.end_rd # {} \/ Job.re = {}
PollSatisfied == endWr = Job.we /\ dma.end_rd = Job.re

Receive ==
    \/ /\ Access.reg = "end_wr"
       /\ endWr' = dma.end_wr
       /\ Proceed /\ UNCHANGED report
    \/ /\ Access.reg = "end_rd" /\ PollSatisfied
       /\ Proceed /\ UNCHANGED <<endWr, report>>
    \/ /\ Access.reg = "end_rd" /\ ~PollSatisfied
       /\ pc' = [pc EXCEPT !.step = 2]
       /\ UNCHANGED <<board, run, endWr, report, begun>>
    \/ /\ Access.reg = "sum_wr"
       /\ report' = [report EXCEPT !["wr"] =
              Append(@, [run |-> run, chan |-> Access.val, sum |-> dma.sum_wr,
                         ops |-> NumOps[Job.latch]])]
       /\ Proceed /\ UNCHANGED endWr
    \/ /\ Access.reg = "sum_rd"
       /\ report' = [report EXCEPT !["rd"] =
              Append(@, [run |-> run, chan |-> Access.val, sum |-> dma.sum_rd,
                         ops |-> NumOps[Job.latch]])]
       /\ Proceed /\ UNCHANGED endWr

\* The host waits for the access it issued: a write ends with its response, a
\* read with its data.
Host(go) ==
    \/ go /\ w_cstate = "WBRSP" /\ Proceed /\ UNCHANGED <<endWr, report>>
    \/ go /\ r_cstate = "RDATA" /\ Receive
    \/ ~(go /\ (w_cstate = "WBRSP" \/ r_cstate = "RDATA")) /\ UNCHANGED <<host, begun>>

BusTick(go) ==
    /\ Running
    /\ \A d \in Clocks : mem_edges[d] > 0
    /\ RegisterFile /\ OutputRegisters
    /\ WriteFSM(go) /\ ReadFSM(go) /\ Host(go)
    /\ gap' = CASE w_cstate # "WIDLE" -> 0
                [] w_cstate = "WIDLE" /\ gap < ReadGap -> gap + 1
                [] OTHER -> gap
    /\ mem_edges' = [d \in Clocks |-> 0]
    /\ UNCHANGED <<glue, eng>>

-----------------------------------------------------------------------------
(***************************************************************************)
(* An edge of memory clock d: C is the set of channels on it, o the output  *)
(* registers as it samples them.                                            *)
(***************************************************************************)
Samples(d) ==
    IF mem_edges[d] > 0 THEN {out}
    ELSE {out, out_prev} \cup {[out EXCEPT !.chan = c] : c \in Torn(out_prev.chan, out.chan)}

\* The read half follows the write half one edge later, while selected.
ChannelParams(C, o) ==
    lt_params' = [c \in Channels |->
                     IF c \in C /\ o.chan = c THEN [wr |-> Word(o), rd |-> lt_params[c].wr]
                     ELSE lt_params[c]]

StartEdgeLevel == start_r
StartEdge == start_r \ start_rr

\* A disabled engine's start register holds its value.
StartFanout(C, o) ==
    /\ start_r' = (start_r \ C) \cup {c \in C : o.start}
    /\ start_rr' = (start_rr \ C) \cup (start_r \cap C)
    /\ edge_prev' = StartEdge
    /\ start_pipe' =
          [c \in Channels |-> [s \in Sides |->
              LET q  == start_pipe[c][s]
                  en == IF s = "wr" THEN o.we ELSE o.re
              IN  IF c \in C THEN << IF c \in en THEN c \in StartEdge ELSE q[1], q[1], q[2] >>
                  ELSE q]]

\* A channel's end flags fall at a start edge of any channel; the edge of one on
\* another clock may be seen late.
Clears(C) ==
    LET own  == StartEdge \cap C
        cur  == StartEdge \ C
        prev == edge_prev \ C
    IN  {own \cup (cur \cap prev) # {}, own \cup cur \cup prev # {}}

EndFlagsSticky(C) ==
    end_o' = [s \in Sides |-> end_o[s] \cup {c \in C : eng[c][s].end}]
EndFlags(C) ==
    \E clear \in Clears(C) :
        end_o' = [s \in Sides |->
                     IF clear THEN end_o[s] \ C
                     ELSE end_o[s] \cup {c \in C : eng[c][s].end}]

StageParams(C) ==
    pipe' = [c \in Channels |-> IF c \in C THEN << lt_params[c], pipe[c][1], pipe[c][2] >>
                                ELSE pipe[c]]

\* The engines: F is the set of busy ones that end in this cycle.
Begins(c, s) == eng[c][s].busy = 0 /\ start_pipe[c][s][3]
MayEnd(C) == {x \in C \X Sides : eng[x[1]][x[2]].busy = MinBusy}

Engines(C, F) ==
    /\ eng' = [c \in Channels |-> [s \in Sides |->
          LET e == eng[c][s] IN
          IF c \notin C THEN e
          ELSE IF Begins(c, s)
          THEN [busy |-> 1, job |-> pipe[c][3][s], end |-> FALSE, sum |-> NoSum]
          ELSE IF <<c, s>> \in F
          THEN [e EXCEPT !.busy = 0, !.end = TRUE, !.sum = [prm |-> e.job.prm, final |-> TRUE]]
          ELSE [e EXCEPT !.busy = IF @ \in 1 .. MinBusy - 1 THEN @ + 1 ELSE @, !.end = FALSE]]]
    /\ begun' = [c \in Channels |-> [s \in Sides |->
          IF c \in C /\ Begins(c, s) THEN begun[c][s] + 1 ELSE begun[c][s]]]

MemTick(d, o, F) ==
    /\ mem_edges[d] < MemPerBus
    /\ ChannelParams(ClockedBy(d), o) /\ StageParams(ClockedBy(d))
    /\ StartFanout(ClockedBy(d), o)
    /\ EndFlags(ClockedBy(d))
    /\ Engines(ClockedBy(d), F)
    /\ mem_edges' = [mem_edges EXCEPT ![d] = @ + 1]
    /\ UNCHANGED <<host, bus>>

MemStep(d) == \E o \in Samples(d), F \in SUBSET MayEnd(ClockedBy(d)) : MemTick(d, o, F)

\* The last invocation has printed its results and exited.
Finished == ~Running /\ UNCHANGED vars

Next ==
    \/ \E go \in BOOLEAN : BusTick(go)
    \/ \E d \in Clocks : MemStep(d)
    \/ Finished

Spec == Init /\ [][Next]_vars

\* Every clock runs; the bridge does not hold a phase back for ever (SF: between
\* two bus edges there is always a memory edge); every engine that is busy ends
\* (RunEnds of RdEngine and WrEngine).
LiveSpec ==
    /\ Spec
    /\ WF_vars(\E go \in BOOLEAN : BusTick(go)) /\ SF_vars(BusTick(TRUE))
    /\ \A d \in Channels : WF_vars(d \in Clocks /\ MemStep(d))
    /\ \A c \in Channels, s \in Sides :
          SF_vars(LET d == Boards[board].clock[c] IN
                  \E o \in Samples(d), F \in SUBSET MayEnd(ClockedBy(d)) :
                      <<c, s>> \in F /\ MemTick(d, o, F))

-----------------------------------------------------------------------------
TypeOK ==
    /\ board \in DOMAIN Boards /\ run \in 1 .. Len(Boards[board].jobs) + 1
    /\ pc.fn \in {"config", "run", "poll", "sums"} /\ pc.chan \in Channels /\ pc.side \in Sides
    /\ pc.step \in DOMAIN Calls
    /\ endWr \subseteq Channels
    /\ w_cstate \in {"WIDLE", "WDATA", "WBRSP"} /\ r_cstate \in {"RIDLE", "RDATA", "RWAIT"}
    /\ counter \in 0 .. RWait - 1 /\ gap \in 0 .. ReadGap
    /\ mem_edges \in [Clocks -> 0 .. MemPerBus]
    /\ out.chan \in Channels /\ dma.ctl.chan \in Channels
    /\ \A s \in Sides : end_o[s] \subseteq Channels
    /\ start_r \cup start_rr \cup edge_prev \subseteq Channels
    /\ \A c \in Channels, s \in Sides : begun[c][s] \in Nat /\ eng[c][s].busy \in 0 .. MinBusy

\* An engine runs with the parameters the host configured for its channel in
\* this invocation - all registers of them - and only the read engine of the
\* latency channel runs in latency mode.
JobAsConfigured ==
    \A c \in Channels, s \in Sides : eng[c][s].busy > 0 =>
        /\ \A k \in ToSet(ParamRegs) : eng[c][s].job.prm[k] = <<run, c>>
        /\ s = "rd" => (eng[c][s].job.lat <=> Job.lat /\ Job.latch = c)

\* One start of the host begins each enabled engine exactly once and no
\* disabled one: when the poll is over all of them have begun and ended.
OneRunPerStart ==
    \A c \in Channels, s \in Sides :
        /\ Running => begun[c][s] <= (IF c \in Enabled(s) THEN 1 ELSE 0)
        /\ Polled /\ c \in Enabled(s) => begun[c][s] = 1 /\ eng[c][s].busy = 0

\* What the host prints for a channel is that channel's total of that run,
\* not another channel's or an earlier invocation's.
ReportIsOwnTotal ==
    \A s \in Sides : \A k \in 1 .. Len(report[s]) :
        LET r == report[s][k] IN
        /\ r.sum.final
        /\ \A q \in ToSet(ParamRegs) : r.sum.prm[q] = <<r.run, r.chan>>

\* Every invocation finishes its poll and its readout.
AllJobsFinish == <>(~Running)

\* FpgaController.cpp:134 prints "The chennel i, wr_speed": the speed printed
\* for channel i is computed from the operations channel i performed.
SpeedUsesOwnOps ==
    \A s \in Sides : \A k \in 1 .. Len(report[s]) :
        report[s][k].ops = NumOps[report[s][k].chan]
=============================================================================
