--------------------------- MODULE LatencyCapture ---------------------------
(***************************************************************************)
(* How the latency samples of one run reach the host: the sample FIFO, the  *)
(* sample RAM and register 16 of hw/rtl/u280_hbm/xdma_control.sv, filled by *)
(* the read engine of the latency channel and read back by readHBMData      *)
(* (sw/src/fpga/FpgaController.cpp).                                        *)
(*                                                                          *)
(* While the start register is high both RAM pointers are held at zero.     *)
(* Afterwards every sample is written at addra and every read of register   *)
(* 16 advances addrb; the value then travels RamLatency + 2 cycles to the   *)
(* register, for which the read FSM waits RWait cycles after each read.     *)
(***************************************************************************)
EXTENDS Naturals, Sequences

CONSTANTS
    Ops,          \* num_mem_ops of the run: samples the engine publishes
    Latencies,    \* values lat_timer may have
    RamSize,      \* 2^12
    RamWidth,     \* 2^8
    RamLatency,   \* READ_LATENCY_B (17)
    RWait,        \* cycles the read FSM spends in RWAIT (16)
    HostGap,      \* external: bus cycles between a read's data and the next read
    ReadMax,      \* 10000, the most samples readHBMData reads
    StartOutlasts \* may samples arrive before the host has written start = 0?

ASSUME BoundsAssumption ==
    /\ {Ops, RamSize, RamWidth, RamLatency, RWait, ReadMax} \subseteq Nat \ {0}
    /\ HostGap \in Nat
    /\ Latencies \subseteq Nat
    /\ StartOutlasts \in BOOLEAN

VARIABLES
    host,           \* "start1", "start0", "poll", "read", "exit"
    start,          \* the start output register
    emitted,        \* history: the samples published, in order
    paced,          \* an engine cycle pair has passed since the last sample
    fifo,           \* lat_time_pri_fifo
    fifo_rd_en_r,   \* = ram_wr_en
    ram_data_in,
    addra_ori, addrb_ori,
    ram,
    doutb,          \* the RAM's read pipeline, oldest value last
    lat_timer_out,
    reg16,          \* dma_control_reg[16]
    r_cstate, counter, gap,
    lat_time_arry   \* what the host has read

hostVars == <<host, lat_time_arry>>
readVars == <<r_cstate, counter, gap>>
vars == <<hostVars, start, emitted, paced, fifo, fifo_rd_en_r, ram_data_in,
          addra_ori, addrb_ori, ram, doutb, lat_timer_out, reg16, readVars>>

numRegReadNum == IF Ops < ReadMax THEN Ops ELSE ReadMax

Init ==
    /\ host = "start1" /\ lat_time_arry = << >>
    /\ start = FALSE
    /\ emitted = << >> /\ paced = TRUE
    /\ fifo = << >> /\ fifo_rd_en_r = FALSE /\ ram_data_in = 0
    /\ addra_ori \in {0, RamSize - 1} /\ addrb_ori \in {0, RamSize - 1}
    /\ ram = [a \in 0 .. RamSize - 1 |-> 0]
    /\ doutb = [k \in 1 .. RamLatency |-> 0] /\ lat_timer_out = 0 /\ reg16 = 0
    /\ r_cstate = "RIDLE" /\ counter = 0 /\ gap = 0

-----------------------------------------------------------------------------
(***************************************************************************)
(* The engine's side: lat_timer_valid, two registers for the channel mux,   *)
(* one in xdma_control, then the FIFO, whose full output is not connected.  *)
(* A sample takes the engine at least three memory cycles.                  *)
(***************************************************************************)
Sample(v) ==
    /\ host # "start1" /\ (start => StartOutlasts)
    /\ Len(emitted) < Ops /\ paced
    /\ emitted' = Append(emitted, v)
    /\ fifo' = Append(fifo, v)
    /\ paced' = FALSE
    /\ UNCHANGED <<hostVars, start, fifo_rd_en_r, ram_data_in, addra_ori, addrb_ori,
                   ram, doutb, lat_timer_out, reg16, readVars>>

-----------------------------------------------------------------------------
(***************************************************************************)
(* s_aclk.  pop: the FIFO shows its head to the read side in this cycle.    *)
(***************************************************************************)
RamDataIn == ram_data_in' = IF fifo = << >> THEN ram_data_in ELSE Head(fifo) % RamWidth

FifoRead(pop) ==
    /\ pop => fifo # << >>
    /\ fifo' = IF pop THEN Tail(fifo) ELSE fifo
    /\ fifo_rd_en_r' = pop
    /\ RamDataIn

RamWrite == ram' = IF fifo_rd_en_r THEN [ram EXCEPT ![addra_ori] = ram_data_in] ELSE ram

WritePointerNoWrap ==
    addra_ori' = CASE start -> 0
                   [] ~start /\ fifo_rd_en_r -> addra_ori + 1
                   [] OTHER -> addra_ori
WritePointerSticky ==
    addra_ori' = IF fifo_rd_en_r THEN (addra_ori + 1) % RamSize ELSE addra_ori
WritePointer ==
    addra_ori' = CASE start -> 0
                   [] ~start /\ fifo_rd_en_r -> (addra_ori + 1) % RamSize
                   [] OTHER -> addra_ori

ReadPointer(taken) ==
    addrb_ori' = CASE start -> 0
                   [] ~start /\ taken -> (addrb_ori + 1) % RamSize
                   [] OTHER -> addrb_ori

\* RAM output pipeline, then lat_timer_out, then the register.
ReadPath ==
    /\ doutb' = [k \in 1 .. RamLatency |-> IF k = 1 THEN ram[addrb_ori] ELSE doutb[k - 1]]
    /\ lat_timer_out' = doutb[RamLatency]
    /\ reg16' = lat_timer_out

\* The host does not read before the flags are up and a one-second sleep has
\* let the last sample through.
Settled ==
    /\ Len(emitted) = Ops /\ fifo = << >> /\ ~fifo_rd_en_r
    /\ \A k \in 1 .. RamLatency : doutb[k] = ram[addrb_ori]
    /\ lat_timer_out = ram[addrb_ori] /\ reg16 = ram[addrb_ori]

LastWaitShort == counter = 0
LastWaitNever == counter >= RWait
LastWait == counter = RWait - 1

ReadFSM(go) ==
    \/ /\ r_cstate = "RIDLE"
       /\ IF go /\ host = "read" /\ gap >= HostGap
          THEN r_cstate' = "RDATA" ELSE UNCHANGED r_cstate
       /\ gap' = IF gap < HostGap THEN gap + 1 ELSE gap
       /\ counter' = 0
    \/ /\ r_cstate = "RDATA"
       /\ r_cstate' = IF go THEN "RWAIT" ELSE r_cstate
       /\ gap' = 0 /\ counter' = 0
    \/ /\ r_cstate = "RWAIT"
       /\ r_cstate' = IF LastWait THEN "RIDLE" ELSE r_cstate
       /\ counter' = IF LastWait THEN 0 ELSE (counter + 1) % RWait
       /\ UNCHANGED gap

\* runHBMtest's last two writes, the poll loop and the latency loop.
Host(go) ==
    \/ ~go /\ UNCHANGED <<hostVars, start>>
    \/ go /\ host = "start1" /\ start' = TRUE /\ host' = "start0" /\ UNCHANGED lat_time_arry
    \/ go /\ host = "start0" /\ start' = FALSE /\ host' = "poll" /\ UNCHANGED lat_time_arry
    \/ /\ go /\ host = "poll"
       /\ host' = IF Settled THEN "read" ELSE host
       /\ UNCHANGED <<start, lat_time_arry>>
    \/ /\ go /\ host = "read" /\ r_cstate = "RDATA"
       /\ lat_time_arry' = Append(lat_time_arry, reg16)
       /\ host' = IF Len(lat_time_arry) + 1 = numRegReadNum THEN "exit" ELSE host
       /\ UNCHANGED start
    \/ go /\ host = "read" /\ r_cstate # "RDATA" /\ UNCHANGED <<hostVars, start>>

BusTick(go, pop) ==
    /\ host # "exit"
    /\ FifoRead(pop)
    /\ RamWrite /\ WritePointer
    /\ ReadPointer(go /\ r_cstate = "RDATA")
    /\ ReadPath
    /\ ReadFSM(go)
    /\ Host(go)
    /\ paced' = TRUE
    /\ UNCHANGED emitted

Finished == host = "exit" /\ UNCHANGED vars

Next ==
    \/ \E v \in Latencies : Sample(v)
    \/ \E go, pop \in BOOLEAN : BusTick(go, pop)
    \/ Finished

Spec == Init /\ [][Next]_vars

\* The clocks run, the engine publishes its samples, the FIFO shows them and
\* the host gets its turn.
LiveSpec ==
    /\ Spec
    /\ WF_vars(\E v \in Latencies : Sample(v))
    /\ SF_vars(\E pop \in BOOLEAN : BusTick(TRUE, pop))
    /\ SF_vars(\E go \in BOOLEAN : BusTick(go, TRUE))

-----------------------------------------------------------------------------
TypeOK ==
    /\ host \in {"start1", "start0", "poll", "read", "exit"}
    /\ {start, paced, fifo_rd_en_r} \subseteq BOOLEAN
    /\ emitted \in Seq(Latencies) /\ fifo \in Seq(Latencies)
    /\ {addra_ori, addrb_ori} \subseteq 0 .. RamSize - 1
    /\ ram_data_in \in Nat /\ lat_timer_out \in Nat /\ reg16 \in Nat
    /\ r_cstate \in {"RIDLE", "RDATA", "RWAIT"}
    /\ counter \in 0 .. RWait - 1 /\ gap \in 0 .. HostGap

\* xdma_control.sv:67 "log down lat_timer when lat_timer_valid is 1": the host
\* reads the samples the engine published, each once, in order, unchanged.
EverySampleLogged ==
    \A k \in 1 .. Len(lat_time_arry) : lat_time_arry[k] = emitted[k]

\* The write pointer counts exactly the samples written (modulo the RAM), so that
\* FIFO, write register and RAM together hold every sample published so far.
NoSampleLostOnTheWay ==
    start \/ host = "start1" \/
        Len(emitted) % RamSize =
            (addra_ori + Len(fifo) + (IF fifo_rd_en_r THEN 1 ELSE 0)) % RamSize

\* The latency readout finishes.
ReadoutFinishes == <>(host = "exit")
=============================================================================
