------------------------------ MODULE WrEngine ------------------------------
(***************************************************************************)
(* The write engine of one memory channel, hw/rtl/u280_hbm/wr_engine.sv     *)
(* (hw/rtl/u280_ddr/wr_engine.sv is the same text), one step per clock      *)
(* edge.  Addresses (AW) and data (W) leave on two independent channels:    *)
(* the FSM counts addresses in mem_op_index, a second always block counts   *)
(* beats in burst_inc and bursts in wr_ops, and the FSM joins the two       *)
(* through wr_data_done before it raises end_of_exec.  Write responses (B)  *)
(* are accepted and ignored.                                                *)
(*                                                                          *)
(* The memory behind the port is external.  AXI lets it take the data of a  *)
(* burst before the burst's address; WLead is how many bursts ahead it      *)
(* keeps WREADY up.                                                         *)
(***************************************************************************)
EXTENDS Registers

CONSTANTS
    Params,         \* parameter words the host may load: wgs, stride, num, burst, init
    AddrSpace,      \* 2^ADDR_WIDTH
    SumMod,         \* 2^64, the width of lat_timer_sum
    BeatBytes,      \* DATA_WIDTH/8
    LenSpace,       \* 2^LEN_WIDTH
    BitAnd(_, _),   \* bitwise AND on 0 .. AddrSpace-1
    WLead,          \* bursts of data the memory takes ahead of their addresses
    AllowRestart,   \* may start arrive while a run is in progress?
    AllowReset      \* may hbm_reset arrive at any time?

ASSUME ParamsAssumption ==
    Params \subseteq [wgs : 1 .. AddrSpace - 1, stride : 0 .. AddrSpace - 1,
                      num : Nat \ {0}, burst : Nat, init : 0 .. AddrSpace - 1]
ASSUME WidthAssumption ==
    /\ AddrSpace \in Nat \ {0, 1}
    /\ SumMod \in Nat \ {0, 1}
    /\ BeatBytes \in Nat \ {0}
    /\ LenSpace \in Nat \ {0}
ASSUME BitAndAssumption ==
    \A x \in 0 .. AddrSpace - 1, m \in 0 .. AddrSpace - 1 : BitAnd(x, m) \in 0 .. m
ASSUME SwitchAssumption == WLead \in Nat /\ {AllowRestart, AllowReset} \subseteq BOOLEAN

VARIABLES
    state,            \* the FSM
    started,          \* start, one cycle late
    p,                \* the parameter registers staged in WR_IDLE
    is_in_progress,
    mem_op_index,     \* addresses accepted in this run, as the FSM counts them
    offset_addr,
    AWADDR,
    guard_AWVALID,    \* AWVALID
    guard_WVALID,
    burst_inc,        \* beats of the current burst, as the data block counts them
    wr_ops,           \* bursts of data, as the data block counts them
    wr_data_done,
    end_of_exec,
    lat_timer_sum,
    mem_ready,        \* external: the port has seen a clock edge since its reset
    addresses,        \* history: addresses the memory accepted in this run
    bursts,           \* history: complete bursts of data it took in this run
    beats             \* history: beats it took of the burst after those

fsm      == <<state, p, is_in_progress, mem_op_index, offset_addr, AWADDR,
              guard_AWVALID, guard_WVALID, end_of_exec, lat_timer_sum>>
data     == <<burst_inc, wr_ops, wr_data_done>>
memory   == <<mem_ready, addresses, bursts, beats>>
vars     == <<fsm, started, data, memory>>

States == {"WR_IDLE", "WR_STARTED", "WR_TH_VALID", "WR_TH_DATA", "WR_END"}

\* m_axi_AWLEN: beats of a burst less one, at LEN_WIDTH bits.
AWLEN == ((p.burst \div BeatBytes) - 1) % LenSpace

\* init_addr + (offset_addr & work_group_size_minus_1)
AddrOf(off) == AddMod(p.init, BitAnd(off, p.wgs - 1), AddrSpace)

AWVALID == guard_AWVALID
\* "!=", not "<": a count past num raises WVALID again.
WVALID  == wr_ops # p.num /\ guard_WVALID
WLASTShort == burst_inc + 1 = AWLEN /\ guard_WVALID
WLAST   == burst_inc = AWLEN /\ guard_WVALID

-----------------------------------------------------------------------------
\* The FPGA powers up with every register at zero and the reset asserted.
Init ==
    /\ state = "WR_IDLE"
    /\ started = FALSE
    /\ p \in Params
    /\ is_in_progress = FALSE
    /\ mem_op_index = 0
    /\ offset_addr = 0
    /\ AWADDR = 0
    /\ guard_AWVALID = FALSE /\ guard_WVALID = FALSE
    /\ burst_inc = 0 /\ wr_ops = 0 /\ wr_data_done = FALSE
    /\ end_of_exec = FALSE
    /\ lat_timer_sum = 0
    /\ mem_ready = FALSE
    /\ addresses = 0 /\ bursts = 0 /\ beats = 0

(***************************************************************************)
(* The data block.  It advances on WREADY & guard_WVALID, that is, also in  *)
(* the cycles where WVALID is low because all bursts are out.               *)
(***************************************************************************)
LastBurst == wr_ops = p.num - 1

CountBeatNoReset(wready) ==
    /\ is_in_progress /\ wready /\ guard_WVALID
    /\ burst_inc' = burst_inc + 1
    /\ \/ /\ burst_inc = AWLEN
          /\ wr_ops' = wr_ops + 1
          /\ wr_data_done' = (wr_data_done \/ LastBurst)
       \/ burst_inc # AWLEN /\ UNCHANGED <<wr_ops, wr_data_done>>

CountBeat(wready) ==
    /\ is_in_progress /\ wready /\ guard_WVALID
    /\ \/ /\ burst_inc = AWLEN
          /\ burst_inc' = 0
          /\ wr_ops' = wr_ops + 1
          /\ wr_data_done' = (wr_data_done \/ LastBurst)
       \/ /\ burst_inc # AWLEN
          /\ burst_inc' = burst_inc + 1
          /\ UNCHANGED <<wr_ops, wr_data_done>>

DataBlock(wready) ==
    \/ started /\ burst_inc' = 0 /\ wr_ops' = 0 /\ wr_data_done' = FALSE
    \/ ~started /\ CountBeat(wready)
    \/ ~started /\ ~(is_in_progress /\ wready /\ guard_WVALID) /\ UNCHANGED data

-----------------------------------------------------------------------------
(***************************************************************************)
(* The FSM: one action per state.  awready is AWREADY.                      *)
(***************************************************************************)
Handshake(awready) == AWVALID /\ awready
LastAddressLate == mem_op_index = p.num
LastAddress == mem_op_index = p.num - 1

LoadAddress == AWADDR' = AddrOf(offset_addr)

SumTick == lat_timer_sum' = AddMod(lat_timer_sum, 1, SumMod)

\* Waits for started; lt_params_r holds whatever the host loaded last.
WrIdle ==
    /\ state = "WR_IDLE"
    /\ end_of_exec' = FALSE /\ guard_AWVALID' = FALSE /\ guard_WVALID' = FALSE
    /\ \/ started /\ state' = "WR_STARTED" /\ p' \in Params
       \/ ~started /\ UNCHANGED <<state, p>>
    /\ UNCHANGED <<is_in_progress, mem_op_index, offset_addr, AWADDR, lat_timer_sum>>

WrStartedOffsetKept ==
    /\ state = "WR_STARTED"
    /\ end_of_exec' = FALSE /\ guard_AWVALID' = FALSE /\ guard_WVALID' = FALSE
    /\ is_in_progress' = TRUE
    /\ mem_op_index' = 0 /\ lat_timer_sum' = 0
    /\ state' = "WR_TH_VALID"
    /\ UNCHANGED <<p, offset_addr, AWADDR>>

WrStarted ==
    /\ state = "WR_STARTED"
    /\ end_of_exec' = FALSE /\ guard_AWVALID' = FALSE /\ guard_WVALID' = FALSE
    /\ is_in_progress' = TRUE
    /\ offset_addr' = 0 /\ mem_op_index' = 0 /\ lat_timer_sum' = 0
    /\ state' = "WR_TH_VALID"
    /\ UNCHANGED <<p, AWADDR>>

WrThValidNoJoin(awready) ==
    /\ state = "WR_TH_VALID"
    /\ end_of_exec' = FALSE /\ SumTick
    /\ guard_WVALID' = TRUE /\ LoadAddress
    /\ \/ /\ Handshake(awready)
          /\ offset_addr' = AddMod(offset_addr, p.stride, AddrSpace)
          /\ mem_op_index' = mem_op_index + 1
          /\ guard_AWVALID' = ~LastAddress
          /\ state' = IF LastAddress THEN "WR_END" ELSE state
       \/ /\ ~Handshake(awready)
          /\ guard_AWVALID' = TRUE
          /\ UNCHANGED <<offset_addr, mem_op_index, state>>
    /\ UNCHANGED <<p, is_in_progress>>

WrThValidImpatient(awready) ==
    /\ state = "WR_TH_VALID"
    /\ end_of_exec' = FALSE /\ SumTick
    /\ guard_WVALID' = TRUE /\ LoadAddress
    /\ \/ /\ Handshake(awready)
          /\ offset_addr' = AddMod(offset_addr, p.stride, AddrSpace)
          /\ mem_op_index' = mem_op_index + 1
          /\ guard_AWVALID' = ~LastAddress
          /\ state' = CASE LastAddress /\ wr_data_done -> "WR_END"
                        [] LastAddress /\ ~wr_data_done -> "WR_TH_DATA"
                        [] OTHER -> state
       \/ /\ ~Handshake(awready)
          /\ guard_AWVALID' = ~guard_AWVALID
          /\ UNCHANGED <<offset_addr, mem_op_index, state>>
    /\ UNCHANGED <<p, is_in_progress>>

\* Offers addresses and data until num addresses have been accepted.
WrThValid(awready) ==
    /\ state = "WR_TH_VALID"
    /\ end_of_exec' = FALSE /\ SumTick
    /\ guard_WVALID' = TRUE /\ LoadAddress
    /\ \/ /\ Handshake(awready)
          /\ offset_addr' = AddMod(offset_addr, p.stride, AddrSpace)
          /\ mem_op_index' = mem_op_index + 1
          /\ guard_AWVALID' = ~LastAddress
          /\ state' = CASE LastAddress /\ wr_data_done -> "WR_END"
                        [] LastAddress /\ ~wr_data_done -> "WR_TH_DATA"
                        [] OTHER -> state
       \/ /\ ~Handshake(awready)
          /\ guard_AWVALID' = TRUE
          /\ UNCHANGED <<offset_addr, mem_op_index, state>>
    /\ UNCHANGED <<p, is_in_progress>>

WrThDataDropsLast ==
    /\ state = "WR_TH_DATA"
    /\ end_of_exec' = FALSE /\ guard_AWVALID' = FALSE /\ SumTick
    /\ guard_WVALID' = FALSE
    /\ state' = IF wr_data_done THEN "WR_END" ELSE state
    /\ UNCHANGED <<p, is_in_progress, mem_op_index, offset_addr, AWADDR>>

\* All addresses are out: keeps offering data until the data block is done.
WrThData ==
    /\ state = "WR_TH_DATA"
    /\ end_of_exec' = FALSE /\ guard_AWVALID' = FALSE /\ SumTick
    /\ guard_WVALID' = ~wr_data_done
    /\ state' = IF wr_data_done THEN "WR_END" ELSE state
    /\ UNCHANGED <<p, is_in_progress, mem_op_index, offset_addr, AWADDR>>

WrEnd ==
    /\ state = "WR_END"
    /\ end_of_exec' = TRUE /\ guard_AWVALID' = FALSE /\ guard_WVALID' = FALSE /\ SumTick
    /\ is_in_progress' = FALSE
    /\ state' = "WR_IDLE"
    /\ UNCHANGED <<p, mem_op_index, offset_addr, AWADDR>>

Fsm(awready) ==
    \/ WrIdle
    \/ WrStarted
    \/ WrThValid(awready)
    \/ WrThData
    \/ WrEnd

-----------------------------------------------------------------------------
(***************************************************************************)
(* The memory's side of the port (external) and the histories.              *)
(***************************************************************************)
NewRun == state = "WR_IDLE" /\ started

Memory(awready, wready) ==
    /\ awready \/ wready => mem_ready
    /\ wready => bursts < addresses + WLead
    /\ mem_ready' = TRUE
    /\ addresses' = IF NewRun THEN 0 ELSE addresses + One(Handshake(awready))
    /\ bursts' = IF NewRun THEN 0 ELSE bursts + One(WVALID /\ wready /\ WLAST)
    /\ beats' = CASE NewRun                                   -> 0
                  [] ~NewRun /\ WVALID /\ wready /\ WLAST     -> 0
                  [] ~NewRun /\ WVALID /\ wready /\ ~WLAST    -> beats + 1
                  [] OTHER                                    -> beats

\* start is a one-cycle pulse; without AllowRestart it finds the engine idle.
StartAllowed(start) == start => AllowRestart \/ (state = "WR_IDLE" /\ ~started)

Tick(start, awready, wready) ==
    /\ StartAllowed(start)
    /\ started' = start
    /\ DataBlock(wready)
    /\ Fsm(awready)
    /\ Memory(awready, wready)

\* A cycle with rst_n low: the guards and end_of_exec keep their values, the
\* memory port shares the reset.
Reset ==
    /\ AllowReset
    /\ state' = "WR_IDLE" /\ started' = FALSE /\ is_in_progress' = FALSE
    /\ burst_inc' = 0 /\ wr_ops' = 0 /\ wr_data_done' = FALSE
    /\ mem_ready' = FALSE
    /\ UNCHANGED <<p, mem_op_index, offset_addr, AWADDR, guard_AWVALID, guard_WVALID,
                   end_of_exec, lat_timer_sum, addresses, bursts, beats>>

Next ==
    \/ \E start, awready, wready \in BOOLEAN : Tick(start, awready, wready)
    \/ Reset

Spec == Init /\ [][Next]_vars

\* The clock runs; the memory eventually accepts an address on offer and,
\* within its lead, a beat on offer.
AddressTick == AWVALID /\ \E start, wready \in BOOLEAN : Tick(start, TRUE, wready)
BeatTick    == WVALID /\ \E start, awready \in BOOLEAN : Tick(start, awready, TRUE)

LiveSpec ==
    /\ Spec
    /\ WF_vars(\E start, awready, wready \in BOOLEAN : Tick(start, awready, wready))
    /\ WF_vars(AddressTick)
    /\ WF_vars(BeatTick)

-----------------------------------------------------------------------------
TypeOK ==
    /\ state \in States
    /\ p \in Params
    /\ {started, is_in_progress, guard_AWVALID, guard_WVALID, wr_data_done,
        end_of_exec, mem_ready} \subseteq BOOLEAN
    /\ {mem_op_index, wr_ops, addresses, bursts, beats} \subseteq Nat
    /\ {offset_addr, AWADDR} \subseteq 0 .. AddrSpace - 1
    /\ burst_inc \in 0 .. LenSpace - 1
    /\ lat_timer_sum \in 0 .. SumMod - 1

\* When the engine raises end_of_exec the memory has taken exactly num addresses
\* and exactly num complete bursts of data in this run.
EndMeansAllSent ==
    end_of_exec => addresses = p.num /\ bursts = p.num /\ beats = 0

\* sw/src/ddr_test.cpp:40 "Number of memory operate": no run sends more than
\* num addresses or more than num bursts of data.
NoExtraBursts == addresses <= p.num /\ bursts <= p.num

\* WLAST marks the last beat of every burst and no other, although burst_inc
\* also counts cycles in which no beat is transferred.
LastBeatMarked == mem_ready /\ WVALID => (WLAST <=> beats = AWLEN)

\* The address on offer for the k-th write is the k-th address of the pattern
\* or the one before it.
Pattern(k) == AddrOf((k * p.stride) % AddrSpace)
AddressLagsByOne ==
    AWVALID /\ state = "WR_TH_VALID" =>
        \/ AWADDR = Pattern(mem_op_index)
        \/ mem_op_index > 0 /\ AWADDR = Pattern(mem_op_index - 1)

\* An address or a beat on offer stays on offer until the memory takes it
\* (AXI: VALID is not withdrawn).
ValidHeld ==
    [][mem_ready /\ mem_ready' =>
          /\ AWVALID /\ addresses' = addresses => AWVALID'
          /\ WVALID /\ bursts' = bursts /\ beats' = beats => WVALID']_vars

\* A run that has begun reaches end_of_exec unless the port is reset: the join
\* of addresses and data through wr_data_done never waits for ever.
RunEnds == (state = "WR_STARTED") ~> end_of_exec \/ ~mem_ready

\* The engine implements what lt_engine and the host rely on: an operation is
\* complete when its address and its data have both been taken, and end_of_exec
\* rises when num have, never otherwise; only the reset ends a run early.
Contract == INSTANCE EngineContract WITH
    Nums <- {q.num : q \in Params}, busy <- state # "WR_IDLE", num <- p.num,
    completed <- IF addresses <= bursts THEN addresses ELSE bursts, ended <- end_of_exec
ImplementsContract == Contract!Spec
=============================================================================
