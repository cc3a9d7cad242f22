------------------------------ MODULE RdEngine ------------------------------
(***************************************************************************)
(* The read engine of one memory channel, hw/rtl/u280_hbm/rd_engine.sv      *)
(* (hw/rtl/u280_ddr/rd_engine.sv is the same text).  A step of this module  *)
(* is one edge of the engine's clock: the inputs (start, ARREADY,           *)
(* RLAST & RVALID) are chosen with \E, every register takes the value its   *)
(* always block gives it.  The engine issues num read bursts, address       *)
(* channel and response channel overlapping freely (throughput mode) or one *)
(* burst at a time (latency mode), then raises end_of_exec for one cycle.   *)
(*                                                                          *)
(* The memory behind the AXI port is not in the repository: it accepts an   *)
(* offered address and ends a burst (RLAST) whenever it likes.              *)
(***************************************************************************)
EXTENDS Registers

CONSTANTS
    Params,         \* parameter words the host may load: wgs, stride, num, init, lat
    AddrSpace,      \* 2^ADDR_WIDTH (2^33 in lt_engine's instance)
    LatMod,         \* 2^16, the width of lat_timer
    SumMod,         \* 2^64, the width of lat_timer_sum
    BitAnd(_, _),   \* bitwise AND on 0 .. AddrSpace-1
    AllowStall,     \* may the memory hold ARREADY low?
    AllowRestart,   \* may start arrive while a run is in progress?
    AllowReset      \* may hbm_reset arrive at any time?

ASSUME ParamsAssumption ==
    Params \subseteq [wgs : 1 .. AddrSpace - 1, stride : 0 .. AddrSpace - 1,
                      num : Nat \ {0}, init : 0 .. AddrSpace - 1, lat : BOOLEAN]
ASSUME WidthAssumption ==
    /\ AddrSpace \in Nat \ {0, 1}
    /\ LatMod \in Nat \ {0, 1}
    /\ SumMod \in Nat \ {0, 1}
ASSUME BitAndAssumption ==
    \A x \in 0 .. AddrSpace - 1, m \in 0 .. AddrSpace - 1 : BitAnd(x, m) \in 0 .. m
ASSUME SwitchAssumption == {AllowStall, AllowRestart, AllowReset} \subseteq BOOLEAN

VARIABLES
    state,            \* the FSM
    started,          \* start, one cycle late
    p,                \* the parameter registers staged in RD_IDLE
    mem_op_index,     \* addresses accepted in this run, as the FSM counts them
    offset_addr,
    ARADDR,
    guard_ARVALID,    \* ARVALID
    read_resp_lasts,  \* responses counted since the last start
    end_of_exec,
    lat_timer,
    lat_timer_valid,
    lat_timer_sum,
    mem_ready,        \* external: the port has seen a clock edge since its reset
    outstanding,      \* external: bursts accepted and not yet ended
    accepted,         \* history: addresses the memory accepted in this run
    answered,         \* history: bursts the memory ended in this run
    samples,          \* history: latency samples published in this run
    age,              \* history: cycles since the last accepted address, mod LatMod
    waited            \* history: the last cycle's offer was not accepted

fsm      == <<state, p, mem_op_index, offset_addr, ARADDR, guard_ARVALID,
              end_of_exec, lat_timer, lat_timer_valid, lat_timer_sum>>
memory   == <<mem_ready, outstanding, accepted, answered, samples, age, waited>>
vars     == <<fsm, started, read_resp_lasts, memory>>

States == {"RD_IDLE", "RD_STARTED", "RD_LAT_VALID", "RD_LAT_RESP",
           "RD_TH_VALID", "RD_TH_RESP", "RD_END"}

\* init_addr + (offset_addr & work_group_size_minus_1)
AddrOf(off) == AddMod(p.init, BitAnd(off, p.wgs - 1), AddrSpace)

-----------------------------------------------------------------------------
\* The FPGA powers up with every register at zero and the reset asserted.
Init ==
    /\ state = "RD_IDLE"
    /\ started = FALSE
    /\ p \in Params
    /\ mem_op_index = 0
    /\ offset_addr = 0
    /\ ARADDR = 0
    /\ guard_ARVALID = FALSE
    /\ read_resp_lasts = 0
    /\ end_of_exec = FALSE
    /\ lat_timer = 0
    /\ lat_timer_valid = FALSE
    /\ lat_timer_sum = 0
    /\ mem_ready = FALSE
    /\ outstanding = 0
    /\ accepted = 0
    /\ answered = 0
    /\ samples = 0
    /\ age = 0
    /\ waited = FALSE

(***************************************************************************)
(* What the FSM decides on.  ready is ARREADY, last is RLAST & RVALID.      *)
(***************************************************************************)
Handshake(ready) == guard_ARVALID /\ ready

\* Faulty variants of a definition, here and below, stand just before it.
LastAddressLate == mem_op_index >= p.num
LastAddress == mem_op_index >= p.num - 1

AllAnsweredEarly == read_resp_lasts >= p.num - 1
AllAnswered == read_resp_lasts = p.num

LatDone == mem_op_index = p.num

CountLastsNoClear(last) == read_resp_lasts' = read_resp_lasts + One(last)
\* The response counter runs beside the FSM, in every state, and is cleared
\* by started in every state.
CountLasts(last) ==
    read_resp_lasts' = IF started THEN 0 ELSE read_resp_lasts + One(last)

LoadAddressUnmasked == ARADDR' = AddMod(p.init, offset_addr, AddrSpace)
\* The address register lags the offset by the cycle it takes to load it.
LoadAddress == ARADDR' = AddrOf(offset_addr)

AdvanceNoWrap == offset_addr' = offset_addr + p.stride
Advance == offset_addr' = AddMod(offset_addr, p.stride, AddrSpace)

LatTimerHeld == lat_timer
LatTimerCleared == 0

\* The assignments every cycle makes before the case statement.
Outputs(ending, sampling) ==
    /\ end_of_exec' = ending
    /\ lat_timer_valid' = sampling

SumTick == lat_timer_sum' = AddMod(lat_timer_sum, 1, SumMod)

-----------------------------------------------------------------------------
(***************************************************************************)
(* The FSM: one action per state.                                           *)
(***************************************************************************)
\* Waits for started; lt_params_r holds whatever the host loaded last.
RdIdle ==
    /\ state = "RD_IDLE"
    /\ Outputs(FALSE, FALSE) /\ guard_ARVALID' = FALSE
    /\ \/ started /\ state' = "RD_STARTED" /\ p' \in Params
       \/ ~started /\ UNCHANGED <<state, p>>
    /\ UNCHANGED <<mem_op_index, offset_addr, ARADDR, lat_timer, lat_timer_sum>>

RdStartedOffsetKept ==
    /\ state = "RD_STARTED"
    /\ Outputs(FALSE, FALSE) /\ guard_ARVALID' = FALSE
    /\ mem_op_index' = 0 /\ lat_timer_sum' = 0
    /\ state' = IF p.lat THEN "RD_LAT_VALID" ELSE "RD_TH_VALID"
    /\ UNCHANGED <<p, offset_addr, ARADDR, lat_timer>>

RdStarted ==
    /\ state = "RD_STARTED"
    /\ Outputs(FALSE, FALSE) /\ guard_ARVALID' = FALSE
    /\ mem_op_index' = 0 /\ offset_addr' = 0 /\ lat_timer_sum' = 0
    /\ state' = IF p.lat THEN "RD_LAT_VALID" ELSE "RD_TH_VALID"
    /\ UNCHANGED <<p, ARADDR, lat_timer>>

\* Offers one address; the offset advances on every cycle spent here.
RdLatValid(ready) ==
    /\ state = "RD_LAT_VALID"
    /\ Outputs(FALSE, FALSE) /\ SumTick
    /\ Advance /\ LoadAddress
    /\ \/ /\ Handshake(ready)
          /\ mem_op_index' = mem_op_index + 1
          /\ lat_timer' = LatTimerCleared
          /\ guard_ARVALID' = FALSE
          /\ state' = "RD_LAT_RESP"
       \/ /\ ~Handshake(ready)
          /\ guard_ARVALID' = TRUE
          /\ UNCHANGED <<mem_op_index, lat_timer, state>>
    /\ UNCHANGED p

\* Times the response and publishes the timer with the last beat.
RdLatResp(last) ==
    /\ state = "RD_LAT_RESP"
    /\ Outputs(FALSE, last) /\ guard_ARVALID' = FALSE /\ SumTick
    /\ lat_timer' = AddMod(lat_timer, 1, LatMod)
    /\ \/ last /\ LatDone /\ state' = "RD_END"
       \/ last /\ ~LatDone /\ state' = "RD_LAT_VALID"
       \/ ~last /\ UNCHANGED state
    /\ UNCHANGED <<p, mem_op_index, offset_addr, ARADDR>>

RdThValidImpatient(ready) ==
    /\ state = "RD_TH_VALID"
    /\ Outputs(FALSE, FALSE) /\ SumTick
    /\ LoadAddress
    /\ \/ /\ Handshake(ready)
          /\ Advance
          /\ mem_op_index' = mem_op_index + 1
          /\ guard_ARVALID' = ~LastAddress
          /\ state' = IF LastAddress THEN "RD_TH_RESP" ELSE state
       \/ /\ ~Handshake(ready)
          /\ guard_ARVALID' = ~guard_ARVALID
          /\ UNCHANGED <<offset_addr, mem_op_index, state>>
    /\ UNCHANGED <<p, lat_timer>>

\* Offers addresses back to back until num of them have been accepted.
RdThValid(ready) ==
    /\ state = "RD_TH_VALID"
    /\ Outputs(FALSE, FALSE) /\ SumTick
    /\ LoadAddress
    /\ \/ /\ Handshake(ready)
          /\ Advance
          /\ mem_op_index' = mem_op_index + 1
          /\ guard_ARVALID' = ~LastAddress
          /\ state' = IF LastAddress THEN "RD_TH_RESP" ELSE state
       \/ /\ ~Handshake(ready)
          /\ guard_ARVALID' = TRUE
          /\ UNCHANGED <<offset_addr, mem_op_index, state>>
    /\ UNCHANGED <<p, lat_timer>>

\* Waits until the response counter has reached num.
RdThResp ==
    /\ state = "RD_TH_RESP"
    /\ Outputs(FALSE, FALSE) /\ guard_ARVALID' = FALSE /\ SumTick
    /\ state' = IF AllAnswered THEN "RD_END" ELSE state
    /\ UNCHANGED <<p, mem_op_index, offset_addr, ARADDR, lat_timer>>

RdEnd ==
    /\ state = "RD_END"
    /\ Outputs(TRUE, FALSE) /\ guard_ARVALID' = FALSE /\ SumTick
    /\ state' = "RD_IDLE"
    /\ UNCHANGED <<p, mem_op_index, offset_addr, ARADDR, lat_timer>>

Fsm(ready, last) ==
    \/ RdIdle
    \/ RdStarted
    \/ RdLatValid(ready)
    \/ RdLatResp(last)
    \/ RdThValid(ready)
    \/ RdThResp
    \/ RdEnd

-----------------------------------------------------------------------------
(***************************************************************************)
(* The memory's side of the port (external) and the histories.  A run's     *)
(* histories begin with the cycle that stages its parameters.               *)
(***************************************************************************)
NewRun == state = "RD_IDLE" /\ started

Memory(ready, last) ==
    /\ ready => mem_ready
    /\ mem_ready /\ ~ready => AllowStall
    /\ last => outstanding > 0
    /\ mem_ready' = TRUE
    /\ outstanding' = outstanding + One(Handshake(ready)) - One(last)
    /\ accepted' = IF NewRun THEN 0 ELSE accepted + One(Handshake(ready))
    /\ answered' = IF NewRun THEN 0 ELSE answered + One(last)
    /\ samples'  = IF NewRun THEN 0 ELSE samples + One(lat_timer_valid)
    /\ age' = CASE Handshake(ready)                      -> 0
                [] ~Handshake(ready) /\ outstanding > 0  -> AddMod(age, 1, LatMod)
                [] OTHER                                 -> age
    /\ waited' = (guard_ARVALID /\ ~ready)

\* start is a one-cycle pulse; without AllowRestart it finds the engine idle.
StartAllowed(start) == start => AllowRestart \/ (state = "RD_IDLE" /\ ~started)

Tick(start, ready, last) ==
    /\ StartAllowed(start)
    /\ started' = start
    /\ CountLasts(last)
    /\ Fsm(ready, last)
    /\ Memory(ready, last)

\* A cycle with rst_n low: only state and started are assigned, so ARVALID,
\* end_of_exec and lat_timer_valid keep the values they had.  The memory port
\* shares the reset and forgets its bursts.
Reset ==
    /\ AllowReset
    /\ state' = "RD_IDLE" /\ started' = FALSE
    /\ read_resp_lasts' = IF started THEN 0 ELSE read_resp_lasts
    /\ mem_ready' = FALSE /\ outstanding' = 0
    /\ UNCHANGED <<p, mem_op_index, offset_addr, ARADDR, guard_ARVALID, end_of_exec,
                   lat_timer, lat_timer_valid, lat_timer_sum,
                   accepted, answered, samples, age, waited>>

Next ==
    \/ \E start, ready, last \in BOOLEAN : Tick(start, ready, last)
    \/ Reset

Spec == Init /\ [][Next]_vars

\* The clock runs; the memory eventually accepts what is offered and answers
\* what it accepted (AXI's only promises).
AcceptTick == guard_ARVALID /\ \E start, last \in BOOLEAN : Tick(start, TRUE, last)
AnswerTick == \E start, ready \in BOOLEAN : Tick(start, ready, TRUE)

LiveSpec ==
    /\ Spec
    /\ WF_vars(\E start, ready, last \in BOOLEAN : Tick(start, ready, last))
    /\ WF_vars(AcceptTick)
    /\ WF_vars(AnswerTick)

-----------------------------------------------------------------------------
TypeOK ==
    /\ state \in States
    /\ started \in BOOLEAN
    /\ p \in Params
    /\ mem_op_index \in Nat
    /\ offset_addr \in 0 .. AddrSpace - 1
    /\ ARADDR \in 0 .. AddrSpace - 1
    /\ guard_ARVALID \in BOOLEAN
    /\ read_resp_lasts \in Nat
    /\ end_of_exec \in BOOLEAN
    /\ lat_timer \in 0 .. LatMod - 1
    /\ lat_timer_valid \in BOOLEAN
    /\ lat_timer_sum \in 0 .. SumMod - 1
    /\ mem_ready \in BOOLEAN
    /\ outstanding \in Nat
    /\ accepted \in Nat
    /\ answered \in Nat
    /\ samples \in Nat
    /\ age \in 0 .. LatMod - 1
    /\ waited \in BOOLEAN

\* When the engine raises end_of_exec, exactly num bursts of this run have been
\* accepted, every one of them has been answered and, in latency mode, timed
\* exactly once - also when start or the reset arrived in the middle of a run.
EndMeansAllAnswered ==
    end_of_exec =>
        /\ accepted = p.num
        /\ answered = p.num
        /\ outstanding = 0
        /\ samples = IF p.lat THEN p.num ELSE 0

\* The engine never has more than num bursts of a run accepted, and none is
\* outstanding while it is idle: nothing a run asked for is answered in the next.
NoStrayBursts ==
    /\ accepted <= p.num
    /\ state = "RD_IDLE" => outstanding = 0

\* The published latency is the number of cycles between the accepting edge and
\* the edge of the last beat, at the timer's 16-bit width.
LatencyIsAge == lat_timer_valid => lat_timer = age

\* In throughput mode an access after the first goes to its own address of the
\* pattern if its offer had to wait, and to its predecessor's if it is accepted
\* in the cycle after the predecessor, with no other outcome: the address
\* register is loaded, in every cycle, from the offset before the advance.  An
\* unstalled run visits 0, 0, 1, 2, ...; a stall after two back-to-back accesses
\* skips an address (0, 0, 2).
Pattern(k) == AddrOf((k * p.stride) % AddrSpace)
AddressByWait ==
    guard_ARVALID /\ state = "RD_TH_VALID" =>
        ARADDR = Pattern(IF waited \/ mem_op_index = 0 THEN mem_op_index ELSE mem_op_index - 1)

\* Whatever the stride, the stalls and the run before, an address on offer lies
\* in the working set the host asked for: wgs bytes from init.
InWorkingSet ==
    guard_ARVALID => \E b \in 0 .. p.wgs - 1 : ARADDR = AddMod(p.init, b, AddrSpace)

\* An address on offer stays on offer until the memory accepts it or the port
\* is reset (AXI: ARVALID is not withdrawn).
ArvalidHeld ==
    [][guard_ARVALID /\ accepted' = accepted /\ mem_ready' /\ mem_ready
           => guard_ARVALID']_vars

\* A run that has begun reaches end_of_exec unless the port is reset or, in
\* throughput mode, start arrives again and clears the response counter.  In
\* latency mode it ends in spite of any number of further starts.
RunEnds ==
    (state = "RD_STARTED") ~>
        \/ end_of_exec
        \/ ~mem_ready
        \/ started /\ state \in {"RD_TH_VALID", "RD_TH_RESP"}

\* sw/src/hbm_test.cpp:44 "Stride length between memory accesses": the k-th
\* access of a run, in either mode, is k strides into the working set.
StrideBetweenAccesses ==
    [][accepted' > accepted => ARADDR = Pattern(mem_op_index)]_vars

\* The engine implements what lt_engine and the host rely on: a run completes
\* exactly num bursts, one by one, and end_of_exec rises when the last of them
\* has been answered, never otherwise; only the reset ends a run early.
Contract == INSTANCE EngineContract WITH
    Nums <- {q.num : q \in Params}, busy <- state # "RD_IDLE", num <- p.num,
    completed <- answered, ended <- end_of_exec
ImplementsContract == Contract!Spec
=============================================================================
