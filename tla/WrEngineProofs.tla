--------------------------- MODULE WrEngineProofs ---------------------------
(***************************************************************************)
(* What WrEngine guarantees for every parameter set and register width,     *)
(* with resets at any time.  Types and addresses need nothing more.  The    *)
(* counting of bursts needs what the host and the memory controller give    *)
(* it: no start while a run is in progress, and data at most one burst      *)
(* ahead of its address (with two, run wr_lead shows an extra burst).       *)
(***************************************************************************)
EXTENDS WrEngine, RegisterTheorems, TLAPS

-----------------------------------------------------------------------------
(***************************************************************************)
(* Types.  burst_inc is compared with AWLEN for equality: it stays within   *)
(* LEN_WIDTH bits only because it never passes AWLEN, also when the         *)
(* parameters change.                                                       *)
(***************************************************************************)
TypeInv == TypeOK /\ burst_inc <= AWLEN

\* A remainder lies below the divisor, also that of burst/BeatBytes - 1 = -1.
LEMMA ModRange ==
    ASSUME NEW m \in Nat \ {0}, NEW x \in Int
    PROVE  x % m \in 0 .. m - 1
  OBVIOUS

\* The fields of the staged parameters and the burst length they give.
LEMMA ParamFields ==
    ASSUME p \in Params
    PROVE  /\ p.wgs \in 1 .. AddrSpace - 1
           /\ p.stride \in 0 .. AddrSpace - 1
           /\ p.num \in Nat /\ p.num > 0
           /\ p.init \in 0 .. AddrSpace - 1
           /\ AWLEN \in 0 .. LenSpace - 1
  <1>1. /\ p.wgs \in 1 .. AddrSpace - 1 /\ p.stride \in 0 .. AddrSpace - 1
        /\ p.num \in Nat /\ p.num > 0 /\ p.init \in 0 .. AddrSpace - 1 /\ p.burst \in Nat
    BY ParamsAssumption
  <1>2. p.burst \div BeatBytes \in Nat
    BY <1>1, WidthAssumption, DivModNat
  <1>3. (p.burst \div BeatBytes) - 1 \in Int
    BY <1>2
  <1>4. AWLEN \in 0 .. LenSpace - 1
    BY <1>3, WidthAssumption, ModRange DEF AWLEN
  <1> QED
    BY <1>1, <1>4

\* The address register's next value (init_addr plus masked offset) fits it.
LEMMA AddrOfType ==
    ASSUME TypeOK
    PROVE  AddrOf(offset_addr) \in 0 .. AddrSpace - 1
  <1>1. /\ p.wgs \in 1 .. AddrSpace - 1 /\ p.init \in 0 .. AddrSpace - 1
        /\ AddrSpace \in Nat /\ offset_addr \in 0 .. AddrSpace - 1
    BY ParamFields, WidthAssumption DEF TypeOK
  <1>2. p.wgs - 1 \in 0 .. AddrSpace - 1
    BY <1>1
  <1>3. BitAnd(offset_addr, p.wgs - 1) \in 0 .. p.wgs - 1
    BY <1>1, <1>2, BitAndAssumption
  <1>4. BitAnd(offset_addr, p.wgs - 1) \in 0 .. AddrSpace - 1
    BY <1>1, <1>3
  <1> QED
    BY <1>1, <1>4, AddModType DEF AddrOf

\* The data block keeps burst_inc within the burst, in every state.
LEMMA DataBlockType ==
    ASSUME TypeInv, NEW wready \in BOOLEAN, DataBlock(wready), p' = p \/ burst_inc' = 0,
           p' \in Params
    PROVE  /\ burst_inc' \in 0 .. LenSpace - 1 /\ burst_inc' <= AWLEN'
           /\ wr_ops' \in Nat /\ wr_data_done' \in BOOLEAN
  <1>1. /\ burst_inc \in 0 .. LenSpace - 1 /\ wr_ops \in Nat /\ wr_data_done \in BOOLEAN
        /\ burst_inc <= AWLEN
    BY DEF TypeInv, TypeOK
  <1>2. AWLEN \in 0 .. LenSpace - 1 /\ LenSpace \in Nat \ {0} /\ p.num \in Nat
    BY ParamFields, WidthAssumption DEF TypeInv, TypeOK
  <1>3. AWLEN' \in 0 .. LenSpace - 1
    <2>1. p'.burst \in Nat
      BY ParamsAssumption
    <2>2. (p'.burst \div BeatBytes) - 1 \in Int
      BY <2>1, WidthAssumption, DivModNat
    <2> QED
      BY <2>2, WidthAssumption, ModRange DEF AWLEN
  <1>4. wr_ops' \in Nat /\ wr_data_done' \in BOOLEAN
    <2>1. wr_ops' \in Nat
      BY <1>1 DEF DataBlock, CountBeat, data
    <2>2. CASE UNCHANGED wr_data_done
      BY <1>1, <2>1, <2>2
    <2>3. CASE wr_data_done' = (wr_data_done \/ LastBurst)
      BY <2>1, <2>3
    <2>4. CASE wr_data_done' = FALSE
      BY <2>1, <2>4
    <2> QED
      BY <2>2, <2>3, <2>4 DEF DataBlock, CountBeat, data
  <1>5. burst_inc' \in 0 .. LenSpace - 1 /\ burst_inc' <= AWLEN
    BY <1>1, <1>2 DEF DataBlock, CountBeat, data
  <1>6. p' = p => AWLEN' = AWLEN
    BY DEF AWLEN
  <1> QED
    BY <1>2, <1>3, <1>4, <1>5, <1>6

\* What the FSM does to its registers' types.
LEMMA FsmType ==
    ASSUME TypeInv, NEW awready \in BOOLEAN, Fsm(awready)
    PROVE  /\ state' \in States /\ p' \in Params
           /\ is_in_progress' \in BOOLEAN /\ guard_AWVALID' \in BOOLEAN
           /\ guard_WVALID' \in BOOLEAN /\ end_of_exec' \in BOOLEAN
           /\ mem_op_index' \in Nat /\ lat_timer_sum' \in 0 .. SumMod - 1
           /\ offset_addr' \in 0 .. AddrSpace - 1 /\ AWADDR' \in 0 .. AddrSpace - 1
  <1> USE DEF TypeInv
  <1>1. /\ AddrOf(offset_addr) \in 0 .. AddrSpace - 1
        /\ AddMod(offset_addr, p.stride, AddrSpace) \in 0 .. AddrSpace - 1
        /\ AddMod(lat_timer_sum, 1, SumMod) \in 0 .. SumMod - 1
        /\ 0 \in 0 .. AddrSpace - 1 /\ 0 \in 0 .. SumMod - 1
    <2>1. /\ p \in Params /\ offset_addr \in 0 .. AddrSpace - 1
          /\ lat_timer_sum \in 0 .. SumMod - 1
      BY DEF TypeOK
    <2>2. /\ AddrSpace \in Nat /\ SumMod \in Nat /\ 1 \in 0 .. SumMod - 1
          /\ 0 \in 0 .. AddrSpace - 1 /\ 0 \in 0 .. SumMod - 1
      BY WidthAssumption
    <2>3. p.stride \in 0 .. AddrSpace - 1
      BY <2>1, ParamFields
    <2>4. AddrOf(offset_addr) \in 0 .. AddrSpace - 1
      BY AddrOfType
    <2> QED
      BY <2>1, <2>2, <2>3, <2>4, AddModType
  <1>2. CASE WrIdle
    BY <1>2 DEF WrIdle, TypeOK, States
  <1>3. CASE WrStarted
    BY <1>1, <1>3 DEF WrStarted, TypeOK, States
  <1>4. CASE WrThValid(awready)
    <2> USE <1>4 DEF WrThValid
    <2>1. mem_op_index' \in Nat /\ p' \in Params /\ is_in_progress' \in BOOLEAN
      BY DEF TypeOK
    <2>2. state' \in States
      BY DEF TypeOK, States
    <2>3. guard_AWVALID' \in BOOLEAN /\ guard_WVALID' \in BOOLEAN /\ end_of_exec' \in BOOLEAN
      OBVIOUS
    <2>4. /\ offset_addr' \in 0 .. AddrSpace - 1 /\ AWADDR' \in 0 .. AddrSpace - 1
          /\ lat_timer_sum' \in 0 .. SumMod - 1
      BY <1>1 DEF LoadAddress, SumTick, TypeOK
    <2> QED
      BY <2>1, <2>2, <2>3, <2>4
  <1>5. CASE WrThData
    BY <1>1, <1>5 DEF WrThData, SumTick, TypeOK, States
  <1>6. CASE WrEnd
    BY <1>1, <1>6 DEF WrEnd, SumTick, TypeOK, States
  <1> QED
    BY <1>2, <1>3, <1>4, <1>5, <1>6 DEF Fsm

\* The parameters change only at the edge that stages a run, and the data block
\* clears its counters at that same edge.
LEMMA NewParamsClear ==
    ASSUME NEW awready \in BOOLEAN, NEW wready \in BOOLEAN, Fsm(awready), DataBlock(wready)
    PROVE  p' = p \/ burst_inc' = 0
  BY DEF Fsm, WrIdle, WrStarted, WrThValid, WrThData, WrEnd, DataBlock

\* A step of the engine keeps every type.
LEMMA NextType == TypeInv /\ [Next]_vars => TypeInv'
  <1> SUFFICES ASSUME TypeInv, [Next]_vars PROVE TypeInv'
    OBVIOUS
  <1>1. CASE Reset
    <2>1. burst_inc' \in 0 .. LenSpace - 1 /\ burst_inc' <= AWLEN'
      BY <1>1, ParamFields, WidthAssumption DEF Reset, TypeInv, TypeOK, AWLEN
    <2>2. /\ started' \in BOOLEAN /\ is_in_progress' \in BOOLEAN /\ guard_AWVALID' \in BOOLEAN
          /\ guard_WVALID' \in BOOLEAN /\ wr_data_done' \in BOOLEAN /\ end_of_exec' \in BOOLEAN
          /\ mem_ready' \in BOOLEAN
      BY <1>1 DEF Reset, TypeInv, TypeOK
    <2>3. state' \in States
      BY <1>1 DEF Reset, States
    <2> QED
      BY <1>1, <2>1, <2>2, <2>3 DEF Reset, TypeInv, TypeOK
  <1>2. CASE UNCHANGED vars
    BY <1>2 DEF vars, fsm, data, memory, TypeInv, TypeOK, AWLEN
  <1>3. CASE \E start, awready, wready \in BOOLEAN : Tick(start, awready, wready)
    <2>1. PICK start, awready, wready \in BOOLEAN : Tick(start, awready, wready)
      BY <1>3
    <2>2. Fsm(awready) /\ DataBlock(wready) /\ Memory(awready, wready) /\ started' = start
      BY <2>1 DEF Tick
    <2>3. /\ burst_inc' \in 0 .. LenSpace - 1 /\ burst_inc' <= AWLEN'
          /\ wr_ops' \in Nat /\ wr_data_done' \in BOOLEAN
      BY <2>2, FsmType, NewParamsClear, DataBlockType
    <2>4. /\ mem_ready' \in BOOLEAN /\ addresses' \in Nat /\ bursts' \in Nat /\ beats' \in Nat
      BY <2>2 DEF Memory, One, TypeInv, TypeOK
    <2> QED
      BY <2>2, <2>3, <2>4, FsmType DEF TypeInv, TypeOK
  <1> QED
    BY <1>1, <1>2, <1>3 DEF Next

\* The power-up values have their types.
LEMMA InitType == Init => TypeInv
  <1> SUFFICES ASSUME Init PROVE TypeInv
    OBVIOUS
  <1>1. 0 \in 0 .. AddrSpace - 1 /\ 0 \in 0 .. LenSpace - 1 /\ 0 \in 0 .. SumMod - 1
    BY WidthAssumption
  <1>2. AWLEN \in 0 .. LenSpace - 1
    BY ParamFields DEF Init
  <1>3. {started, is_in_progress, guard_AWVALID, guard_WVALID, wr_data_done,
         end_of_exec, mem_ready} \subseteq BOOLEAN
    BY DEF Init
  <1> QED
    BY <1>1, <1>2, <1>3 DEF Init, TypeInv, TypeOK, States

\* The types, and the bound on burst_inc, hold in every state.
THEOREM TypeInvariance == Spec => []TypeInv
  BY InitType, NextType, PTL DEF Spec

\* Registers, counters and addresses keep their types and widths, whatever the
\* memory does and whenever start and reset arrive.
THEOREM TypeCorrect == Spec => []TypeOK
  <1>1. TypeInv => TypeOK
    BY DEF TypeInv
  <1> QED
    BY TypeInvariance, <1>1, PTL

-----------------------------------------------------------------------------
(***************************************************************************)
(* The inductive invariant: what the FSM, the data block and the memory     *)
(* know of each other.                                                      *)
(***************************************************************************)
Active == {"WR_TH_VALID", "WR_TH_DATA", "WR_END"}

\* Something is on offer only during a run, or frozen by a reset at a port that
\* cannot accept it yet; a start finds the engine idle.
OfferInv ==
    /\ guard_AWVALID => state = "WR_TH_VALID" \/ (state = "WR_IDLE" /\ ~mem_ready)
    /\ guard_WVALID => state \in Active \/ (state = "WR_IDLE" /\ ~mem_ready)
    /\ is_in_progress <=> state \in Active
    /\ started => state = "WR_IDLE"

AddressInv ==
    /\ addresses <= p.num
    /\ state = "WR_STARTED" => addresses = 0
    /\ state \in Active => mem_op_index = addresses
    /\ state = "WR_TH_VALID" => addresses < p.num
    /\ state \in {"WR_TH_DATA", "WR_END"} => addresses = p.num

\* Until all bursts are out the data block counts what the memory takes; it may
\* count one burst more, but then the guard falls with that very edge.
DataInv ==
    /\ bursts <= p.num
    /\ state = "WR_STARTED" =>
          bursts = 0 /\ beats = 0 /\ wr_ops = 0 /\ burst_inc = 0 /\ ~wr_data_done
    /\ state \in Active /\ ~wr_data_done => wr_ops < p.num /\ bursts = wr_ops /\ beats = burst_inc
    /\ state \in Active /\ wr_data_done => wr_ops >= p.num /\ bursts = p.num /\ beats = 0
    /\ state \in {"WR_TH_VALID", "WR_TH_DATA"} => wr_ops <= p.num
    /\ state = "WR_END" => wr_data_done /\ (wr_ops # p.num => ~guard_WVALID)

EndInv == end_of_exec => state = "WR_IDLE" /\ EndMeansAllSent

CountInv == OfferInv /\ AddressInv /\ DataInv /\ EndInv
IndInv == TypeInv /\ CountInv

\* The two things the counting rests on.
CountingAssumed == WLead <= 1 /\ AllowRestart = FALSE

\* What one clock edge does to the port, whatever the FSM state.
LEMMA TickFacts ==
    ASSUME CountingAssumed, IndInv,
           NEW start \in BOOLEAN, NEW awready \in BOOLEAN, NEW wready \in BOOLEAN,
           Tick(start, awready, wready)
    PROVE  /\ Fsm(awready)
           /\ mem_ready' = TRUE
           /\ started' => state = "WR_IDLE" /\ ~started
           /\ Handshake(awready) => state = "WR_TH_VALID"
           /\ wready => bursts <= addresses
           /\ wready /\ guard_WVALID => state \in Active
           /\ ~NewRun /\ Handshake(awready) => addresses' = addresses + 1
           /\ ~NewRun /\ ~Handshake(awready) => addresses' = addresses
           /\ NewRun => addresses' = 0 /\ bursts' = 0 /\ beats' = 0
  <1> USE DEF IndInv, TypeInv, CountInv
  <1>1. /\ addresses \in Nat /\ bursts \in Nat /\ mem_ready \in BOOLEAN /\ WLead \in Nat
        /\ guard_AWVALID \in BOOLEAN /\ guard_WVALID \in BOOLEAN
    BY SwitchAssumption DEF TypeOK
  <1>2. Fsm(awready) /\ Memory(awready, wready) /\ StartAllowed(start) /\ started' = start
    BY DEF Tick
  <1>3. mem_ready' = TRUE /\ (started' => state = "WR_IDLE" /\ ~started)
    BY <1>2 DEF Memory, StartAllowed, CountingAssumed
  <1>4. Handshake(awready) => state = "WR_TH_VALID"
    BY <1>2 DEF Handshake, AWVALID, Memory, OfferInv
  <1>5. wready => bursts <= addresses
    BY <1>1, <1>2 DEF Memory, CountingAssumed
  <1>6. wready /\ guard_WVALID => state \in Active
    BY <1>2 DEF Memory, OfferInv
  <1>7. /\ ~NewRun /\ Handshake(awready) => addresses' = addresses + 1
        /\ ~NewRun /\ ~Handshake(awready) => addresses' = addresses
        /\ NewRun => addresses' = 0 /\ bursts' = 0 /\ beats' = 0
    BY <1>1, <1>2 DEF Memory, One
  <1> QED
    BY <1>2, <1>3, <1>4, <1>5, <1>6, <1>7

\* What one clock edge does to the data channel: a beat is taken, or the data
\* block counts a beat that was not on offer, or nothing happens.
LEMMA DataFacts ==
    ASSUME CountingAssumed, IndInv,
           NEW start \in BOOLEAN, NEW awready \in BOOLEAN, NEW wready \in BOOLEAN,
           Tick(start, awready, wready), ~started
    PROVE  \/ /\ state \in Active /\ ~wr_data_done /\ guard_WVALID
              /\ bursts <= addresses
              /\ beats = AWLEN
              /\ burst_inc' = 0 /\ wr_ops' = wr_ops + 1
              /\ wr_data_done' <=> wr_ops' = p.num
              /\ bursts' = bursts + 1 /\ beats' = 0
           \/ /\ state \in Active /\ ~wr_data_done /\ guard_WVALID
              /\ beats # AWLEN
              /\ burst_inc' = burst_inc + 1 /\ wr_ops' = wr_ops /\ ~wr_data_done'
              /\ bursts' = bursts /\ beats' = beats + 1
           \/ /\ state \in Active /\ wr_data_done /\ guard_WVALID
              /\ bursts <= addresses
              /\ wr_ops' \in {wr_ops, wr_ops + 1} /\ wr_data_done'
              /\ bursts' = bursts /\ beats' = beats
           \/ /\ burst_inc' = burst_inc /\ wr_ops' = wr_ops /\ wr_data_done' = wr_data_done
              /\ bursts' = bursts /\ beats' = beats
  <1> USE DEF IndInv, TypeInv, CountInv
  <1>1. /\ wr_ops \in Nat /\ bursts \in Nat /\ beats \in Nat /\ burst_inc \in Nat
        /\ wr_data_done \in BOOLEAN /\ guard_WVALID \in BOOLEAN /\ p.num \in Nat
        /\ LenSpace \in Nat \ {0}
    BY ParamFields, WidthAssumption DEF TypeOK
  <1>2. /\ Memory(awready, wready) /\ DataBlock(wready) /\ ~NewRun
        /\ wready => bursts <= addresses
        /\ wready /\ guard_WVALID => state \in Active
    BY TickFacts DEF Tick, NewRun
  <1>3. CASE ~(wready /\ guard_WVALID)
    <2>1. burst_inc' = burst_inc /\ wr_ops' = wr_ops /\ wr_data_done' = wr_data_done
      BY <1>2, <1>3 DEF DataBlock, CountBeat, data
    <2>2. bursts' = bursts /\ beats' = beats
      BY <1>1, <1>2, <1>3 DEF Memory, WVALID, One
    <2> QED
      BY <2>1, <2>2
  <1>4. CASE wready /\ guard_WVALID
    <2>1. state \in Active /\ is_in_progress /\ bursts <= addresses /\ CountBeat(wready)
      BY <1>2, <1>4 DEF OfferInv, DataBlock
    <2>2. CASE wr_data_done
      <3>1. /\ wr_ops' \in {wr_ops, wr_ops + 1}
        BY <2>1 DEF CountBeat
      <3>2. wr_data_done'
        BY <2>1, <2>2 DEF CountBeat
      <3>3. ~WVALID
        BY <1>1, <1>4, <2>1, <2>2 DEF WVALID, DataInv, Active
      <3>4. bursts' = bursts /\ beats' = beats
        BY <1>1, <1>2, <3>3 DEF Memory, One
      <3> QED
        BY <1>4, <2>1, <2>2, <3>1, <3>2, <3>4
    <2>3. CASE ~wr_data_done
      <3>1. WVALID /\ beats = burst_inc /\ wr_ops < p.num
        BY <1>1, <1>4, <2>1, <2>3 DEF WVALID, DataInv
      <3>2. CASE burst_inc = AWLEN
        <4>1. /\ burst_inc' = 0 /\ wr_ops' = wr_ops + 1
              /\ wr_data_done' = (wr_data_done \/ LastBurst)
          BY <2>1, <3>2 DEF CountBeat
        <4>2. wr_data_done' <=> wr_ops' = p.num
          <5>1. LastBurst <=> wr_ops' = p.num
            BY <1>1, <4>1 DEF LastBurst
          <5> QED
            BY <2>3, <4>1, <5>1
        <4>3. bursts' = bursts + 1 /\ beats' = 0
          BY <1>1, <1>2, <1>4, <3>1, <3>2 DEF Memory, WLAST, One
        <4> QED
          BY <1>4, <2>1, <2>3, <3>1, <3>2, <4>1, <4>2, <4>3
      <3>3. CASE burst_inc # AWLEN
        <4>1. burst_inc' = burst_inc + 1 /\ wr_ops' = wr_ops /\ wr_data_done' = wr_data_done
          BY <2>1, <3>3 DEF CountBeat
        <4>2. bursts' = bursts /\ beats' = beats + 1
          BY <1>1, <1>2, <1>4, <3>1, <3>3 DEF Memory, WLAST, One
        <4> QED
          BY <1>4, <2>1, <2>3, <3>1, <3>3, <4>1, <4>2
      <3> QED
        BY <3>2, <3>3
    <2> QED
      BY <1>1, <2>2, <2>3
  <1> QED
    BY <1>3, <1>4

\* A clock edge preserves the invariant: one step per FSM state.
LEMMA TickInv ==
    ASSUME CountingAssumed, IndInv,
           NEW start \in BOOLEAN, NEW awready \in BOOLEAN, NEW wready \in BOOLEAN,
           Tick(start, awready, wready), TypeInv'
    PROVE  CountInv'
  <1>1. /\ wr_ops \in Nat /\ bursts \in Nat /\ beats \in Nat /\ burst_inc \in Nat
        /\ addresses \in Nat /\ mem_op_index \in Nat
        /\ p.num \in Nat /\ p.num > 0 /\ p'.num \in Nat /\ p'.num > 0
        /\ LenSpace \in Nat \ {0}
    BY ParamFields, WidthAssumption, ParamsAssumption DEF IndInv, TypeInv, TypeOK
  <1>2. /\ wr_data_done \in BOOLEAN /\ started \in BOOLEAN /\ end_of_exec \in BOOLEAN
        /\ state \in States
    BY DEF IndInv, TypeInv, TypeOK
  <1>3. /\ Fsm(awready)
        /\ mem_ready' = TRUE
        /\ started' => state = "WR_IDLE" /\ ~started
        /\ Handshake(awready) => state = "WR_TH_VALID"
        /\ ~NewRun /\ Handshake(awready) => addresses' = addresses + 1
        /\ ~NewRun /\ ~Handshake(awready) => addresses' = addresses
        /\ NewRun => addresses' = 0 /\ bursts' = 0 /\ beats' = 0
    BY TickFacts
  <1>4. /\ OfferInv /\ AddressInv /\ DataInv /\ EndInv
    BY DEF IndInv, CountInv
  <1>5. CASE WrIdle
    <2> USE <1>5 DEF WrIdle
    <2>1. OfferInv'
      BY <1>3, <1>4 DEF OfferInv, Active
    <2>2. EndInv'
      BY DEF EndInv
    <2>3. CASE started
      <3>1. NewRun /\ state' = "WR_STARTED"
        BY <2>3 DEF NewRun
      <3>2. burst_inc' = 0 /\ wr_ops' = 0 /\ wr_data_done' = FALSE
        BY <2>3 DEF Tick, DataBlock
      <3> QED
        BY <1>1, <1>3, <2>1, <2>2, <3>1, <3>2 DEF CountInv, AddressInv, DataInv, Active
    <2>4. CASE ~started
      <3>1. ~NewRun /\ state' = "WR_IDLE" /\ p' = p
        BY <2>4 DEF NewRun
      <3>2. addresses' = addresses
        BY <1>3, <3>1
      <3>3. bursts' = bursts
        BY <2>4, DataFacts DEF Active
      <3> QED
        BY <1>4, <2>1, <2>2, <3>1, <3>2, <3>3 DEF CountInv, AddressInv, DataInv, Active
    <2> QED
      BY <1>2, <2>3, <2>4
  <1>6. CASE WrStarted
    <2>1. /\ state = "WR_STARTED" /\ state' = "WR_TH_VALID" /\ p' = p /\ mem_op_index' = 0
          /\ guard_AWVALID' = FALSE /\ guard_WVALID' = FALSE /\ is_in_progress' = TRUE
          /\ end_of_exec' = FALSE
      BY <1>6 DEF WrStarted
    <2>2. ~started /\ ~NewRun /\ ~started'
      BY <1>3, <1>4, <2>1 DEF OfferInv, NewRun
    <2>3. addresses' = addresses
      BY <1>3, <2>1, <2>2
    <2>4. /\ burst_inc' = burst_inc /\ wr_ops' = wr_ops /\ wr_data_done' = wr_data_done
          /\ bursts' = bursts /\ beats' = beats
      BY <2>1, <2>2, DataFacts DEF Active
    <2> QED
      BY <1>1, <1>4, <2>1, <2>2, <2>3, <2>4
         DEF CountInv, OfferInv, AddressInv, DataInv, EndInv, Active
  <1>7. CASE WrThValid(awready)
    <2>1. /\ state = "WR_TH_VALID" /\ p' = p /\ is_in_progress' = is_in_progress
          /\ end_of_exec' = FALSE /\ guard_WVALID' = TRUE
      BY <1>7 DEF WrThValid
    <2>2. ~started /\ ~NewRun /\ ~started' /\ is_in_progress
      BY <1>3, <1>4, <2>1 DEF OfferInv, NewRun, Active
    <2>3. /\ addresses < p.num /\ mem_op_index = addresses /\ wr_ops <= p.num
          /\ ~wr_data_done => wr_ops < p.num /\ bursts = wr_ops /\ beats = burst_inc
          /\ wr_data_done => wr_ops >= p.num /\ bursts = p.num /\ beats = 0
      BY <1>4, <2>1 DEF AddressInv, DataInv, Active
    <2>4. \/ Handshake(awready) /\ addresses' = addresses + 1 /\ mem_op_index' = mem_op_index + 1
          \/ ~Handshake(awready) /\ addresses' = addresses /\ mem_op_index' = mem_op_index
      BY <1>3, <1>7, <2>2 DEF WrThValid
    <2>5. /\ state' \in Active
          /\ state' = "WR_TH_VALID" => addresses' < p.num
          /\ state' # "WR_TH_VALID" => addresses' = p.num /\ guard_AWVALID' = FALSE
          /\ state' = "WR_END" => wr_data_done
      <3>1. CASE Handshake(awready) /\ LastAddress
        <4>1. guard_AWVALID' = FALSE /\ state' \in {"WR_END", "WR_TH_DATA"}
              /\ (state' = "WR_END" => wr_data_done)
          BY <1>2, <1>7, <3>1 DEF WrThValid
        <4>2. addresses' = p.num
          BY <1>1, <2>3, <2>4, <3>1 DEF LastAddress
        <4> QED
          BY <4>1, <4>2 DEF Active
      <3>2. CASE Handshake(awready) /\ ~LastAddress
        <4>1. state' = "WR_TH_VALID"
          BY <1>7, <3>2 DEF WrThValid
        <4>2. addresses' < p.num
          BY <1>1, <2>3, <2>4, <3>2 DEF LastAddress
        <4> QED
          BY <4>1, <4>2 DEF Active
      <3>3. CASE ~Handshake(awready)
        <4>1. state' = "WR_TH_VALID"
          BY <1>7, <3>3 DEF WrThValid
        <4> QED
          BY <2>3, <2>4, <3>3, <4>1 DEF Active
      <3> QED
        BY <3>1, <3>2, <3>3
    <2>6. /\ wr_ops' <= p.num /\ bursts' <= p.num
          /\ ~wr_data_done' => wr_ops' < p.num /\ bursts' = wr_ops' /\ beats' = burst_inc'
          /\ wr_data_done' => wr_ops' >= p.num /\ bursts' = p.num /\ beats' = 0
          /\ wr_data_done => wr_data_done' /\ wr_ops' = p.num
      BY <1>1, <1>2, <2>2, <2>3, DataFacts
    <2>7. OfferInv'
      BY <2>1, <2>2, <2>5 DEF OfferInv
    <2>8. AddressInv'
      BY <1>1, <2>1, <2>3, <2>4, <2>5 DEF AddressInv, Active
    <2>9. DataInv'
      BY <2>1, <2>5, <2>6 DEF DataInv, Active
    <2> QED
      BY <2>1, <2>7, <2>8, <2>9 DEF CountInv, EndInv
  <1>8. CASE WrThData
    <2>1. /\ state = "WR_TH_DATA" /\ p' = p /\ is_in_progress' = is_in_progress
          /\ end_of_exec' = FALSE /\ guard_AWVALID' = FALSE /\ guard_WVALID' = ~wr_data_done
          /\ mem_op_index' = mem_op_index
          /\ state' = IF wr_data_done THEN "WR_END" ELSE "WR_TH_DATA"
      BY <1>8 DEF WrThData
    <2>2. ~started /\ ~NewRun /\ ~started' /\ is_in_progress
      BY <1>3, <1>4, <2>1 DEF OfferInv, NewRun, Active
    <2>3. /\ addresses = p.num /\ mem_op_index = addresses /\ wr_ops <= p.num
          /\ ~wr_data_done => wr_ops < p.num /\ bursts = wr_ops /\ beats = burst_inc
          /\ wr_data_done => wr_ops >= p.num /\ bursts = p.num /\ beats = 0
      BY <1>4, <2>1 DEF AddressInv, DataInv, Active
    <2>4. addresses' = addresses
      BY <1>3, <2>1, <2>2
    <2>5. /\ bursts' <= p.num
          /\ ~wr_data_done' => wr_ops' < p.num /\ bursts' = wr_ops' /\ beats' = burst_inc'
          /\ wr_data_done' => wr_ops' >= p.num /\ bursts' = p.num /\ beats' = 0
          /\ wr_data_done => wr_data_done'
          /\ ~wr_data_done => wr_ops' <= p.num
      BY <1>1, <1>2, <2>2, <2>3, DataFacts
    <2>6. OfferInv'
      BY <1>2, <2>1, <2>2 DEF OfferInv, Active
    <2>7. AddressInv'
      BY <1>1, <1>2, <2>1, <2>3, <2>4 DEF AddressInv, Active
    <2>8. DataInv'
      BY <1>2, <2>1, <2>5 DEF DataInv, Active
    <2> QED
      BY <2>1, <2>6, <2>7, <2>8 DEF CountInv, EndInv
  <1>9. CASE WrEnd
    <2>1. /\ state = "WR_END" /\ state' = "WR_IDLE" /\ p' = p /\ is_in_progress' = FALSE
          /\ guard_AWVALID' = FALSE /\ guard_WVALID' = FALSE
      BY <1>9 DEF WrEnd
    <2>2. ~started /\ ~NewRun /\ ~started'
      BY <1>3, <1>4, <2>1 DEF OfferInv, NewRun, Active
    <2>3. addresses = p.num /\ bursts = p.num /\ beats = 0 /\ wr_data_done
      BY <1>4, <2>1 DEF AddressInv, DataInv, Active
    <2>4. addresses' = p.num
      BY <1>3, <2>1, <2>2, <2>3
    <2>5. bursts' = p.num /\ beats' = 0
      BY <2>2, <2>3, DataFacts
    <2> QED
      BY <1>1, <2>1, <2>2, <2>4, <2>5
         DEF CountInv, OfferInv, AddressInv, DataInv, EndInv, EndMeansAllSent, Active
  <1> QED
    BY <1>3, <1>5, <1>6, <1>7, <1>8, <1>9 DEF Fsm

\* A cycle with rst_n low preserves the invariant, although it leaves the guards
\* and end_of_exec as they were.
LEMMA ResetInv == IndInv /\ Reset => CountInv'
  <1> SUFFICES ASSUME IndInv, Reset PROVE CountInv'
    OBVIOUS
  <1> USE DEF IndInv, CountInv, Reset
  <1>1. OfferInv'
    BY DEF OfferInv, Active
  <1>2. AddressInv' /\ DataInv'
    BY DEF AddressInv, DataInv, Active
  <1>3. EndInv'
    BY DEF EndInv, EndMeansAllSent
  <1> QED
    BY <1>1, <1>2, <1>3

\* The inductive invariant holds in every state the engine reaches.
THEOREM Invariance == ASSUME CountingAssumed PROVE Spec => []IndInv
  <1>1. Init => IndInv
    <2> SUFFICES ASSUME Init PROVE IndInv
      OBVIOUS
    <2>1. TypeInv
      BY InitType
    <2>2. p.num \in Nat /\ p.num > 0
      BY ParamFields DEF Init
    <2> QED
      BY <2>1, <2>2
         DEF Init, IndInv, CountInv, OfferInv, AddressInv, DataInv, EndInv, Active
  <1>2. IndInv /\ [Next]_vars => IndInv'
    <2> SUFFICES ASSUME IndInv, [Next]_vars PROVE IndInv'
      OBVIOUS
    <2>1. TypeInv'
      BY NextType DEF IndInv
    <2>2. CASE UNCHANGED vars
      BY <2>1, <2>2 DEF vars, fsm, data, memory, IndInv, CountInv, OfferInv, AddressInv, DataInv,
                        EndInv, EndMeansAllSent
    <2> QED
      BY <2>1, <2>2, TickInv, ResetInv DEF Next, IndInv
  <1> QED
    BY <1>1, <1>2, PTL DEF Spec

-----------------------------------------------------------------------------
\* end_of_exec is raised only when the two channels have met: num addresses and
\* num whole bursts have been taken, in whichever order they left (WR_TH_DATA).
THEOREM EndIsComplete == ASSUME CountingAssumed PROVE Spec => []EndMeansAllSent
  <1>1. IndInv => EndMeansAllSent
    BY DEF IndInv, CountInv, EndInv, EndMeansAllSent
  <1> QED
    BY Invariance, <1>1, PTL

\* No run sends more than it was asked for, although the data block counts past
\* num and WVALID compares with "!=".
THEOREM BurstsStayInRun == ASSUME CountingAssumed PROVE Spec => []NoExtraBursts
  <1>1. IndInv => NoExtraBursts
    BY DEF IndInv, CountInv, AddressInv, DataInv, NoExtraBursts
  <1> QED
    BY Invariance, <1>1, PTL

\* WLAST marks the last beat of every burst the memory sees and no other.
THEOREM LastBeatIsMarked == ASSUME CountingAssumed PROVE Spec => []LastBeatMarked
  <1>1. IndInv => LastBeatMarked
    <2> SUFFICES ASSUME IndInv, mem_ready, WVALID PROVE WLAST <=> beats = AWLEN
      BY DEF LastBeatMarked
    <2>1. wr_ops \in Nat /\ p.num \in Nat /\ wr_data_done \in BOOLEAN
      BY ParamFields DEF IndInv, TypeInv, TypeOK
    <2>2. state \in Active /\ ~wr_data_done
      BY <2>1 DEF IndInv, CountInv, OfferInv, DataInv, WVALID, Active
    <2> QED
      BY <2>2 DEF IndInv, CountInv, DataInv, WVALID, WLAST
  <1> QED
    BY Invariance, <1>1, PTL

\* Neither AWVALID nor WVALID is withdrawn from a memory that is out of reset.
THEOREM OffersAreHeld == ASSUME CountingAssumed PROVE Spec => ValidHeld
  <1> DEFINE Held == mem_ready /\ mem_ready' =>
                        /\ AWVALID /\ addresses' = addresses => AWVALID'
                        /\ WVALID /\ bursts' = bursts /\ beats' = beats => WVALID'
  <1>1. IndInv /\ Next => Held
    <2> SUFFICES ASSUME IndInv, Next, mem_ready, mem_ready'
                 PROVE  /\ AWVALID /\ addresses' = addresses => AWVALID'
                        /\ WVALID /\ bursts' = bursts /\ beats' = beats => WVALID'
      OBVIOUS
    <2>1. PICK start, awready, wready \in BOOLEAN : Tick(start, awready, wready)
      BY DEF Next, Reset
    <2>2. /\ wr_ops \in Nat /\ p.num \in Nat /\ wr_data_done \in BOOLEAN /\ addresses \in Nat
          /\ bursts \in Nat /\ beats \in Nat
      BY ParamFields DEF IndInv, TypeInv, TypeOK
    <2>3. ASSUME AWVALID, addresses' = addresses PROVE AWVALID'
      <3>1. state = "WR_TH_VALID" /\ ~NewRun
        BY <2>3 DEF AWVALID, IndInv, CountInv, OfferInv, NewRun
      <3>2. ~Handshake(awready)
        BY <2>1, <2>2, <2>3, <3>1, TickFacts
      <3>3. WrThValid(awready)
        BY <2>1, <3>1 DEF Tick, Fsm, WrIdle, WrStarted, WrThData, WrEnd
      <3> QED
        BY <3>2, <3>3 DEF WrThValid, AWVALID
    <2>4. ASSUME WVALID, bursts' = bursts, beats' = beats PROVE WVALID'
      <3>1. state \in {"WR_TH_VALID", "WR_TH_DATA"} /\ ~wr_data_done /\ ~started
        BY <2>2, <2>4 DEF WVALID, IndInv, CountInv, OfferInv, DataInv, Active
      <3>2. wr_ops' = wr_ops
        BY <2>1, <2>2, <2>4, <3>1, DataFacts
      <3>3. WrThValid(awready) \/ WrThData
        BY <2>1, <3>1 DEF Tick, Fsm, WrIdle, WrStarted, WrEnd
      <3>4. p' = p /\ guard_WVALID'
        BY <3>1, <3>3 DEF WrThValid, WrThData
      <3> QED
        BY <2>4, <3>2, <3>4 DEF WVALID
    <2> QED
      BY <2>3, <2>4
  <1>2. IndInv /\ [Next]_vars => [Held]_vars
    BY <1>1
  <1> QED
    BY Invariance, <1>2, PTL DEF Spec, ValidHeld

-----------------------------------------------------------------------------
\* While addresses are issued the offset register is mem_op_index strides.
AddrInv ==
    /\ state = "WR_TH_VALID" => offset_addr = (mem_op_index * p.stride) % AddrSpace
    /\ AddressLagsByOne

\* The address on offer belongs to the current access or to the one before it,
\* whatever AWREADY does, also with starts in the middle of a run.  Addresses are
\* therefore issued twice and, after a stall, skipped, but never run ahead.
THEOREM AddressesInOrder == Spec => []AddressLagsByOne
  <1>1. Init => AddrInv
    BY DEF Init, AddrInv, AddressLagsByOne
  <1>2. TypeInv /\ AddrInv /\ [Next]_vars => AddrInv'
    <2> SUFFICES ASSUME TypeInv, AddrInv, [Next]_vars PROVE AddrInv'
      OBVIOUS
    <2>1. /\ mem_op_index \in Nat /\ AddrSpace \in Nat \ {0}
          /\ p.stride \in 0 .. AddrSpace - 1
      BY ParamFields, WidthAssumption DEF TypeInv, TypeOK
    <2>2. CASE Reset
      BY <2>2 DEF Reset, AddrInv, AddressLagsByOne
    <2>3. CASE UNCHANGED vars
      BY <2>3 DEF vars, fsm, AddrInv, AddressLagsByOne, Pattern, AddrOf, AWVALID
    <2>4. CASE \E start, awready, wready \in BOOLEAN : Tick(start, awready, wready)
      <3>1. PICK start, awready, wready \in BOOLEAN : Tick(start, awready, wready)
        BY <2>4
      <3>2. CASE WrThValid(awready) /\ state' = "WR_TH_VALID"
        <4>1. /\ offset_addr = (mem_op_index * p.stride) % AddrSpace
              /\ p' = p /\ AWADDR' = Pattern(mem_op_index)
          BY <3>2 DEF AddrInv, WrThValid, LoadAddress, Pattern
        <4>2. CASE Handshake(awready)
          <5>1. /\ mem_op_index' = mem_op_index + 1
                /\ offset_addr' = AddMod(offset_addr, p.stride, AddrSpace)
            BY <3>2, <4>2 DEF WrThValid
          <5>2. offset_addr' = (mem_op_index' * p.stride) % AddrSpace
            BY <2>1, <4>1, <5>1, StrideStep
          <5>3. mem_op_index' > 0 /\ mem_op_index' - 1 = mem_op_index
            BY <2>1, <5>1
          <5>4. AWADDR' = AddMod(p'.init, BitAnd(((mem_op_index' - 1) * p'.stride) % AddrSpace,
                                                 p'.wgs - 1), AddrSpace)
            BY <4>1, <5>3 DEF Pattern, AddrOf
          <5> QED
            BY <4>1, <5>2, <5>3, <5>4 DEF AddrInv, AddressLagsByOne, Pattern, AddrOf
        <4>3. CASE ~Handshake(awready)
          <5>1. mem_op_index' = mem_op_index /\ offset_addr' = offset_addr
            BY <3>2, <4>3 DEF WrThValid
          <5> QED
            BY <4>1, <5>1 DEF AddrInv, AddressLagsByOne, Pattern, AddrOf
        <4> QED
          BY <4>2, <4>3
      <3>3. CASE WrStarted
        <4>1. offset_addr' = 0 /\ mem_op_index' = 0 /\ p' = p /\ ~guard_AWVALID'
          BY <3>3 DEF WrStarted
        <4>2. (0 * p.stride) % AddrSpace = 0
          BY <2>1
        <4> QED
          BY <4>1, <4>2 DEF AddrInv, AddressLagsByOne, AWVALID
      <3>4. CASE state' # "WR_TH_VALID"
        BY <3>4 DEF AddrInv, AddressLagsByOne
      <3> QED
        BY <3>1, <3>2, <3>3, <3>4 DEF Tick, Fsm, WrIdle, WrThData, WrEnd
    <2> QED
      BY <2>2, <2>3, <2>4 DEF Next
  <1>3. AddrInv => AddressLagsByOne
    BY DEF AddrInv
  <1> QED
    BY TypeInvariance, <1>1, <1>2, <1>3, PTL DEF Spec

-----------------------------------------------------------------------------
(***************************************************************************)
(* The engine implements EngineContract: an operation is complete when both *)
(* its address and its data have been taken.                                *)
(***************************************************************************)
\* During a run the number of complete operations grows by at most one at an
\* edge, even when an address and a last beat are taken together.
LEMMA CompletedStep ==
    ASSUME NEW a \in Nat, NEW b \in Nat, NEW a1 \in {a, a + 1}, NEW b1 \in {b, b + 1}
    PROVE  (IF a1 <= b1 THEN a1 ELSE b1) \in
              {IF a <= b THEN a ELSE b, (IF a <= b THEN a ELSE b) + 1}
  OBVIOUS

\* A clock edge is a step of the contract or changes nothing it sees.
LEMMA TickImplements ==
    ASSUME CountingAssumed, IndInv, IndInv',
           NEW start \in BOOLEAN, NEW awready \in BOOLEAN, NEW wready \in BOOLEAN,
           Tick(start, awready, wready)
    PROVE  [Contract!Next]_(Contract!vars)
  <1> DEFINE done == IF addresses <= bursts THEN addresses ELSE bursts
  <1>1. /\ p.num \in Nat /\ addresses \in Nat /\ bursts \in Nat /\ p \in Params /\ p' \in Params
        /\ end_of_exec \in BOOLEAN /\ started \in BOOLEAN /\ Fsm(awready)
    BY ParamFields DEF IndInv, TypeInv, TypeOK, Tick
  <1>2. CASE WrIdle /\ started
    <2>1. done' = 0 /\ state' # "WR_IDLE" /\ state = "WR_IDLE" /\ end_of_exec' = FALSE
      BY <1>2, TickFacts DEF WrIdle, NewRun
    <2>2. p'.num \in {q.num : q \in Params}
      BY <1>1
    <2> QED
      BY <2>1, <2>2 DEF Contract!Next, Contract!Begin
  <1>3. CASE WrIdle /\ ~started
    <2>1. addresses' = addresses /\ bursts' = bursts
      BY <1>3, TickFacts, DataFacts DEF WrIdle, NewRun, Active
    <2>2. state' = state /\ p' = p /\ end_of_exec' = FALSE
      BY <1>3 DEF WrIdle
    <2>3. done' = done
      BY <2>1
    <2> QED
      BY <1>1, <2>2, <2>3 DEF Contract!Next, Contract!Lower, Contract!vars
  <1>4. CASE WrEnd
    <2>1. state = "WR_END" /\ state' = "WR_IDLE" /\ end_of_exec' = TRUE /\ p' = p
      BY <1>4 DEF WrEnd
    <2>2. addresses = p.num /\ bursts = p.num
      BY <2>1 DEF IndInv, CountInv, AddressInv, DataInv, Active
    <2>3. addresses' = p'.num /\ bursts' = p'.num
      BY <2>1 DEF IndInv, CountInv, EndInv, EndMeansAllSent
    <2>4. done = p.num /\ done' = done
      BY <1>1, <2>1, <2>2, <2>3
    <2> QED
      BY <2>1, <2>4 DEF Contract!Next, Contract!End
  <1>5. CASE WrStarted \/ WrThValid(awready) \/ WrThData
    <2>1. /\ state # "WR_IDLE" /\ state' # "WR_IDLE" /\ p' = p /\ end_of_exec' = FALSE
      BY <1>5 DEF WrStarted, WrThValid, WrThData
    <2>2. end_of_exec = FALSE /\ ~started /\ ~NewRun
      BY <1>1, <2>1 DEF IndInv, CountInv, EndInv, OfferInv, NewRun
    <2>3. addresses' \in {addresses, addresses + 1} /\ bursts' \in {bursts, bursts + 1}
      BY <1>1, <2>2, TickFacts, DataFacts
    <2>4. done' \in {done, done + 1}
      BY <1>1, <2>3, CompletedStep
    <2>5. done' <= p.num /\ done \in Nat
      BY <1>1, <2>1, <2>3 DEF IndInv, CountInv, AddressInv, DataInv
    <2>6. CASE done' = done
      BY <2>1, <2>2, <2>6 DEF Contract!vars
    <2>7. CASE done' = done + 1
      <3>1. done < p.num
        BY <1>1, <2>5, <2>7
      <3> QED
        BY <2>1, <2>2, <2>7, <3>1 DEF Contract!Next, Contract!Complete
    <2> QED
      BY <2>4, <2>6, <2>7
  <1> QED
    BY <1>1, <1>2, <1>3, <1>4, <1>5 DEF Fsm

\* The write engine implements the contract the channel glue and the host rely
\* on, with resets at any time.
THEOREM WriteEngineImplements == ASSUME CountingAssumed PROVE Spec => ImplementsContract
  <1>1. Init => Contract!Init
    BY DEF Init, Contract!Init
  <1>2. IndInv /\ IndInv' /\ [Next]_vars => [Contract!Next]_(Contract!vars)
    <2> SUFFICES ASSUME IndInv, IndInv', [Next]_vars PROVE [Contract!Next]_(Contract!vars)
      OBVIOUS
    <2>1. CASE Reset
      BY <2>1 DEF Reset, Contract!Next, Contract!Abort, Contract!vars
    <2>2. CASE UNCHANGED vars
      BY <2>2 DEF vars, fsm, memory, Contract!vars
    <2> QED
      BY <2>1, <2>2, TickImplements DEF Next
  <1> QED
    BY Invariance, <1>1, <1>2, PTL DEF Spec, ImplementsContract, Contract!Spec
=============================================================================
