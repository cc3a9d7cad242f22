--------------------------- MODULE RdEngineProofs ---------------------------
(***************************************************************************)
(* What RdEngine guarantees for every parameter set, register width and     *)
(* memory behaviour, with starts and resets arriving at any time.           *)
(***************************************************************************)
EXTENDS RdEngine, RegisterTheorems, TLAPS

-----------------------------------------------------------------------------
(***************************************************************************)
(* The inductive invariant: what each FSM state knows about the memory.     *)
(***************************************************************************)
\* An address is on offer only in the two issuing states, or frozen by a reset
\* at a port that cannot accept it yet.
OfferInv ==
    guard_ARVALID => \/ state \in {"RD_TH_VALID", "RD_LAT_VALID"}
                     \/ state = "RD_IDLE" /\ ~mem_ready

\* Bursts are neither lost nor invented, and the response counter, which a
\* restart may clear, never runs ahead of the responses.
BalanceInv ==
    /\ state # "RD_IDLE" => accepted = answered + outstanding
    /\ state = "RD_IDLE" => outstanding = 0
    /\ read_resp_lasts <= answered
    /\ accepted <= p.num

IssueInv ==
    /\ state = "RD_STARTED" => accepted = 0 /\ samples = 0 /\ ~lat_timer_valid
    /\ state \notin {"RD_IDLE", "RD_STARTED"} => mem_op_index = accepted
    /\ state \in {"RD_TH_VALID", "RD_LAT_VALID"} => accepted < p.num
    /\ state \in {"RD_TH_RESP", "RD_END"} => accepted = p.num
    /\ state = "RD_LAT_RESP" => outstanding = 1
    /\ state \in {"RD_LAT_VALID", "RD_END"} => outstanding = 0

SampleInv ==
    /\ state \in {"RD_TH_VALID", "RD_TH_RESP"} => ~p.lat
    /\ state \in {"RD_LAT_VALID", "RD_LAT_RESP"} => p.lat
    /\ state \in {"RD_TH_VALID", "RD_TH_RESP", "RD_END"} /\ ~p.lat
           => samples = 0 /\ ~lat_timer_valid
    /\ state \in {"RD_LAT_VALID", "RD_END"} /\ p.lat
           => samples + One(lat_timer_valid) = accepted
    /\ state = "RD_LAT_RESP" => samples + 1 = accepted /\ ~lat_timer_valid
    /\ state = "RD_LAT_RESP" \/ lat_timer_valid => lat_timer = age

EndInv == end_of_exec => state = "RD_IDLE" /\ EndMeansAllAnswered

IndInv == TypeOK /\ OfferInv /\ BalanceInv /\ IssueInv /\ SampleInv /\ EndInv

-----------------------------------------------------------------------------
\* The fields of the staged parameters, and the address they form.
LEMMA ParamFields ==
    ASSUME TypeOK
    PROVE  /\ p.wgs \in 1 .. AddrSpace - 1
           /\ p.stride \in 0 .. AddrSpace - 1
           /\ p.num \in Nat /\ p.num > 0
           /\ p.init \in 0 .. AddrSpace - 1
           /\ p.lat \in BOOLEAN
  BY ParamsAssumption DEF TypeOK

\* The address register's next value (init_addr plus masked offset) fits it.
LEMMA AddrOfType ==
    ASSUME TypeOK
    PROVE  AddrOf(offset_addr) \in 0 .. AddrSpace - 1
  <1>1. p.wgs - 1 \in 0 .. AddrSpace - 1 /\ AddrSpace \in Nat
    BY ParamFields, WidthAssumption
  <1>2. offset_addr \in 0 .. AddrSpace - 1
    BY DEF TypeOK
  <1>3. BitAnd(offset_addr, p.wgs - 1) \in 0 .. p.wgs - 1
    BY <1>1, <1>2, BitAndAssumption
  <1>4. BitAnd(offset_addr, p.wgs - 1) \in 0 .. AddrSpace - 1
    BY <1>1, <1>3
  <1> QED
    BY <1>1, <1>4, ParamFields, AddModType DEF AddrOf

\* The power-up values satisfy the invariant.
LEMMA InitInv == Init => IndInv
  <1> SUFFICES ASSUME Init PROVE IndInv
    OBVIOUS
  <1>0. 0 \in 0 .. AddrSpace - 1 /\ 0 \in 0 .. LatMod - 1 /\ 0 \in 0 .. SumMod - 1
    BY WidthAssumption
  <1>1. TypeOK
    BY <1>0 DEF Init, TypeOK, States
  <1>2. p.num \in Nat /\ p.num > 0
    BY <1>1, ParamFields
  <1> QED
    BY <1>1, <1>2 DEF Init, IndInv, OfferInv, BalanceInv, IssueInv, SampleInv, EndInv

\* A cycle with rst_n low preserves the invariant, although it leaves ARVALID,
\* end_of_exec and the response counter as they were.
LEMMA ResetInv == IndInv /\ Reset => IndInv'
  <1> SUFFICES ASSUME IndInv, Reset PROVE IndInv'
    OBVIOUS
  <1> USE DEF IndInv
  <1>1. TypeOK'
    BY DEF TypeOK, Reset, States
  <1>2. OfferInv'
    BY DEF Reset, OfferInv
  <1>3. BalanceInv'
    <2>1. read_resp_lasts' <= answered'
      BY DEF Reset, BalanceInv, TypeOK
    <2> QED
      BY <2>1 DEF Reset, BalanceInv
  <1>4. IssueInv' /\ SampleInv'
    BY DEF Reset, IssueInv, SampleInv, One
  <1>5. EndInv'
    BY DEF Reset, EndInv, EndMeansAllAnswered
  <1> QED
    BY <1>1, <1>2, <1>3, <1>4, <1>5

-----------------------------------------------------------------------------
(***************************************************************************)
(* One clock edge.                                                          *)
(***************************************************************************)
\* What the memory and the response counter do, in arithmetic the FSM's cases
\* can use directly.
LEMMA TickFacts ==
    ASSUME IndInv, NEW start \in BOOLEAN, NEW ready \in BOOLEAN, NEW last \in BOOLEAN,
           Tick(start, ready, last)
    PROVE  /\ Handshake(ready) \in BOOLEAN
           /\ Handshake(ready) => guard_ARVALID /\ state \in {"RD_TH_VALID", "RD_LAT_VALID"}
           /\ last => outstanding > 0
           /\ outstanding' = outstanding + One(Handshake(ready)) - One(last)
           /\ outstanding' \in Nat
           /\ accepted' \in Nat /\ answered' \in Nat /\ samples' \in Nat
           /\ read_resp_lasts' \in Nat /\ read_resp_lasts' <= answered'
           /\ age' \in 0 .. LatMod - 1
           /\ mem_ready' = TRUE /\ started' \in BOOLEAN /\ waited' \in BOOLEAN
           /\ NewRun \/ accepted' = accepted + One(Handshake(ready))
           /\ NewRun \/ answered' = answered + One(last)
           /\ NewRun \/ samples' = samples + One(lat_timer_valid)
           /\ NewRun => accepted' = 0 /\ answered' = 0 /\ samples' = 0
  <1> USE DEF IndInv
  <1>1. Handshake(ready) \in BOOLEAN
    BY DEF Handshake, TypeOK
  <1>2. Handshake(ready) => guard_ARVALID /\ state \in {"RD_TH_VALID", "RD_LAT_VALID"}
    BY DEF Handshake, Tick, Memory, OfferInv
  <1>3. last => outstanding > 0
    BY DEF Tick, Memory
  <1>4. /\ outstanding' = outstanding + One(Handshake(ready)) - One(last)
        /\ outstanding' \in Nat
    BY <1>1, <1>3 DEF Tick, Memory, One, TypeOK
  <1>5. /\ accepted' \in Nat /\ answered' \in Nat /\ samples' \in Nat
        /\ NewRun \/ accepted' = accepted + One(Handshake(ready))
        /\ NewRun \/ answered' = answered + One(last)
        /\ NewRun \/ samples' = samples + One(lat_timer_valid)
        /\ NewRun => accepted' = 0 /\ answered' = 0 /\ samples' = 0
    BY <1>1 DEF Tick, Memory, One, TypeOK
  <1>6. read_resp_lasts' \in Nat /\ read_resp_lasts' <= answered'
    BY <1>5 DEF Tick, CountLasts, NewRun, BalanceInv, One, TypeOK
  <1>7. age' \in 0 .. LatMod - 1
    <2>1. AddMod(age, 1, LatMod) \in 0 .. LatMod - 1 /\ 0 \in 0 .. LatMod - 1
      BY WidthAssumption, AddModType DEF TypeOK
    <2> QED
      BY <2>1, <1>1 DEF Tick, Memory, TypeOK
  <1>8. mem_ready' = TRUE /\ started' \in BOOLEAN /\ waited' \in BOOLEAN
    BY DEF Tick, Memory
  <1> QED
    BY <1>1, <1>2, <1>3, <1>4, <1>5, <1>6, <1>7, <1>8

\* Every register keeps its type on a clock edge.
LEMMA TickType ==
    ASSUME IndInv, NEW start \in BOOLEAN, NEW ready \in BOOLEAN, NEW last \in BOOLEAN,
           Tick(start, ready, last)
    PROVE  TypeOK'
  <1> USE DEF IndInv
  <1>1. Fsm(ready, last)
    BY DEF Tick
  <1>2. /\ AddrOf(offset_addr) \in 0 .. AddrSpace - 1
        /\ AddMod(offset_addr, p.stride, AddrSpace) \in 0 .. AddrSpace - 1
        /\ 0 \in 0 .. AddrSpace - 1
    BY AddrOfType, ParamFields, AddModType, WidthAssumption DEF TypeOK
  <1>3. /\ AddMod(lat_timer, 1, LatMod) \in 0 .. LatMod - 1
        /\ AddMod(lat_timer_sum, 1, SumMod) \in 0 .. SumMod - 1
        /\ 0 \in 0 .. LatMod - 1 /\ 0 \in 0 .. SumMod - 1
    BY AddModType, WidthAssumption DEF TypeOK
  <1>4. /\ state' \in States
        /\ p' \in Params
        /\ mem_op_index' \in Nat
        /\ offset_addr' \in 0 .. AddrSpace - 1
        /\ ARADDR' \in 0 .. AddrSpace - 1
        /\ guard_ARVALID' \in BOOLEAN
        /\ end_of_exec' \in BOOLEAN
        /\ lat_timer' \in 0 .. LatMod - 1
        /\ lat_timer_valid' \in BOOLEAN
        /\ lat_timer_sum' \in 0 .. SumMod - 1
    <2>1. CASE RdIdle
      BY <2>1 DEF RdIdle, Outputs, TypeOK, States
    <2>2. CASE RdStarted
      BY <2>2, <1>2, <1>3 DEF RdStarted, Outputs, TypeOK, States
    <2>3. CASE RdLatValid(ready)
      <3> USE <2>3 DEF RdLatValid
      <3>1. mem_op_index' \in Nat /\ state' \in States /\ p' \in Params
        BY DEF TypeOK, States
      <3>2. guard_ARVALID' \in BOOLEAN /\ end_of_exec' \in BOOLEAN /\ lat_timer_valid' \in BOOLEAN
        BY DEF Outputs
      <3>3. offset_addr' \in 0 .. AddrSpace - 1 /\ ARADDR' \in 0 .. AddrSpace - 1
        BY <1>2 DEF Advance, LoadAddress
      <3>4. lat_timer' \in 0 .. LatMod - 1 /\ lat_timer_sum' \in 0 .. SumMod - 1
        BY <1>3 DEF SumTick, LatTimerCleared, TypeOK
      <3> QED
        BY <3>1, <3>2, <3>3, <3>4
    <2>4. CASE RdLatResp(last)
      BY <2>4, <1>3 DEF RdLatResp, Outputs, SumTick, TypeOK, States
    <2>5. CASE RdThValid(ready)
      <3> USE <2>5 DEF RdThValid
      <3>1. mem_op_index' \in Nat /\ state' \in States /\ p' \in Params
        BY DEF TypeOK, States
      <3>2. guard_ARVALID' \in BOOLEAN /\ end_of_exec' \in BOOLEAN /\ lat_timer_valid' \in BOOLEAN
        BY DEF Outputs
      <3>3. offset_addr' \in 0 .. AddrSpace - 1 /\ ARADDR' \in 0 .. AddrSpace - 1
        BY <1>2 DEF Advance, LoadAddress, TypeOK
      <3>4. lat_timer' \in 0 .. LatMod - 1 /\ lat_timer_sum' \in 0 .. SumMod - 1
        BY <1>3 DEF SumTick, TypeOK
      <3> QED
        BY <3>1, <3>2, <3>3, <3>4
    <2>6. CASE RdThResp
      BY <2>6, <1>3 DEF RdThResp, Outputs, SumTick, TypeOK, States
    <2>7. CASE RdEnd
      BY <2>7, <1>3 DEF RdEnd, Outputs, SumTick, TypeOK, States
    <2> QED
      BY <1>1, <2>1, <2>2, <2>3, <2>4, <2>5, <2>6, <2>7 DEF Fsm
  <1> QED
    BY <1>4, TickFacts DEF TypeOK

\* A clock edge preserves the invariant: one step per FSM state.
LEMMA TickInv ==
    ASSUME IndInv, NEW start \in BOOLEAN, NEW ready \in BOOLEAN, NEW last \in BOOLEAN,
           Tick(start, ready, last)
    PROVE  IndInv'
  <1> DEFINE h == One(Handshake(ready))
             l == One(last)
             v == One(lat_timer_valid)
  <1>1. TypeOK /\ TypeOK'
    BY TickType DEF IndInv
  <1>2. Fsm(ready, last)
    BY DEF Tick
  <1>3. /\ p.num \in Nat /\ p.num > 0 /\ p.lat \in BOOLEAN
        /\ p'.num \in Nat /\ p'.num > 0
        /\ state \in States /\ mem_op_index \in Nat /\ read_resp_lasts \in Nat
        /\ outstanding \in Nat /\ accepted \in Nat /\ answered \in Nat /\ samples \in Nat
        /\ outstanding' \in Nat /\ accepted' \in Nat /\ answered' \in Nat /\ samples' \in Nat
    BY <1>1, ParamsAssumption DEF TypeOK
  <1>4. /\ h \in {0, 1} /\ (h = 1 <=> Handshake(ready))
        /\ l \in {0, 1} /\ (l = 1 <=> last)
        /\ v \in {0, 1} /\ (v = 1 <=> lat_timer_valid)
    BY <1>1, TickFacts DEF One, TypeOK
  <1>5. /\ h = 1 => state \in {"RD_TH_VALID", "RD_LAT_VALID"}
        /\ l = 1 => outstanding > 0
        /\ outstanding' = outstanding + h - l
        /\ read_resp_lasts' <= answered'
        /\ mem_ready' = TRUE
    BY <1>4, TickFacts
  <1>6. ~(state = "RD_IDLE" /\ started)
            => accepted' = accepted + h /\ answered' = answered + l /\ samples' = samples + v
    BY TickFacts DEF NewRun
  <1>7. state = "RD_IDLE" /\ started => accepted' = 0 /\ answered' = 0 /\ samples' = 0
    BY TickFacts DEF NewRun
  <1>8. age' = IF h = 1 THEN 0 ELSE IF outstanding > 0 THEN AddMod(age, 1, LatMod) ELSE age
    BY <1>4 DEF Tick, Memory
  <1>9. One(lat_timer_valid') = IF lat_timer_valid' THEN 1 ELSE 0
    BY DEF One
  <1> HIDE DEF h, l, v
  <1>10. CASE RdIdle
    <2> USE <1>3, <1>4, <1>5, <1>6, <1>7, <1>10 DEF IndInv, RdIdle, Outputs
    <2>1. OfferInv'
      BY DEF OfferInv
    <2>2. BalanceInv'
      <3>1. outstanding' = 0
        BY DEF BalanceInv
      <3>2. CASE started
        BY <3>1, <3>2 DEF BalanceInv
      <3>3. CASE ~started
        BY <3>1, <3>3 DEF BalanceInv
      <3> QED
        BY <3>2, <3>3
    <2>3. IssueInv'
      BY DEF IssueInv, BalanceInv
    <2>4. SampleInv'
      BY <1>8, <1>9 DEF SampleInv, IssueInv, v
    <2>5. EndInv'
      BY DEF EndInv, EndMeansAllAnswered, SampleInv, IssueInv, BalanceInv, v
    <2> QED
      BY <1>1, <2>1, <2>2, <2>3, <2>4, <2>5
  <1>11. CASE RdStarted
    <2> USE <1>3, <1>4, <1>5, <1>6, <1>7, <1>11 DEF IndInv, RdStarted, Outputs
    <2>1. OfferInv'
      BY DEF OfferInv
    <2>2. BalanceInv'
      BY DEF BalanceInv, IssueInv
    <2>3. IssueInv'
      BY DEF IssueInv, BalanceInv
    <2>4. SampleInv'
      BY <1>8, <1>9 DEF SampleInv, IssueInv, v
    <2>5. EndInv'
      BY DEF EndInv, EndMeansAllAnswered, SampleInv, IssueInv, BalanceInv, v
    <2> QED
      BY <1>1, <2>1, <2>2, <2>3, <2>4, <2>5
  <1>12. CASE RdLatValid(ready)
    <2> USE <1>3, <1>4, <1>5, <1>6, <1>7, <1>12 DEF IndInv, RdLatValid, Outputs
    <2>1. OfferInv'
      BY DEF OfferInv
    <2>2. BalanceInv'
      BY DEF BalanceInv, IssueInv, LatTimerCleared
    <2>3. IssueInv'
      BY DEF IssueInv, BalanceInv, LatTimerCleared
    <2>4. SampleInv'
      BY <1>8, <1>9 DEF SampleInv, IssueInv, v, LatTimerCleared
    <2>5. EndInv'
      BY DEF EndInv, EndMeansAllAnswered, SampleInv, IssueInv, BalanceInv, v
    <2> QED
      BY <1>1, <2>1, <2>2, <2>3, <2>4, <2>5
  <1>13. CASE RdLatResp(last)
    <2> USE <1>3, <1>4, <1>5, <1>6, <1>7, <1>13 DEF IndInv, RdLatResp, Outputs
    <2>1. OfferInv'
      BY DEF OfferInv
    <2>2. BalanceInv'
      BY DEF BalanceInv, IssueInv, LatDone
    <2>3. IssueInv'
      BY DEF IssueInv, BalanceInv, LatDone
    <2>4. SampleInv'
      BY <1>8, <1>9 DEF SampleInv, IssueInv, v, LatDone
    <2>5. EndInv'
      BY DEF EndInv, EndMeansAllAnswered, SampleInv, IssueInv, BalanceInv, v
    <2> QED
      BY <1>1, <2>1, <2>2, <2>3, <2>4, <2>5
  <1>14. CASE RdThValid(ready)
    <2> USE <1>3, <1>4, <1>5, <1>6, <1>7, <1>14 DEF IndInv, RdThValid, Outputs
    <2>1. OfferInv'
      BY DEF OfferInv
    <2>2. BalanceInv'
      BY DEF BalanceInv, IssueInv, LastAddress
    <2>3. IssueInv'
      BY DEF IssueInv, BalanceInv, LastAddress
    <2>4. SampleInv'
      BY <1>8, <1>9 DEF SampleInv, IssueInv, v, LastAddress
    <2>5. EndInv'
      BY DEF EndInv, EndMeansAllAnswered, SampleInv, IssueInv, BalanceInv, v
    <2> QED
      BY <1>1, <2>1, <2>2, <2>3, <2>4, <2>5
  <1>15. CASE RdThResp
    <2> USE <1>3, <1>4, <1>5, <1>6, <1>7, <1>15 DEF IndInv, RdThResp, Outputs
    <2>1. OfferInv'
      BY DEF OfferInv
    <2>2. BalanceInv'
      BY DEF BalanceInv, IssueInv, AllAnswered
    <2>3. IssueInv'
      BY DEF IssueInv, BalanceInv, AllAnswered
    <2>4. SampleInv'
      BY <1>8, <1>9 DEF SampleInv, IssueInv, v, AllAnswered
    <2>5. EndInv'
      BY DEF EndInv, EndMeansAllAnswered, SampleInv, IssueInv, BalanceInv, v
    <2> QED
      BY <1>1, <2>1, <2>2, <2>3, <2>4, <2>5
  <1>16. CASE RdEnd
    <2> USE <1>3, <1>4, <1>5, <1>6, <1>7, <1>16 DEF IndInv, RdEnd, Outputs
    <2>1. OfferInv'
      BY DEF OfferInv
    <2>2. BalanceInv'
      BY DEF BalanceInv, IssueInv
    <2>3. IssueInv'
      BY DEF IssueInv, BalanceInv
    <2>4. SampleInv'
      BY <1>8, <1>9 DEF SampleInv, IssueInv, v
    <2>5. EndInv'
      BY DEF EndInv, EndMeansAllAnswered, SampleInv, IssueInv, BalanceInv, v
    <2> QED
      BY <1>1, <2>1, <2>2, <2>3, <2>4, <2>5
  <1> QED
    BY <1>2, <1>10, <1>11, <1>12, <1>13, <1>14, <1>15, <1>16 DEF Fsm

\* A step that changes nothing preserves the invariant.
LEMMA StutterInv == IndInv /\ UNCHANGED vars => IndInv'
  <1> SUFFICES ASSUME IndInv, UNCHANGED vars PROVE IndInv'
    OBVIOUS
  <1> USE DEF vars, fsm, memory
  <1>1. TypeOK'
    BY DEF IndInv, TypeOK
  <1>2. OfferInv' /\ BalanceInv' /\ IssueInv'
    BY DEF IndInv, OfferInv, BalanceInv, IssueInv
  <1>3. SampleInv' /\ EndInv'
    BY DEF IndInv, SampleInv, EndInv, EndMeansAllAnswered, One
  <1> QED
    BY <1>1, <1>2, <1>3 DEF IndInv

\* The inductive invariant holds in every state the engine reaches.
THEOREM Invariance == Spec => []IndInv
  <1>1. IndInv /\ [Next]_vars => IndInv'
    BY TickInv, ResetInv, StutterInv DEF Next
  <1> QED
    BY InitInv, <1>1, PTL DEF Spec

-----------------------------------------------------------------------------
\* Registers, counters and addresses keep their types and widths.
THEOREM TypeCorrect == Spec => []TypeOK
  <1>1. IndInv => TypeOK
    BY DEF IndInv
  <1> QED
    BY Invariance, <1>1, PTL

\* end_of_exec is never raised before the last response, whatever the order of
\* handshakes, responses, restarts and resets (RD_TH_RESP, RD_LAT_RESP, RD_END).
THEOREM EndIsComplete == Spec => []EndMeansAllAnswered
  <1>1. IndInv => EndMeansAllAnswered
    BY DEF IndInv, EndInv, EndMeansAllAnswered
  <1> QED
    BY Invariance, <1>1, PTL

\* No run issues more than num bursts, and none outlives its run.
THEOREM BurstsStayInRun == Spec => []NoStrayBursts
  <1>1. IndInv => NoStrayBursts
    BY DEF IndInv, BalanceInv, NoStrayBursts
  <1> QED
    BY Invariance, <1>1, PTL

\* The latency published is the cycle count between acceptance and last beat.
THEOREM LatencyIsExact == Spec => []LatencyIsAge
  <1>1. IndInv => LatencyIsAge
    BY DEF IndInv, SampleInv, LatencyIsAge
  <1> QED
    BY Invariance, <1>1, PTL

\* ARVALID is never withdrawn from a memory that is out of reset.
THEOREM OfferIsHeld == Spec => ArvalidHeld
  <1> DEFINE Held == guard_ARVALID /\ accepted' = accepted /\ mem_ready' /\ mem_ready
                         => guard_ARVALID'
  <1>1. IndInv /\ Next => Held
    <2> SUFFICES ASSUME IndInv, Next, guard_ARVALID, accepted' = accepted, mem_ready, mem_ready'
                 PROVE  guard_ARVALID'
      OBVIOUS
    <2>1. PICK start, ready, last \in BOOLEAN : Tick(start, ready, last)
      BY DEF Next, Reset
    <2>2. state \in {"RD_TH_VALID", "RD_LAT_VALID"}
      BY DEF IndInv, OfferInv
    <2>3. ~Handshake(ready)
      <3>1. ~NewRun
        BY <2>2 DEF NewRun
      <3>2. accepted' = accepted + One(Handshake(ready)) /\ accepted \in Nat
        BY <2>1, <3>1, TickFacts DEF IndInv, TypeOK
      <3> QED
        BY <3>2 DEF One
    <2>4. RdThValid(ready) \/ RdLatValid(ready)
      BY <2>1, <2>2 DEF Tick, Fsm, RdIdle, RdStarted, RdLatResp, RdThResp, RdEnd
    <2> QED
      BY <2>3, <2>4 DEF RdThValid, RdLatValid
  <1>2. IndInv /\ [Next]_vars => [Held]_vars
    BY <1>1
  <1> QED
    BY Invariance, <1>2, PTL DEF Spec, ArvalidHeld

-----------------------------------------------------------------------------
\* The masked offset is a byte of the working set.
LEMMA LoadedInWorkingSet ==
    ASSUME TypeOK
    PROVE  \E b \in 0 .. p.wgs - 1 : AddrOf(offset_addr) = AddMod(p.init, b, AddrSpace)
  <1>1. p.wgs - 1 \in 0 .. AddrSpace - 1 /\ offset_addr \in 0 .. AddrSpace - 1
    BY ParamFields, WidthAssumption DEF TypeOK
  <1>2. BitAnd(offset_addr, p.wgs - 1) \in 0 .. p.wgs - 1
    BY <1>1, BitAndAssumption
  <1> QED
    BY <1>2 DEF AddrOf

\* No access ever leaves the working set, in either mode, across any number of
\* runs with different parameters.
THEOREM AccessesStayInWorkingSet == Spec => []InWorkingSet
  <1>1. Init => InWorkingSet
    BY DEF Init, InWorkingSet
  <1>2. IndInv /\ InWorkingSet /\ [Next]_vars => InWorkingSet'
    <2> SUFFICES ASSUME IndInv, InWorkingSet, [Next]_vars, guard_ARVALID'
                 PROVE  \E b \in 0 .. p'.wgs - 1 : ARADDR' = AddMod(p'.init, b, AddrSpace)
      BY DEF InWorkingSet, AddMod
    <2>1. CASE Reset \/ UNCHANGED vars
      BY <2>1 DEF Reset, vars, fsm, InWorkingSet, AddMod
    <2>2. CASE \E start, ready, last \in BOOLEAN : Tick(start, ready, last)
      <3>1. PICK start, ready, last \in BOOLEAN : Tick(start, ready, last)
        BY <2>2
      <3>2. LoadAddress /\ UNCHANGED p
        BY <3>1 DEF Tick, Fsm, RdIdle, RdStarted, RdLatValid, RdLatResp, RdThValid,
                    RdThResp, RdEnd
      <3> QED
        BY <3>2, LoadedInWorkingSet DEF LoadAddress, IndInv
    <2> QED
      BY <2>1, <2>2 DEF Next
  <1> QED
    BY Invariance, <1>1, <1>2, PTL DEF Spec

-----------------------------------------------------------------------------
(***************************************************************************)
(* The address sequence in throughput mode.                                 *)
(***************************************************************************)
\* While addresses are issued the offset register is mem_op_index strides, and
\* from the first accepted address on ARVALID stays up: a cycle without a
\* handshake is then a cycle of waiting.
AddrInv ==
    /\ state = "RD_TH_VALID" =>
          /\ offset_addr = (mem_op_index * p.stride) % AddrSpace
          /\ mem_op_index > 0 => guard_ARVALID
    /\ AddressByWait

\* Where an access goes depends on whether its offer waited and on nothing else,
\* whatever the stride, the widths and ARREADY (LoadAddress and Advance in
\* RD_TH_VALID).
THEOREM AddressesByWait == Spec => []AddressByWait
  <1>1. Init => AddrInv
    BY DEF Init, AddrInv, AddressByWait
  <1>2. IndInv /\ AddrInv /\ [Next]_vars => AddrInv'
    <2> SUFFICES ASSUME IndInv, AddrInv, [Next]_vars PROVE AddrInv'
      OBVIOUS
    <2>1. /\ mem_op_index \in Nat /\ AddrSpace \in Nat \ {0}
          /\ p.stride \in 0 .. AddrSpace - 1 /\ guard_ARVALID \in BOOLEAN
      BY ParamFields, WidthAssumption DEF IndInv, TypeOK
    <2>2. CASE Reset
      BY <2>2 DEF Reset, AddrInv, AddressByWait
    <2>3. CASE UNCHANGED vars
      BY <2>3 DEF vars, fsm, memory, AddrInv, AddressByWait, Pattern, AddrOf
    <2>4. CASE \E start, ready, last \in BOOLEAN : Tick(start, ready, last)
      <3>1. PICK start, ready, last \in BOOLEAN : Tick(start, ready, last)
        BY <2>4
      <3>2. CASE RdThValid(ready)
        <4>1. CASE state' # "RD_TH_VALID"
          BY <4>1 DEF AddrInv, AddressByWait
        <4>2. CASE state' = "RD_TH_VALID"
          <5>1. /\ offset_addr = (mem_op_index * p.stride) % AddrSpace
                /\ p' = p /\ ARADDR' = Pattern(mem_op_index)
                /\ mem_op_index > 0 => guard_ARVALID
            BY <3>2 DEF AddrInv, RdThValid, LoadAddress, Pattern
          <5>2. CASE Handshake(ready)
            <6>1. /\ mem_op_index' = mem_op_index + 1
                  /\ offset_addr' = AddMod(offset_addr, p.stride, AddrSpace)
                  /\ guard_ARVALID'
              BY <3>2, <4>2, <5>2 DEF RdThValid, Advance
            <6>2. offset_addr' = (mem_op_index' * p.stride) % AddrSpace
              BY <2>1, <5>1, <6>1, StrideStep
            <6>3. /\ mem_op_index' > 0 /\ mem_op_index' # 0 /\ mem_op_index' - 1 = mem_op_index
              BY <2>1, <6>1
            <6>4. ~waited'
              BY <3>1, <5>2 DEF Tick, Memory, Handshake
            <6>5. Pattern(mem_op_index - 1)' = Pattern(mem_op_index)
              BY <5>1, <6>3 DEF Pattern, AddrOf
            <6>6. AddressByWait'
              BY <5>1, <6>3, <6>4, <6>5 DEF AddressByWait
            <6> QED
              BY <5>1, <6>1, <6>2, <6>6 DEF AddrInv
          <5>3. CASE ~Handshake(ready)
            <6>1. mem_op_index' = mem_op_index /\ offset_addr' = offset_addr /\ guard_ARVALID'
              BY <3>2, <5>3 DEF RdThValid
            <6>2. waited' \/ mem_op_index' = 0
              BY <2>1, <3>1, <5>1, <5>3, <6>1 DEF Tick, Memory, Handshake
            <6>3. Pattern(mem_op_index)' = Pattern(mem_op_index)
              BY <5>1, <6>1 DEF Pattern, AddrOf
            <6>4. AddressByWait'
              BY <5>1, <6>1, <6>2, <6>3 DEF AddressByWait
            <6> QED
              BY <5>1, <6>1, <6>4 DEF AddrInv
          <5> QED
            BY <5>2, <5>3
        <4> QED
          BY <4>1, <4>2
      <3>3. CASE RdStarted
        <4>1. offset_addr' = 0 /\ mem_op_index' = 0 /\ p' = p /\ ~guard_ARVALID'
          BY <3>3 DEF RdStarted
        <4>2. (0 * p.stride) % AddrSpace = 0
          BY <2>1
        <4> QED
          BY <4>1, <4>2 DEF AddrInv, AddressByWait
      <3>4. CASE state' # "RD_TH_VALID"
        BY <3>4 DEF AddrInv, AddressByWait
      <3> QED
        BY <3>1, <3>2, <3>3, <3>4 DEF Tick, Fsm, RdIdle, RdLatValid, RdLatResp, RdThResp, RdEnd
    <2> QED
      BY <2>2, <2>3, <2>4 DEF Next
  <1>3. AddrInv => AddressByWait
    BY DEF AddrInv
  <1> QED
    BY Invariance, <1>1, <1>2, <1>3, PTL DEF Spec

-----------------------------------------------------------------------------
(***************************************************************************)
(* The engine implements EngineContract.                                    *)
(***************************************************************************)
\* A clock edge is a step of the contract or changes nothing it sees: the edge
\* that stages a run begins it, an edge with RLAST completes one operation,
\* RD_END ends the run.
LEMMA TickImplements ==
    ASSUME IndInv, NEW start \in BOOLEAN, NEW ready \in BOOLEAN, NEW last \in BOOLEAN,
           Tick(start, ready, last)
    PROVE  [Contract!Next]_(Contract!vars)
  <1> USE DEF IndInv
  <1>1. /\ p.num \in Nat /\ answered \in Nat /\ outstanding \in Nat /\ accepted \in Nat
        /\ end_of_exec \in BOOLEAN /\ Fsm(ready, last)
    BY ParamFields DEF TypeOK, Tick
  <1>2. /\ last => outstanding > 0
        /\ NewRun \/ answered' = answered + One(last)
        /\ NewRun => answered' = 0
    BY TickFacts
  <1>3. CASE RdIdle /\ started
    <2>1. answered' = 0 /\ state' # "RD_IDLE" /\ state = "RD_IDLE" /\ end_of_exec' = FALSE
      BY <1>2, <1>3 DEF RdIdle, Outputs, NewRun
    <2>2. p'.num \in {q.num : q \in Params}
      BY <1>3 DEF RdIdle
    <2> QED
      BY <2>1, <2>2 DEF Contract!Next, Contract!Begin
  <1>4. CASE RdIdle /\ ~started
    <2>1. answered' = answered
      BY <1>1, <1>2, <1>4 DEF RdIdle, NewRun, BalanceInv, One
    <2>2. state' = state /\ p' = p /\ end_of_exec' = FALSE
      BY <1>4 DEF RdIdle, Outputs
    <2> QED
      BY <1>1, <2>1, <2>2 DEF Contract!Next, Contract!Lower, Contract!vars
  <1>5. CASE RdEnd
    <2>1. /\ state = "RD_END" /\ state' = "RD_IDLE" /\ end_of_exec' = TRUE /\ p' = p
      BY <1>5 DEF RdEnd, Outputs
    <2>2. answered = p.num /\ answered' = answered
      BY <1>1, <1>2, <2>1 DEF IssueInv, BalanceInv, NewRun, One
    <2> QED
      BY <2>1, <2>2 DEF Contract!Next, Contract!End
  <1>6. CASE RdStarted \/ RdLatValid(ready) \/ RdLatResp(last) \/ RdThValid(ready) \/ RdThResp
    <2>1. /\ state # "RD_IDLE" /\ state' # "RD_IDLE" /\ p' = p /\ end_of_exec' = FALSE
      BY <1>6 DEF RdStarted, RdLatValid, RdLatResp, RdThValid, RdThResp, Outputs
    <2>2. end_of_exec = FALSE
      BY <1>1, <2>1 DEF EndInv
    <2>3. CASE last
      <3>1. answered' = answered + 1
        BY <1>2, <2>1, <2>3 DEF NewRun, One
      <3>2. answered < p.num
        BY <1>1, <1>2, <2>1, <2>3 DEF BalanceInv
      <3> QED
        BY <2>1, <2>2, <3>1, <3>2 DEF Contract!Next, Contract!Complete
    <2>4. CASE ~last
      <3>1. answered' = answered
        BY <1>1, <1>2, <2>1, <2>4 DEF NewRun, One
      <3> QED
        BY <2>1, <2>2, <3>1 DEF Contract!vars
    <2> QED
      BY <2>3, <2>4
  <1> QED
    BY <1>1, <1>3, <1>4, <1>5, <1>6 DEF Fsm

\* The read engine implements the contract the channel glue and the host rely
\* on, with starts and resets at any time: no operation is completed twice, the
\* end is raised after the last one and once.
THEOREM ReadEngineImplements == Spec => ImplementsContract
  <1>1. Init => Contract!Init
    BY DEF Init, Contract!Init
  <1>2. IndInv /\ [Next]_vars => [Contract!Next]_(Contract!vars)
    <2> SUFFICES ASSUME IndInv, [Next]_vars PROVE [Contract!Next]_(Contract!vars)
      OBVIOUS
    <2>1. CASE Reset
      BY <2>1 DEF Reset, Contract!Next, Contract!Abort, Contract!vars
    <2>2. CASE UNCHANGED vars
      BY <2>2 DEF vars, fsm, memory, Contract!vars
    <2> QED
      BY <2>1, <2>2, TickImplements DEF Next
  <1> QED
    BY Invariance, <1>1, <1>2, PTL DEF Spec, ImplementsContract, Contract!Spec
=============================================================================
