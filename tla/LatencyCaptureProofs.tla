------------------------ MODULE LatencyCaptureProofs ------------------------
(***************************************************************************)
(* The way of the latency samples to the host, for every RAM size, width    *)
(* and latency, every read FSM wait and every number of operations: nothing *)
(* is lost on the way in, and, when the run fits the RAM and the read path  *)
(* is given its time, what the host reads is what the engine published.     *)
(***************************************************************************)
EXTENDS LatencyCapture, RegisterTheorems, TLAPS

-----------------------------------------------------------------------------
TypeInv ==
    /\ host \in {"start1", "start0", "poll", "read", "exit"}
    /\ start \in BOOLEAN /\ paced \in BOOLEAN /\ fifo_rd_en_r \in BOOLEAN
    /\ emitted \in Seq(Latencies) /\ fifo \in Seq(Latencies)
    /\ addra_ori \in 0 .. RamSize - 1 /\ addrb_ori \in 0 .. RamSize - 1
    /\ ram_data_in \in Nat /\ lat_timer_out \in Nat /\ reg16 \in Nat
    /\ ram \in [0 .. RamSize - 1 -> Nat] /\ doutb \in [1 .. RamLatency -> Nat]
    /\ r_cstate \in {"RIDLE", "RDATA", "RWAIT"}
    /\ counter \in 0 .. RWait - 1 /\ gap \in 0 .. HostGap
    /\ lat_time_arry \in Seq(Nat)

-----------------------------------------------------------------------------
(***************************************************************************)
(* The way in.                                                              *)
(***************************************************************************)
Before == {"start1", "start0"}

\* The samples that have reached the RAM.
Written == Len(emitted) - Len(fifo) - One(fifo_rd_en_r)

\* Both pointers are released together with the engines, and from then on the
\* write pointer counts.
CountInv ==
    /\ start <=> host = "start0"
    /\ host \in Before => emitted = << >> /\ fifo = << >> /\ ~fifo_rd_en_r
    /\ Written \in Nat
    /\ host \notin Before => addra_ori = Written % RamSize

-----------------------------------------------------------------------------
(***************************************************************************)
(* The way out.                                                             *)
(***************************************************************************)
\* FIFO, write register and RAM hold the samples in the order they came.
DataInv ==
    /\ Len(emitted) <= Ops
    /\ \A k \in 1 .. Len(fifo) : fifo[k] = emitted[Len(emitted) - Len(fifo) + k]
    /\ fifo_rd_en_r => ram_data_in = emitted[Written + 1]
    /\ \A a \in 0 .. RamSize - 1 : a < Written => ram[a] = emitted[a + 1]

\* Cycles since the read pointer last moved, as far as the read FSM can tell.
Age == CASE r_cstate = "RWAIT" -> counter
         [] r_cstate = "RIDLE" -> RWait + gap
         [] r_cstate = "RDATA" -> RWait + HostGap + 1

\* The value under the read pointer has come as far as its age says.
PathInv ==
    /\ \A k \in 1 .. RamLatency : k <= Age => doutb[k] = ram[addrb_ori]
    /\ Age >= RamLatency + 1 => lat_timer_out = ram[addrb_ori]
    /\ Age >= RamLatency + 2 => reg16 = ram[addrb_ori]

ReadInv ==
    /\ r_cstate = "RWAIT" => gap = 0
    /\ host \in Before \cup {"poll"} => lat_time_arry = << >> /\ r_cstate = "RIDLE"
    /\ host = "poll" => addrb_ori = 0
    /\ host = "read" =>
          /\ Len(emitted) = Ops /\ fifo = << >> /\ ~fifo_rd_en_r
          /\ addrb_ori = Len(lat_time_arry) /\ Len(lat_time_arry) < numRegReadNum
          /\ PathInv

LoggedInv ==
    /\ Len(lat_time_arry) <= Len(emitted)
    /\ \A k \in 1 .. Len(lat_time_arry) : lat_time_arry[k] = emitted[k]

Inv == TypeInv /\ CountInv /\ DataInv /\ ReadInv /\ LoggedInv

\* No sample is published while start is still high.
StartInTime == StartOutlasts = FALSE

\* The run fits the RAM, its latencies fit a RAM word, and the value under the
\* read pointer is in the register when the host reads it.
CaptureFits ==
    /\ StartInTime
    /\ Ops <= RamSize
    /\ \A v \in Latencies : v < RamWidth
    /\ RWait + HostGap >= RamLatency + 1

-----------------------------------------------------------------------------
\* The constants as numbers.
LEMMA Numbers ==
    /\ Ops \in Nat \ {0} /\ RamSize \in Nat \ {0} /\ RamWidth \in Nat \ {0}
    /\ RamLatency \in Nat \ {0} /\ RWait \in Nat \ {0} /\ ReadMax \in Nat \ {0}
    /\ HostGap \in Nat /\ Latencies \subseteq Nat /\ StartOutlasts \in BOOLEAN
    /\ numRegReadNum \in Nat \ {0} /\ numRegReadNum <= Ops
  BY BoundsAssumption DEF numRegReadNum

\* Registers and memories at reset.
LEMMA InitType == Init => TypeInv
  <1> SUFFICES ASSUME Init PROVE TypeInv
    OBVIOUS
  <1> USE DEF Init
  <1>1. start \in BOOLEAN /\ paced \in BOOLEAN /\ fifo_rd_en_r \in BOOLEAN
    OBVIOUS
  <1>2. addra_ori \in 0 .. RamSize - 1 /\ addrb_ori \in 0 .. RamSize - 1
    BY Numbers
  <1>3. ram \in [0 .. RamSize - 1 -> Nat] /\ doutb \in [1 .. RamLatency -> Nat]
    OBVIOUS
  <1>4. counter \in 0 .. RWait - 1 /\ gap \in 0 .. HostGap
    BY Numbers
  <1> QED
    BY <1>1, <1>2, <1>3, <1>4 DEF TypeInv

\* A sample enters the FIFO.
LEMMA SampleType ==
    ASSUME TypeInv, NEW v \in Latencies, Sample(v)
    PROVE  TypeInv'
  <1>1. emitted' \in Seq(Latencies) /\ fifo' \in Seq(Latencies) /\ paced' \in BOOLEAN
    <2>1. emitted' = Append(emitted, v) /\ fifo' = Append(fifo, v) /\ paced' = FALSE
      BY DEF Sample
    <2>2. emitted \in Seq(Latencies) /\ fifo \in Seq(Latencies)
      BY DEF TypeInv
    <2>3. Append(emitted, v) \in Seq(Latencies)
      BY <2>2
    <2>4. Append(fifo, v) \in Seq(Latencies)
      BY <2>2
    <2>5. paced' \in BOOLEAN
      BY <2>1
    <2> QED
      BY <2>1, <2>3, <2>4, <2>5
  <1>2. UNCHANGED <<host, lat_time_arry, start, fifo_rd_en_r, ram_data_in, addra_ori, addrb_ori,
                    ram, doutb, lat_timer_out, reg16, r_cstate, counter, gap>>
    BY DEF Sample, hostVars, readVars
  <1> QED
    BY <1>1, <1>2 DEF TypeInv

\* A bus cycle keeps every register within its width.
LEMMA BusTickType ==
    ASSUME TypeInv, NEW go \in BOOLEAN, NEW pop \in BOOLEAN, BusTick(go, pop)
    PROVE  TypeInv'
  <1>0. paced' \in BOOLEAN /\ emitted' = emitted
    BY DEF BusTick
  <1>1. /\ fifo' \in Seq(Latencies) /\ fifo_rd_en_r' \in BOOLEAN
    BY DEF BusTick, FifoRead, TypeInv
  <1>2. ram_data_in' \in Nat
    <2>1. CASE fifo = << >>
      BY <2>1 DEF BusTick, FifoRead, RamDataIn, TypeInv
    <2>2. CASE fifo # << >>
      <3>1. Head(fifo) \in Nat
        <4>1. fifo \in Seq(Latencies)
          BY DEF TypeInv
        <4>2. Head(fifo) \in Latencies
          BY <2>2, <4>1
        <4> QED
          BY <4>2, Numbers
      <3>2. Head(fifo) % RamWidth \in Nat
        BY <3>1, Numbers, DivModNat
      <3> QED
        BY <2>2, <3>2 DEF BusTick, FifoRead, RamDataIn
    <2> QED
      BY <2>1, <2>2
  <1>3. ram' \in [0 .. RamSize - 1 -> Nat]
    BY DEF BusTick, RamWrite, TypeInv
  <1>4. addra_ori' \in 0 .. RamSize - 1 /\ addrb_ori' \in 0 .. RamSize - 1
    <2>1. /\ (addra_ori + 1) % RamSize \in 0 .. RamSize - 1
          /\ (addrb_ori + 1) % RamSize \in 0 .. RamSize - 1
      BY Numbers DEF TypeInv
    <2>2. 0 \in 0 .. RamSize - 1
      BY Numbers
    <2>3. WritePointer /\ \E taken \in BOOLEAN : ReadPointer(taken)
      BY DEF BusTick
    <2>4. start \in BOOLEAN /\ fifo_rd_en_r \in BOOLEAN
      BY DEF TypeInv
    <2> QED
      BY <2>1, <2>2, <2>3, <2>4 DEF WritePointer, ReadPointer, TypeInv
  <1>5. /\ doutb' \in [1 .. RamLatency -> Nat] /\ lat_timer_out' \in Nat /\ reg16' \in Nat
    <2>1. ram[addrb_ori] \in Nat
      BY DEF TypeInv
    <2>2. \A k \in 1 .. RamLatency : k # 1 => doutb[k - 1] \in Nat
      BY Numbers DEF TypeInv
    <2>3. RamLatency \in 1 .. RamLatency
      BY Numbers
    <2>4. ReadPath
      BY DEF BusTick
    <2> QED
      BY <2>1, <2>2, <2>3, <2>4 DEF ReadPath, TypeInv
  <1>6. /\ r_cstate' \in {"RIDLE", "RDATA", "RWAIT"}
        /\ counter' \in 0 .. RWait - 1 /\ gap' \in 0 .. HostGap
    <2>1. 0 \in 0 .. RWait - 1 /\ 0 \in 0 .. HostGap
      BY Numbers
    <2>2. (counter + 1) % RWait \in 0 .. RWait - 1
      BY Numbers DEF TypeInv
    <2>3. (IF gap < HostGap THEN gap + 1 ELSE gap) \in 0 .. HostGap
      BY Numbers DEF TypeInv
    <2>4. ReadFSM(go)
      BY DEF BusTick
    <2> QED
      BY <2>1, <2>2, <2>3, <2>4 DEF ReadFSM, TypeInv
  <1>7. host' \in {"start1", "start0", "poll", "read", "exit"} /\ start' \in BOOLEAN
    BY DEF BusTick, Host, hostVars, TypeInv
  <1>8. lat_time_arry' \in Seq(Nat)
    <2>1. lat_time_arry' = lat_time_arry \/ lat_time_arry' = Append(lat_time_arry, reg16)
      BY DEF BusTick, Host, hostVars
    <2>2. lat_time_arry \in Seq(Nat) /\ reg16 \in Nat
      BY DEF TypeInv
    <2> QED
      BY <2>1, <2>2
  <1> QED
    BY <1>0, <1>1, <1>2, <1>3, <1>4, <1>5, <1>6, <1>7, <1>8 DEF TypeInv

\* Every step keeps the types.
LEMMA NextType == TypeInv /\ [Next]_vars => TypeInv'
  <1> SUFFICES ASSUME TypeInv, [Next]_vars PROVE TypeInv'
    OBVIOUS
  <1>1. ASSUME UNCHANGED vars PROVE TypeInv'
    BY <1>1 DEF vars, hostVars, readVars, TypeInv
  <1> QED
    BY <1>1, SampleType, BusTickType DEF Next, Finished

\* The types hold in every state.
THEOREM TypeInvariance == Spec => []TypeInv
  BY InitType, NextType, PTL DEF Spec

\* Types and widths, for every run and every timing of start.
THEOREM TypeCorrect == Spec => []TypeOK
  <1>1. TypeInv => TypeOK
    BY DEF TypeInv, TypeOK
  <1> QED
    BY <1>1, TypeInvariance, PTL

-----------------------------------------------------------------------------
\* What a bus cycle does to FIFO, write register and write pointer.
LEMMA BusTickCount ==
    ASSUME StartInTime, TypeInv, CountInv, NEW go \in BOOLEAN, NEW pop \in BOOLEAN, BusTick(go, pop)
    PROVE  CountInv' /\ Written' = Written + One(fifo_rd_en_r)
  <1>0. /\ emitted' = emitted /\ FifoRead(pop) /\ WritePointer /\ Host(go)
        /\ start \in BOOLEAN /\ fifo_rd_en_r \in BOOLEAN
    BY DEF BusTick, TypeInv
  <1>1. Len(emitted) \in Nat /\ Len(fifo) \in Nat
    BY DEF TypeInv
  <1>2. Len(fifo') = Len(fifo) - One(pop) /\ fifo_rd_en_r' = pop
    BY <1>0 DEF FifoRead, One, TypeInv
  <1>3. Written' = Written + One(fifo_rd_en_r)
    BY <1>0, <1>1, <1>2, OneType DEF Written
  <1>4. start' <=> host' = "start0"
    BY <1>0 DEF Host, hostVars, CountInv
  <1>5. host' \in Before => emitted' = << >> /\ fifo' = << >> /\ ~fifo_rd_en_r'
    <2>1. host' \in Before => host \in Before
      BY <1>0 DEF Host, hostVars, Before, TypeInv
    <2>2. host \in Before => emitted = << >> /\ fifo = << >>
      BY DEF CountInv
    <2> QED
      BY <1>0, <2>1, <2>2 DEF FifoRead
  <1>6. Written' \in Nat
    BY <1>0, <1>3, OneType DEF CountInv
  <1>7. ASSUME host' \notin Before
        PROVE  addra_ori' = Written' % RamSize
    <2>1. CASE host = "start0"
      <3>1. start /\ ~fifo_rd_en_r /\ emitted = << >> /\ fifo = << >>
        BY <2>1 DEF CountInv, Before
      <3>2. addra_ori' = 0 /\ Written' = 0
        BY <1>0, <1>3, <3>1 DEF WritePointer, Written, One
      <3> QED
        BY <3>2, Numbers
    <2>2. CASE host # "start0"
      <3>1. host # "start1"
        BY <1>0, <1>7 DEF Host, hostVars, Before
      <3>2. ~start /\ addra_ori = Written % RamSize /\ Written \in Nat
        BY <2>2, <3>1 DEF CountInv, Before
      <3>3. CASE fifo_rd_en_r
        <4>1. addra_ori' = ((Written % RamSize) + 1) % RamSize /\ Written' = Written + 1
          BY <1>0, <1>3, <3>2, <3>3 DEF WritePointer, One
        <4> QED
          BY <3>2, <4>1, ModShift, Numbers
      <3>4. CASE ~fifo_rd_en_r
        BY <1>0, <1>3, <3>2, <3>4 DEF WritePointer, One
      <3> QED
        BY <3>3, <3>4
    <2> QED
      BY <2>1, <2>2
  <1> QED
    BY <1>3, <1>4, <1>5, <1>6, <1>7 DEF CountInv

\* A sample that is published enters the FIFO; it has not reached the RAM.
LEMMA SampleCount ==
    ASSUME StartInTime, TypeInv, CountInv, NEW v \in Latencies, Sample(v)
    PROVE  CountInv' /\ Written' = Written /\ host \notin Before
  <1>1. /\ ~start /\ host # "start1" /\ emitted' = Append(emitted, v) /\ fifo' = Append(fifo, v)
        /\ UNCHANGED <<host, start, fifo_rd_en_r, addra_ori>>
    BY DEF Sample, StartInTime, hostVars
  <1>2. host \notin Before
    BY <1>1 DEF CountInv, Before
  <1>3. Len(emitted') = Len(emitted) + 1 /\ Len(fifo') = Len(fifo) + 1
          /\ Len(emitted) \in Nat /\ Len(fifo) \in Nat
    BY <1>1 DEF TypeInv
  <1>4. Written' = Written
    BY <1>1, <1>3, OneType DEF Written, TypeInv
  <1> QED
    BY <1>1, <1>2, <1>4 DEF CountInv

\* The count is kept by every step.
LEMMA NextCount ==
    ASSUME StartInTime, TypeInv, CountInv, [Next]_vars
    PROVE  CountInv'
  <1>1. ASSUME UNCHANGED vars PROVE CountInv'
    BY <1>1 DEF vars, hostVars, CountInv, Written
  <1> QED
    BY <1>1, SampleCount, BusTickCount DEF Next, Finished

\* Nothing is published before the pointers are released.
LEMMA InitCount == Init => CountInv
  BY DEF Init, CountInv, Written, One, Before

\* The pointer counts every sample that has reached the RAM, for as long as the
\* run lasts and however often the pointer wraps.
THEOREM NothingLostOnTheWay == ASSUME StartInTime PROVE Spec => []NoSampleLostOnTheWay
  <1>1. Init => CountInv
    BY InitCount
  <1>2. TypeInv /\ CountInv /\ [Next]_vars => CountInv'
    BY NextCount
  <1>3. TypeInv /\ CountInv => NoSampleLostOnTheWay
    <2> SUFFICES ASSUME TypeInv, CountInv, ~start, host # "start1"
                 PROVE  Len(emitted) % RamSize =
                            (addra_ori + Len(fifo) + (IF fifo_rd_en_r THEN 1 ELSE 0)) % RamSize
      BY DEF NoSampleLostOnTheWay
    <2> DEFINE k == Len(fifo) + One(fifo_rd_en_r)
    <2>1. k \in Nat /\ Len(emitted) = Written + k /\ Written \in Nat /\ Len(fifo) \in Nat
      <3>1. Len(fifo) \in Nat /\ Len(emitted) \in Nat /\ Written \in Nat
        BY DEF TypeInv, CountInv
      <3>2. One(fifo_rd_en_r) \in {0, 1}
        BY OneType DEF TypeInv
      <3> QED
        BY <3>1, <3>2 DEF Written
    <2>2. addra_ori = Written % RamSize /\ addra_ori \in Nat
      BY DEF CountInv, Before, TypeInv
    <2>3. addra_ori + Len(fifo) + (IF fifo_rd_en_r THEN 1 ELSE 0) = (Written % RamSize) + k
      BY <2>1, <2>2 DEF One
    <2> HIDE DEF k
    <2>4. ((Written % RamSize) + k) % RamSize = (Written + k) % RamSize
      BY <2>1, ModShift, Numbers
    <2> QED
      BY <2>1, <2>3, <2>4
  <1> QED
    BY <1>1, <1>2, <1>3, TypeInvariance, PTL DEF Spec

-----------------------------------------------------------------------------
\* The numbers the sample counts are made of.
LEMMA Counts ==
    ASSUME TypeInv, CountInv
    PROVE  /\ Len(emitted) \in Nat /\ Len(fifo) \in Nat /\ Written \in Nat
           /\ One(fifo_rd_en_r) \in {0, 1}
           /\ Written = Len(emitted) - Len(fifo) - One(fifo_rd_en_r)
  <1>1. Len(emitted) \in Nat /\ Len(fifo) \in Nat
    BY DEF TypeInv
  <1>2. One(fifo_rd_en_r) \in {0, 1}
    BY OneType DEF TypeInv
  <1>3. Written \in Nat
    BY DEF CountInv
  <1> QED
    BY <1>1, <1>2, <1>3 DEF Written

\* A published sample goes to the end of the FIFO and of the history.
LEMMA SampleData ==
    ASSUME CaptureFits, TypeInv, CountInv, DataInv, NEW v \in Latencies, Sample(v)
    PROVE  DataInv'
  <1>0. StartInTime
    BY DEF CaptureFits
  <1>1. /\ emitted' = Append(emitted, v) /\ fifo' = Append(fifo, v) /\ Len(emitted) < Ops
        /\ UNCHANGED <<fifo_rd_en_r, ram_data_in, ram>>
    BY DEF Sample
  <1>2. /\ emitted \in Seq(Latencies) /\ fifo \in Seq(Latencies) /\ v \in Latencies
    BY DEF TypeInv
  <1>3. Written' = Written
    BY <1>0, SampleCount
  <1>4. Len(emitted') = Len(emitted) + 1 /\ Len(fifo') = Len(fifo) + 1
    BY <1>1, <1>2
  <1>5. Len(emitted') <= Ops
    BY <1>1, <1>4, Counts, Numbers
  <1>6. \A k \in 1 .. Len(emitted) : emitted'[k] = emitted[k]
    BY <1>1, <1>2
  <1>7. emitted'[Len(emitted) + 1] = v
    BY <1>1, <1>2
  <1>8. ASSUME NEW k \in 1 .. Len(fifo')
        PROVE  fifo'[k] = emitted'[Len(emitted') - Len(fifo') + k]
    <2>1. CASE k \in 1 .. Len(fifo)
      <3>1. fifo'[k] = fifo[k]
        BY <1>1, <1>2, <2>1
      <3>2. fifo[k] = emitted[Len(emitted) - Len(fifo) + k]
        BY <2>1 DEF DataInv
      <3>3. /\ Len(emitted) - Len(fifo) + k \in 1 .. Len(emitted)
            /\ Len(emitted') - Len(fifo') + k = Len(emitted) - Len(fifo) + k
        BY <1>4, <2>1, Counts
      <3> QED
        BY <1>6, <3>1, <3>2, <3>3
    <2>2. CASE k = Len(fifo) + 1
      <3>1. fifo'[k] = v
        BY <1>1, <1>2, <2>2
      <3>2. Len(emitted') - Len(fifo') + k = Len(emitted) + 1
        BY <1>4, <2>2, Counts
      <3> QED
        BY <1>7, <3>1, <3>2
    <2> QED
      BY <1>4, <2>1, <2>2, Counts
  <1>9. ASSUME fifo_rd_en_r'
        PROVE  ram_data_in' = emitted'[Written' + 1]
    <2>1. Written + 1 \in 1 .. Len(emitted)
      BY <1>1, <1>9, Counts DEF One
    <2>2. ram_data_in = emitted[Written + 1]
      BY <1>1, <1>9 DEF DataInv
    <2> QED
      BY <1>1, <1>3, <1>6, <2>1, <2>2
  <1>10. ASSUME NEW a \in 0 .. RamSize - 1, a < Written'
         PROVE  ram'[a] = emitted'[a + 1]
    <2>1. a + 1 \in 1 .. Len(emitted)
      BY <1>3, <1>10, Counts
    <2>2. ram[a] = emitted[a + 1]
      BY <1>3, <1>10 DEF DataInv
    <2> QED
      BY <1>1, <1>6, <2>1, <2>2
  <1> QED
    BY <1>5, <1>8, <1>9, <1>10 DEF DataInv

\* A sample moves from the FIFO to the write register and from there into the
\* RAM word of its number.
LEMMA BusTickData ==
    ASSUME CaptureFits, TypeInv, CountInv, DataInv,
           NEW go \in BOOLEAN, NEW pop \in BOOLEAN, BusTick(go, pop)
    PROVE  DataInv'
  <1>0. StartInTime
    BY DEF CaptureFits
  <1>1. /\ emitted' = emitted /\ FifoRead(pop) /\ RamWrite
        /\ emitted \in Seq(Latencies) /\ fifo \in Seq(Latencies)
    BY DEF BusTick, TypeInv
  <1>2. Written' = Written + One(fifo_rd_en_r)
    BY <1>0, BusTickCount
  <1>3. Len(emitted') <= Ops
    BY <1>1 DEF DataInv
  <1>4. fifo_rd_en_r' = pop
    BY <1>1 DEF FifoRead
  <1>5. ASSUME pop
        PROVE  fifo # << >> /\ fifo' = Tail(fifo) /\ Len(fifo) > 0 /\ Len(fifo') = Len(fifo) - 1
               /\ \A k \in 1 .. Len(fifo) - 1 : fifo'[k] = fifo[k + 1]
    <2>1. fifo # << >> /\ fifo' = Tail(fifo)
      BY <1>1, <1>5 DEF FifoRead
    <2>2. Len(fifo) > 0 /\ Len(Tail(fifo)) = Len(fifo) - 1
      BY <1>1, <2>1
    <2>3. \A k \in 1 .. Len(fifo) - 1 : Tail(fifo)[k] = fifo[k + 1]
      BY <1>1, <2>1
    <2> QED
      BY <2>1, <2>2, <2>3
  <1>6. ~pop => fifo' = fifo
    BY <1>1 DEF FifoRead
  <1>7. ASSUME NEW k \in 1 .. Len(fifo')
        PROVE  fifo'[k] = emitted'[Len(emitted') - Len(fifo') + k]
    <2>1. CASE pop
      <3>1. k + 1 \in 1 .. Len(fifo) /\ k \in 1 .. Len(fifo) - 1
        BY <1>5, <1>7, <2>1, Counts
      <3>2. fifo[k + 1] = emitted[Len(emitted) - Len(fifo) + (k + 1)]
        BY <3>1 DEF DataInv
      <3>3. Len(emitted) - Len(fifo) + (k + 1) = Len(emitted') - Len(fifo') + k
        <4>1. Len(emitted') = Len(emitted) /\ Len(fifo') = Len(fifo) - 1
          BY <1>1, <1>5, <2>1
        <4>2. k \in Nat
          BY <3>1
        <4> QED
          BY <4>1, <4>2, Counts
      <3> QED
        BY <1>1, <1>5, <2>1, <3>1, <3>2, <3>3
    <2>2. CASE ~pop
      BY <1>1, <1>6, <1>7, <2>2 DEF DataInv
    <2> QED
      BY <2>1, <2>2
  <1>8. ASSUME fifo_rd_en_r'
        PROVE  ram_data_in' = emitted'[Written' + 1]
    <2>1. pop
      BY <1>4, <1>8
    <2>2. Head(fifo) = fifo[1] /\ Head(fifo) \in Latencies /\ 1 \in 1 .. Len(fifo)
      BY <1>1, <1>5, <2>1
    <2>3. fifo[1] = emitted[Len(emitted) - Len(fifo) + 1]
      BY <2>2 DEF DataInv
    <2>4. Head(fifo) % RamWidth = Head(fifo)
      <3>1. Head(fifo) \in Nat /\ Head(fifo) < RamWidth
        BY <2>2, Numbers DEF CaptureFits
      <3> QED
        BY <3>1, Numbers
    <2>5. ram_data_in' = Head(fifo)
      BY <1>1, <1>5, <2>1, <2>4 DEF FifoRead, RamDataIn
    <2>6. Written' + 1 = Len(emitted) - Len(fifo) + 1
      BY <1>2, Counts
    <2> QED
      BY <1>1, <2>2, <2>3, <2>5, <2>6
  <1>9. ASSUME NEW a \in 0 .. RamSize - 1, a < Written'
        PROVE  ram'[a] = emitted'[a + 1]
    <2>1. CASE fifo_rd_en_r
      <3>1. Written < RamSize /\ Written' = Written + 1
        BY <1>2, <2>1, Counts, Numbers DEF DataInv, CaptureFits, One
      <3>2. addra_ori = Written
        BY <2>1, <3>1, Counts, Numbers DEF CountInv
      <3>3. ram' = [ram EXCEPT ![addra_ori] = ram_data_in]
        BY <1>1, <2>1 DEF RamWrite
      <3>4. ram \in [0 .. RamSize - 1 -> Nat]
        BY DEF TypeInv
      <3>5. CASE a = Written
        BY <1>1, <2>1, <3>2, <3>3, <3>4, <3>5 DEF DataInv
      <3>6. CASE a # Written
        <4>1. a < Written
          BY <1>9, <3>1, <3>6, Counts
        <4>2. ram[a] = emitted[a + 1]
          BY <4>1 DEF DataInv
        <4> QED
          BY <1>1, <3>2, <3>3, <3>4, <3>6, <4>2
      <3> QED
        BY <3>5, <3>6
    <2>2. CASE ~fifo_rd_en_r
      <3>1. ram' = ram /\ Written' = Written
        BY <1>1, <1>2, <2>2, Counts DEF RamWrite, One
      <3> QED
        BY <1>1, <1>9, <3>1 DEF DataInv
    <2> QED
      BY <2>1, <2>2
  <1> QED
    BY <1>3, <1>7, <1>8, <1>9 DEF DataInv

-----------------------------------------------------------------------------
\* The host does not read while samples are still coming.
LEMMA SampleRead ==
    ASSUME CaptureFits, TypeInv, CountInv, ReadInv, LoggedInv, NEW v \in Latencies, Sample(v)
    PROVE  ReadInv' /\ LoggedInv'
  <1>1. /\ emitted' = Append(emitted, v) /\ Len(emitted) < Ops
        /\ UNCHANGED <<host, lat_time_arry, r_cstate, gap, addrb_ori>>
    BY DEF Sample, hostVars, readVars
  <1>2. emitted \in Seq(Latencies) /\ Len(emitted) \in Nat /\ Len(lat_time_arry) \in Nat
    BY DEF TypeInv
  <1>3. host # "read"
    BY <1>1, <1>2, Numbers DEF ReadInv
  <1>4. ReadInv'
    BY <1>1, <1>3 DEF ReadInv
  <1>5. Len(emitted') = Len(emitted) + 1 /\ \A k \in 1 .. Len(emitted) : emitted'[k] = emitted[k]
    BY <1>1, <1>2
  <1>6. LoggedInv'
    BY <1>1, <1>2, <1>5 DEF LoggedInv
  <1> QED
    BY <1>4, <1>6

\* The age grows by at most one in a cycle, and is zero again after a read.
LEMMA AgeStep ==
    ASSUME TypeInv, r_cstate = "RWAIT" => gap = 0, NEW go \in BOOLEAN, ReadFSM(go)
    PROVE  /\ Age \in Nat /\ Age' \in Nat
           /\ r_cstate' = "RWAIT" => gap' = 0
           /\ IF go /\ r_cstate = "RDATA" THEN Age' = 0 ELSE Age' <= Age + 1
  <1>1. /\ counter \in Nat /\ counter <= RWait - 1 /\ gap \in Nat /\ gap <= HostGap
        /\ RWait \in Nat /\ HostGap \in Nat
    BY Numbers DEF TypeInv
  <1>2. CASE r_cstate = "RIDLE"
    <2>1. /\ gap' = IF gap < HostGap THEN gap + 1 ELSE gap
          /\ r_cstate' = "RIDLE" \/ (r_cstate' = "RDATA" /\ gap >= HostGap)
      BY <1>2 DEF ReadFSM
    <2> QED
      BY <1>1, <1>2, <2>1 DEF Age
  <1>3. CASE r_cstate = "RDATA"
    <2>1. gap' = 0 /\ counter' = 0 /\ r_cstate' = IF go THEN "RWAIT" ELSE r_cstate
      BY <1>3 DEF ReadFSM
    <2> QED
      BY <1>1, <1>3, <2>1 DEF Age
  <1>4. CASE r_cstate = "RWAIT"
    <2>1. /\ gap' = gap /\ gap = 0
          /\ r_cstate' = IF LastWait THEN "RIDLE" ELSE r_cstate
          /\ counter' = IF LastWait THEN 0 ELSE (counter + 1) % RWait
      BY <1>4 DEF ReadFSM
    <2>2. CASE LastWait
      BY <1>1, <1>4, <2>1, <2>2 DEF Age, LastWait
    <2>3. CASE ~LastWait
      <3>1. (counter + 1) % RWait = counter + 1
        BY <1>1, <2>3 DEF LastWait
      <3> QED
        BY <1>1, <1>4, <2>1, <2>3, <3>1 DEF Age
    <2> QED
      BY <2>2, <2>3
  <1> QED
    BY <1>2, <1>3, <1>4 DEF TypeInv

\* A value moves one place down the read path in every cycle.
LEMMA PathStep ==
    ASSUME TypeInv, ReadPath, ram' = ram, addrb_ori' = addrb_ori,
           Age \in Nat, Age' \in Nat, Age' <= Age + 1, PathInv
    PROVE  PathInv'
  <1>1. RamLatency \in Nat \ {0} /\ RamLatency \in 1 .. RamLatency
    BY Numbers
  <1>2. ASSUME NEW k \in 1 .. RamLatency, k <= Age'
        PROVE  doutb'[k] = ram'[addrb_ori']
    <2>1. CASE k = 1
      BY <2>1 DEF ReadPath
    <2>2. CASE k # 1
      <3>1. k - 1 \in 1 .. RamLatency /\ k - 1 <= Age
        BY <1>1, <1>2, <2>2
      <3>2. doutb'[k] = doutb[k - 1]
        BY <2>2 DEF ReadPath
      <3> QED
        BY <3>1, <3>2 DEF PathInv
    <2> QED
      BY <2>1, <2>2
  <1>3. ASSUME Age' >= RamLatency + 1
        PROVE  lat_timer_out' = ram'[addrb_ori']
    <2>1. RamLatency <= Age
      BY <1>1, <1>3
    <2> QED
      BY <1>1, <2>1 DEF PathInv, ReadPath
  <1>4. ASSUME Age' >= RamLatency + 2
        PROVE  reg16' = ram'[addrb_ori']
    <2>1. Age >= RamLatency + 1
      BY <1>1, <1>4
    <2> QED
      BY <2>1 DEF PathInv, ReadPath
  <1> QED
    BY <1>2, <1>3, <1>4 DEF PathInv

\* Once the samples are in, a bus cycle leaves the RAM and the FIFO alone.
LEMMA QuietTick ==
    ASSUME TypeInv, NEW go \in BOOLEAN, NEW pop \in BOOLEAN, BusTick(go, pop),
           fifo = << >>, ~fifo_rd_en_r
    PROVE  fifo' = << >> /\ ~fifo_rd_en_r' /\ ram' = ram /\ emitted' = emitted
  BY DEF BusTick, FifoRead, RamWrite

\* A cycle of the read loop: either the value under the read pointer travels on,
\* or the host takes it, by when it has arrived.
LEMMA ReadTick ==
    ASSUME CaptureFits, TypeInv, CountInv, DataInv, ReadInv, LoggedInv, host = "read",
           NEW go \in BOOLEAN, NEW pop \in BOOLEAN, BusTick(go, pop)
    PROVE  ReadInv' /\ LoggedInv'
  <1>1. /\ Len(emitted) = Ops /\ fifo = << >> /\ ~fifo_rd_en_r
        /\ addrb_ori = Len(lat_time_arry) /\ Len(lat_time_arry) < numRegReadNum
        /\ PathInv /\ ~start
        /\ Len(lat_time_arry) <= Len(emitted)
        /\ \A k \in 1 .. Len(lat_time_arry) : lat_time_arry[k] = emitted[k]
    BY DEF ReadInv, CountInv, LoggedInv
  <1>2. ReadPath /\ ReadFSM(go) /\ Host(go) /\ ReadPointer(go /\ r_cstate = "RDATA")
    BY DEF BusTick
  <1>3. fifo' = << >> /\ ~fifo_rd_en_r' /\ ram' = ram /\ emitted' = emitted
    BY <1>1, QuietTick
  <1>4. /\ Age \in Nat /\ Age' \in Nat
        /\ r_cstate' = "RWAIT" => gap' = 0
        /\ IF go /\ r_cstate = "RDATA" THEN Age' = 0 ELSE Age' <= Age + 1
    BY <1>2, AgeStep DEF ReadInv
  <1>5. Len(lat_time_arry) \in Nat /\ lat_time_arry \in Seq(Nat) /\ reg16 \in Nat
    BY DEF TypeInv
  <1>6. host' \in {"read", "exit"}
    BY <1>2 DEF Host, hostVars
  <1>7. CASE go /\ r_cstate = "RDATA"
    <2>1. /\ lat_time_arry' = Append(lat_time_arry, reg16)
          /\ host' = IF Len(lat_time_arry) + 1 = numRegReadNum THEN "exit" ELSE host
      BY <1>2, <1>7 DEF Host, hostVars
    <2>2. Len(lat_time_arry') = Len(lat_time_arry) + 1
      BY <1>5, <2>1
    <2>3. Len(lat_time_arry) + 1 <= numRegReadNum /\ numRegReadNum <= Ops
            /\ Ops <= RamSize /\ Len(lat_time_arry) \in 0 .. RamSize - 1
      BY <1>1, <1>5, Numbers DEF CaptureFits
    <2>4. reg16 = emitted[Len(lat_time_arry) + 1]
      <3>1. Age >= RamLatency + 2
        BY <1>7, Numbers DEF Age, CaptureFits
      <3>2. reg16 = ram[Len(lat_time_arry)]
        BY <1>1, <3>1 DEF PathInv
      <3>3. Len(lat_time_arry) < Written
        <4>1. Len(fifo) = 0 /\ One(fifo_rd_en_r) = 0
          BY <1>1 DEF One
        <4>2. Written = Ops
          BY <1>1, <4>1, Counts
        <4> QED
          BY <1>5, <2>3, <4>2, Numbers
      <3> QED
        BY <2>3, <3>2, <3>3 DEF DataInv
    <2>5. LoggedInv'
      <3>1. Len(lat_time_arry') <= Len(emitted')
        BY <1>1, <1>3, <1>5, <2>2, <2>3, Numbers
      <3>2. \A k \in 1 .. Len(lat_time_arry) : lat_time_arry'[k] = lat_time_arry[k]
        BY <1>5, <2>1
      <3>3. lat_time_arry'[Len(lat_time_arry) + 1] = reg16
        BY <1>5, <2>1
      <3>4. ASSUME NEW k \in 1 .. Len(lat_time_arry')
            PROVE  lat_time_arry'[k] = emitted'[k]
        <4>1. k \in 1 .. Len(lat_time_arry) \/ k = Len(lat_time_arry) + 1
          BY <1>5, <2>2
        <4> QED
          BY <1>1, <1>3, <2>4, <3>2, <3>3, <4>1
      <3> QED
        BY <3>1, <3>4 DEF LoggedInv
    <2>6. PathInv'
      BY <1>4, <1>7, Numbers DEF PathInv
    <2>7. ASSUME host' = "read"
          PROVE  addrb_ori' = Len(lat_time_arry') /\ Len(lat_time_arry') < numRegReadNum
      <3>1. Len(lat_time_arry) + 1 # numRegReadNum
        BY <2>1, <2>7
      <3>2. Len(lat_time_arry) + 1 < numRegReadNum
        BY <1>5, <2>3, <3>1, Numbers
      <3>3. (addrb_ori + 1) % RamSize = addrb_ori + 1
        BY <1>1, <1>5, <2>3, <3>2, Numbers
      <3>4. addrb_ori' = addrb_ori + 1
        BY <1>1, <1>2, <1>7, <3>3 DEF ReadPointer
      <3> QED
        BY <1>1, <2>2, <3>2, <3>4
    <2> QED
      BY <1>1, <1>3, <1>4, <1>6, <2>5, <2>6, <2>7 DEF ReadInv, Before
  <1>8. CASE ~(go /\ r_cstate = "RDATA")
    <2>1. UNCHANGED <<host, lat_time_arry>>
      BY <1>2, <1>8 DEF Host, hostVars
    <2>2. addrb_ori' = addrb_ori
      BY <1>1, <1>2, <1>8 DEF ReadPointer
    <2>3. PathInv'
      BY <1>1, <1>2, <1>3, <1>4, <1>8, <2>2, PathStep
    <2> QED
      BY <1>1, <1>3, <1>4, <2>1, <2>2, <2>3 DEF ReadInv, LoggedInv, Before
  <1> QED
    BY <1>7, <1>8

\* Up to the readout: the host starts to read only when the first value has
\* come through.
LEMMA WaitTick ==
    ASSUME CaptureFits, TypeInv, CountInv, ReadInv, LoggedInv, host # "read",
           NEW go \in BOOLEAN, NEW pop \in BOOLEAN, BusTick(go, pop)
    PROVE  ReadInv' /\ LoggedInv'
  <1>1. /\ ReadPath /\ ReadFSM(go) /\ Host(go) /\ ReadPointer(go /\ r_cstate = "RDATA")
        /\ emitted' = emitted /\ host # "exit"
    BY DEF BusTick
  <1>2. host \in Before \cup {"poll"} /\ (start <=> host = "start0")
    BY <1>1 DEF TypeInv, Before, CountInv
  <1>3. lat_time_arry = << >> /\ r_cstate = "RIDLE"
    BY <1>2 DEF ReadInv
  <1>4. lat_time_arry' = << >> /\ r_cstate' = "RIDLE"
    BY <1>1, <1>2, <1>3 DEF Host, ReadFSM, hostVars
  <1>5. host' = "poll" => addrb_ori' = 0
    <2>1. host' = "poll" => host \in {"start0", "poll"}
      BY <1>1, <1>2 DEF Host, hostVars
    <2>2. CASE host = "start0"
      BY <1>1, <1>2, <2>2 DEF ReadPointer
    <2>3. CASE host = "poll"
      BY <1>1, <1>2, <1>3, <2>3 DEF ReadPointer, ReadInv
    <2> QED
      BY <2>1, <2>2, <2>3
  <1>6. ASSUME host' = "read"
        PROVE  /\ Len(emitted') = Ops /\ fifo' = << >> /\ ~fifo_rd_en_r'
               /\ addrb_ori' = Len(lat_time_arry') /\ Len(lat_time_arry') < numRegReadNum
               /\ PathInv'
    <2>1. host = "poll" /\ Settled
      BY <1>1, <1>2, <1>6 DEF Host, hostVars, Before
    <2>2. fifo' = << >> /\ ~fifo_rd_en_r' /\ ram' = ram
      BY <2>1, QuietTick DEF Settled
    <2>3. addrb_ori' = addrb_ori /\ addrb_ori = 0
      BY <1>1, <1>2, <1>3, <2>1 DEF ReadPointer, ReadInv
    <2>4. PathInv'
      <3>1. ASSUME NEW k \in 1 .. RamLatency PROVE doutb'[k] = ram[addrb_ori]
        <4>1. k # 1 => k - 1 \in 1 .. RamLatency
          BY Numbers
        <4> QED
          BY <1>1, <2>1, <4>1 DEF ReadPath, Settled
      <3>2. RamLatency \in 1 .. RamLatency
        BY Numbers
      <3>3. lat_timer_out' = ram[addrb_ori] /\ reg16' = ram[addrb_ori]
        BY <1>1, <2>1, <3>2 DEF ReadPath, Settled
      <3> QED
        BY <2>2, <2>3, <3>1, <3>3 DEF PathInv
    <2>5. Len(lat_time_arry') = 0
      BY <1>4
    <2> QED
      BY <1>1, <2>1, <2>2, <2>3, <2>4, <2>5, Numbers DEF Settled
  <1>7. LoggedInv'
    <2>1. Len(lat_time_arry') = 0 /\ Len(emitted') \in Nat
      BY <1>1, <1>4 DEF TypeInv
    <2> QED
      BY <2>1 DEF LoggedInv
  <1> QED
    BY <1>4, <1>5, <1>6, <1>7 DEF ReadInv

\* The invariant, from the first cycle to the last read.
THEOREM CaptureInvariance == ASSUME CaptureFits PROVE Spec => []Inv
  <1>1. Init => Inv
    <2> SUFFICES ASSUME Init PROVE Inv
      OBVIOUS
    <2>1. DataInv
      <3>1. Len(emitted) = 0 /\ Len(fifo) = 0 /\ Written = 0 /\ ~fifo_rd_en_r
        <4>1. emitted = << >> /\ fifo = << >> /\ ~fifo_rd_en_r
          BY DEF Init
        <4>2. Len(emitted) = 0 /\ Len(fifo) = 0 /\ One(fifo_rd_en_r) = 0
          BY <4>1 DEF One
        <4> QED
          BY <4>1, <4>2 DEF Written
      <3> QED
        BY <3>1, Numbers DEF DataInv
    <2>2. ReadInv /\ LoggedInv
      BY DEF Init, ReadInv, LoggedInv, Before
    <2> QED
      BY <2>1, <2>2, InitType, InitCount DEF Inv
  <1>2. Inv /\ [Next]_vars => Inv'
    <2> SUFFICES ASSUME Inv, [Next]_vars PROVE Inv'
      OBVIOUS
    <2>0. TypeInv /\ CountInv /\ DataInv /\ ReadInv /\ LoggedInv /\ StartInTime
      BY DEF Inv, CaptureFits
    <2>1. TypeInv' /\ CountInv'
      BY <2>0, NextType, NextCount
    <2>2. ASSUME NEW v \in Latencies, Sample(v) PROVE Inv'
      BY <2>0, <2>1, <2>2, SampleData, SampleRead DEF Inv
    <2>3. ASSUME NEW go \in BOOLEAN, NEW pop \in BOOLEAN, BusTick(go, pop) PROVE Inv'
      <3>1. DataInv'
        BY <2>0, <2>3, BusTickData
      <3>2. ReadInv' /\ LoggedInv'
        BY <2>0, <2>3, ReadTick, WaitTick
      <3> QED
        BY <2>1, <3>1, <3>2 DEF Inv
    <2>4. ASSUME UNCHANGED vars PROVE Inv'
      <3>1. DataInv'
        BY <2>0, <2>4 DEF vars, DataInv, Written
      <3>2. ReadInv' /\ LoggedInv'
        BY <2>0, <2>4 DEF vars, hostVars, readVars, ReadInv, LoggedInv, PathInv, Age
      <3> QED
        BY <2>1, <3>1, <3>2 DEF Inv
    <2> QED
      BY <2>2, <2>3, <2>4 DEF Next, Finished
  <1> QED
    BY <1>1, <1>2, PTL DEF Spec

\* What readHBMData collects from register 16 is what the engine published: each
\* sample once, in order, unchanged, for every run that fits the sample RAM.
THEOREM SamplesLogged == ASSUME CaptureFits PROVE Spec => []EverySampleLogged
  <1>1. Inv => EverySampleLogged
    BY DEF Inv, LoggedInv, EverySampleLogged
  <1> QED
    BY <1>1, CaptureInvariance, PTL
=============================================================================
