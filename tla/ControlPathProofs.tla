------------------------- MODULE ControlPathProofs --------------------------
(***************************************************************************)
(* Proofs about ControlPath for any number of channels, any boards, jobs,   *)
(* parameter registers and clock ratios.  Type correctness and one run per  *)
(* start need no condition.  What the parameters of a run are is proved     *)
(* under WholeSamples: a channel that samples hbm_channel while it changes  *)
(* sees the old or the new number, not a mixture of their bits.             *)
(***************************************************************************)
EXTENDS ControlPath, SequenceTheorems, TLAPS

WholeSamples == \A old, new \in Channels : Torn(old, new) \subseteq {old, new}

L == Len(ParamRegs)

Clock(c) == Boards[board].clock[c]

-----------------------------------------------------------------------------
(* Types.                                                                   *)
Registers == ToSet(ParamRegs)
Params    == [Registers -> Nat \X Nat]
Words     == [prm : Params, lat : BOOLEAN]
Halves    == [wr : Words, rd : Words]
Sums      == [prm : Params, final : BOOLEAN]
Controls  == [chan : Channels, prm : Params, we : SUBSET Channels, re : SUBSET Channels,
              lat : BOOLEAN, start : BOOLEAN]
Files     == [ctl : Controls, end_wr : SUBSET Channels, end_rd : SUBSET Channels,
              sum_wr : Sums, sum_rd : Sums]
EngineStates == [busy : 0 .. MinBusy, job : Words, end : BOOLEAN, sum : Sums]
Lines     == [run : Nat, chan : Channels, sum : Sums, ops : Nat]
Places    == [fn : {"config", "run", "poll", "sums"}, chan : Channels, side : Sides, step : Nat]

HostType ==
    /\ board \in DOMAIN Boards /\ run \in 1 .. Len(Boards[board].jobs) + 1
    /\ pc \in Places /\ pc.step \in 1 .. Len(Calls)
    /\ endWr \in SUBSET Channels
    /\ report \in [Sides -> Seq(Lines)]
    /\ ~Running => pc.fn = "config"

BusType ==
    /\ w_cstate \in {"WIDLE", "WDATA", "WBRSP"} /\ r_cstate \in {"RIDLE", "RDATA", "RWAIT"}
    /\ counter \in 0 .. RWait - 1 /\ gap \in 0 .. ReadGap
    /\ dma \in Files /\ out \in Controls /\ out_prev \in Controls
    /\ mem_edges \in [Clocks -> 0 .. MemPerBus]

GlueType ==
    /\ lt_params \in [Channels -> Halves]
    /\ pipe \in [Channels -> Halves \X Halves \X Halves]
    /\ start_r \in SUBSET Channels /\ start_rr \in SUBSET Channels
    /\ edge_prev \in SUBSET Channels
    /\ start_pipe \in [Channels -> [Sides -> BOOLEAN \X BOOLEAN \X BOOLEAN]]
    /\ end_o \in [Sides -> SUBSET Channels]
    /\ eng \in [Channels -> [Sides -> EngineStates]]
    /\ begun \in [Channels -> [Sides -> Nat]]

TypeInv == HostType /\ BusType /\ GlueType

\* The order of the phases of an access.
PhaseInv ==
    /\ w_cstate # "WIDLE" => Running /\ Access.op = "write"
    /\ r_cstate = "RDATA" => Running /\ Access.op = "read" /\ w_cstate = "WIDLE" /\ gap = ReadGap

-----------------------------------------------------------------------------
(***************************************************************************)
(* What the control registers hold at each place of the host's program.     *)
(***************************************************************************)
ParamsTo(x, c, n) == \A j \in 1 .. L : j <= n => x.prm[ParamRegs[j]] = <<run, c>>
Configured(x, c)  == x.chan = c /\ ParamsTo(x, c, L) /\ ~x.lat
Enables(x)        == x.we = Job.we /\ x.re = Job.re

\* x is what the program has written before step n of its place p.
Expect(x, p, n) ==
    /\ x.start <=> p.fn = "run" /\ n = L + 6
    /\ p.fn = "config" =>
          /\ n = 1 /\ p.chan > 0 => Configured(x, p.chan - 1)
          /\ n > 1 => x.chan = p.chan /\ ParamsTo(x, p.chan, n - 2)
          /\ n > L + 2 => ~x.lat
    /\ p.fn = "run" =>
          /\ n = 1 => Configured(x, NumChannels - 1)
          /\ n > 1 => x.chan = Job.latch /\ ParamsTo(x, Job.latch, n - 2)
          /\ n > L + 2 => x.we = Job.we
          /\ n > L + 3 => x.re = Job.re
          /\ n > L + 4 => (x.lat <=> Job.lat)
    /\ p.fn = "poll" => x.chan = Job.latch /\ Enables(x)
    /\ p.fn = "sums" => Enables(x) /\ (n > 1 => x.chan = p.chan)

\* In a register only one field changes at a time.
OneChange(x, y) == x.chan = y.chan \/ y = [x EXCEPT !.chan = y.chan]

Still == dma.ctl = out /\ out = out_prev

\* The bus: a write changes dma_control_reg only when its last one has reached
\* the outputs and has been there for a whole bus cycle.
WriteInv ==
    /\ w_cstate = "WDATA" => dma.ctl = out
    /\ w_cstate = "WIDLE" /\ gap >= 1 => dma.ctl = out
    /\ dma.ctl = out \/ out = out_prev
    /\ OneChange(out, dma.ctl) /\ OneChange(out_prev, out)
    /\ w_cstate # "WBRSP" => Expect(dma.ctl, pc, pc.step)
    /\ w_cstate = "WBRSP" =>
          \/ Still /\ Expect(dma.ctl, pc, pc.step)
          \/ dma.ctl = Put(dma.ctl, Access) /\ Expect(dma.ctl, pc, pc.step + 1)
    /\ w_cstate = "WBRSP" /\ pc.fn = "poll" => Still

\* The start bit has been written, and not yet taken back by a new invocation.
Late    == pc.fn \in {"poll", "sums"} \/ (pc.fn = "run" /\ pc.step = L + 6)
Settled == (pc.fn = "poll" /\ pc.step > 1) \/ pc.fn = "sums"

\* The words channel c must be configured with: Plain before the latency
\* channel is chosen, Good when the engines start.
AllParams(w, c) == \A k \in Registers : w.prm[k] = <<run, c>>
Plain(w, c) == AllParams(w, c) /\ ~w.lat
Good(w, c)  == AllParams(w, c) /\ (w.lat <=> Job.lat /\ Job.latch = c)
Core(x)     == x.chan = Job.latch /\ Good(Word(x), Job.latch)

StartInv ==
    /\ (~Late /\ ~dma.ctl.start) \/ Settled => ~dma.ctl.start /\ ~out.start /\ ~out_prev.start
    /\ Late \/ dma.ctl.start => Enables(dma.ctl) /\ Enables(out) /\ Enables(out_prev)
    /\ dma.ctl.start \/ out.start => Core(dma.ctl) /\ Core(out) /\ Core(out_prev)

\* Channel c is done with its configuration.
Past(c) == (pc.fn = "config" /\ pc.chan > c) \/ pc.fn = "run"
SwitchInv ==
    dma.ctl.chan # out.chan /\ Past(out.chan) => Plain(Word(out), out.chan)

-----------------------------------------------------------------------------
(***************************************************************************)
(* What channel c has seen of the output registers.                         *)
(***************************************************************************)
Both(w) == [wr |-> w, rd |-> w]
Saw(c) ==
    /\ c \in start_r <=> out.start
    /\ WholeSamples /\ out.chan = c => lt_params[c].wr = Word(out)
SawTwice(c) ==
    /\ c \in start_r <=> out.start
    /\ c \in start_rr <=> out.start
    /\ WholeSamples /\ out.chan = c => lt_params[c] = Both(Word(out))

SeenInv(c) ==
    /\ out = out_prev /\ mem_edges[Clock(c)] > 0 => Saw(c)
    /\ dma.ctl # out => Saw(c)
    /\ dma.ctl # out /\ mem_edges[Clock(c)] > 0 => SawTwice(c)
    /\ out # out_prev /\ ((out.start <=> out_prev.start) \/ mem_edges[Clock(c)] = 0) =>
          (c \in start_r <=> out_prev.start) /\ (c \in start_rr <=> out_prev.start)
    /\ WholeSamples /\ out # out_prev /\ out_prev.chan = c
          /\ (out.chan # c \/ Word(out) = Word(out_prev)) =>
          lt_params[c] = Both(Word(out_prev))

ConfInv(c) ==
    WholeSamples /\ Past(c) /\ out.chan # c => Plain(lt_params[c].wr, c) /\ Plain(lt_params[c].rd, c)
ParamsInv(c) ==
    WholeSamples /\ out.start => Good(lt_params[c].wr, c) /\ Good(lt_params[c].rd, c)

-----------------------------------------------------------------------------
(***************************************************************************)
(* The start of an engine on its way through the glue.                      *)
(***************************************************************************)
\* The start bit has gone up and come down again.
Over == Late /\ ~dma.ctl.start /\ ~out.start
\* Channel c has not seen it.
NotYet(c) == (out.start \/ dma.ctl.start \/ ~Late) /\ ~(out.start /\ c \in start_r)

Empty(c, s) ==
    /\ ~start_pipe[c][s][1] /\ ~start_pipe[c][s][2] /\ ~start_pipe[c][s][3]
    /\ begun[c][s] = 0 /\ eng[c][s].busy = 0 /\ ~eng[c][s].end

GoodJob(w, c)  == WholeSamples => Good(w, c)
GoodPipe(c, k) == GoodJob(pipe[c][k].wr, c) /\ GoodJob(pipe[c][k].rd, c)
GoodSum(m, c)  == m.final /\ (WholeSamples => \A k \in Registers : m.prm[k] = <<run, c>>)

\* The one start is in one place: at the edge detector, in one of the three
\* registers, or it has begun the engine.
Token(c, s) ==
    /\ c \in StartEdge => GoodPipe(c, 1) /\ begun[c][s] = 0
    /\ start_pipe[c][s][1] => GoodPipe(c, 1) /\ GoodPipe(c, 2) /\ begun[c][s] = 0
    /\ start_pipe[c][s][2] => GoodPipe(c, 2) /\ GoodPipe(c, 3) /\ begun[c][s] = 0
    /\ start_pipe[c][s][3] => GoodPipe(c, 3) /\ begun[c][s] = 0
    /\ begun[c][s] \in {0, 1}
    /\ begun[c][s] = 0 => eng[c][s].busy = 0 /\ ~eng[c][s].end
    /\ begun[c][s] = 1 /\ eng[c][s].busy > 0 => GoodJob(eng[c][s].job, c) /\ ~eng[c][s].end
    /\ begun[c][s] = 1 /\ eng[c][s].busy = 0 => GoodSum(eng[c][s].sum, c)
    /\ c \in StartEdge => ~start_pipe[c][s][1] /\ ~start_pipe[c][s][2] /\ ~start_pipe[c][s][3]
    /\ start_pipe[c][s][1] => ~start_pipe[c][s][2] /\ ~start_pipe[c][s][3]
    /\ start_pipe[c][s][2] => ~start_pipe[c][s][3]

Done(c, s) ==
    begun[c][s] = 1 /\ eng[c][s].busy = 0 /\ ~eng[c][s].end /\ GoodSum(eng[c][s].sum, c)

TokenInv(c) ==
    /\ NotYet(c) => c \notin start_r /\ c \notin start_rr /\ \A s \in Sides : Empty(c, s)
    /\ ~NotYet(c) => \A s \in Sides : IF c \in Enabled(s) THEN Token(c, s) ELSE Empty(c, s)
    /\ Over => (c \in start_r => c \in start_rr)
    /\ Settled => c \notin start_r
    /\ pc.fn = "poll" /\ pc.step > 1 /\ mem_edges[Clock(c)] > 0 => c \notin start_rr
    /\ (pc.fn = "poll" /\ r_cstate = "RDATA") \/ (pc.fn = "poll" /\ pc.step = 3) \/ pc.fn = "sums"
          => c \notin start_rr

FlagInv(c) ==
    /\ Over \/ (out.start /\ c \in start_rr) =>
          \A s \in Sides : c \in end_o[s] => Done(c, s)
    /\ pc.fn = "poll" /\ r_cstate = "RDATA" =>
          (c \in dma.end_wr => Done(c, "wr")) /\ (c \in dma.end_rd => Done(c, "rd"))
    /\ pc.fn = "poll" /\ pc.step = 3 => (c \in endWr => Done(c, "wr"))
    /\ pc.fn = "sums" => \A s \in Sides : c \in Enabled(s) => Done(c, s)

ChannelInv == \A c \in Channels :
    SeenInv(c) /\ ConfInv(c) /\ ParamsInv(c) /\ TokenInv(c) /\ FlagInv(c)

\* The readout visits enabled engines, and while a total is read the status
\* register holds the selected engine's.
SumInv ==
    /\ pc.fn = "sums" => pc.chan \in Enabled(pc.side)
    /\ pc.fn = "sums" /\ r_cstate = "RDATA" =>
          GoodSum(IF pc.side = "wr" THEN dma.sum_wr ELSE dma.sum_rd, pc.chan)

ControlInv ==
    TypeInv /\ PhaseInv /\ WriteInv /\ StartInv /\ SwitchInv /\ ChannelInv
-----------------------------------------------------------------------------
(***************************************************************************)
(* The constants, and the register accesses of the host's program.          *)
(***************************************************************************)
\* The constants as numbers.
LEMMA Numbers ==
    /\ NumChannels \in Nat \ {0} /\ RWait \in Nat \ {0} /\ ReadGap \in Nat
    /\ MemPerBus \in Nat \ {0} /\ MinBusy \in Nat \ {0} /\ NumOps \in [Channels -> Nat]
    /\ Channels \subseteq Nat /\ 0 \in Channels /\ NumChannels - 1 \in Channels
  BY BoundsAssumption DEF Channels

\* The parameter registers have names of their own.
LEMMA RegisterFacts ==
    /\ L \in Nat
    /\ DOMAIN ParamRegs = 1 .. L
    /\ Registers = {ParamRegs[j] : j \in 1 .. L}
    /\ \A j \in 1 .. L : ParamRegs[j] \in Registers
    /\ "chan" \notin Registers /\ "we" \notin Registers /\ "re" \notin Registers
    /\ "lat" \notin Registers /\ "start" \notin Registers
  <1>1. L \in Nat /\ DOMAIN ParamRegs = 1 .. L
    BY ParamRegsAssumption, LenProperties DEF L
  <1>2. Registers = {ParamRegs[j] : j \in 1 .. L}
    BY <1>1 DEF Registers, ToSet
  <1> QED
    BY <1>1, <1>2, ParamRegsAssumption DEF Registers

\* configHBM, access by access.
LEMMA ConfigAccesses ==
    ASSUME NEW r, NEW c
    PROVE  /\ Len(ConfigHBM(r, c)) = L + 2 /\ DOMAIN ConfigHBM(r, c) = 1 .. L + 2
           /\ ConfigHBM(r, c)[1] = W("chan", c)
           /\ \A j \in 1 .. L : ConfigHBM(r, c)[j + 1] = W(ParamRegs[j], <<r, c>>)
           /\ ConfigHBM(r, c)[L + 2] = W("lat", FALSE)
  <1> DEFINE P == WriteParams(r, c)
             a == W("chan", c)
             z == W("lat", FALSE)
             S == {P[j] : j \in 1 .. L} \cup {a, z}
  <1>1. L \in Nat
    BY RegisterFacts
  <1>2. P \in Seq(S) /\ Len(P) = L /\ \A j \in 1 .. L : P[j] = W(ParamRegs[j], <<r, c>>)
    <2>1. P = [j \in 1 .. L |-> W(ParamRegs[j], <<r, c>>)]
      BY DEF WriteParams, L
    <2>2. P \in [1 .. L -> S]
      BY <2>1
    <2> HIDE DEF P, S
    <2> QED
      BY <1>1, <2>1, <2>2
  <1>3. <<a>> \in Seq(S) /\ <<z>> \in Seq(S)
    BY DEF S
  <1> HIDE DEF P, S, a, z
  <1>4. /\ <<a>> \o P \in Seq(S) /\ Len(<<a>> \o P) = L + 1
        /\ \A i \in 1 .. L + 1 : (<<a>> \o P)[i] = IF i <= 1 THEN a ELSE P[i - 1]
    BY <1>1, <1>2, <1>3, ConcatProperties
  <1> DEFINE Q == <<a>> \o P
  <1> HIDE DEF Q
  <1>5. Q \in Seq(S) /\ Len(Q) = L + 1
    BY <1>4 DEF Q
  <1>6. /\ Len(Q \o <<z>>) = L + 2 /\ Q \o <<z>> \in Seq(S)
        /\ \A i \in 1 .. L + 2 : (Q \o <<z>>)[i] = IF i <= L + 1 THEN Q[i] ELSE <<z>>[i - (L + 1)]
    BY <1>1, <1>3, <1>5, ConcatProperties
  <1>7. ConfigHBM(r, c) = Q \o <<z>>
    BY DEF ConfigHBM, Q, P, a, z
  <1>8. /\ (Q \o <<z>>)[1] = a /\ (Q \o <<z>>)[L + 2] = z
        /\ \A j \in 1 .. L : (Q \o <<z>>)[j + 1] = P[j]
    <2>1. (Q \o <<z>>)[1] = a
      BY <1>1, <1>4, <1>6 DEF Q
    <2>2. (Q \o <<z>>)[L + 2] = z
      BY <1>1, <1>6
    <2>3. ASSUME NEW j \in 1 .. L PROVE (Q \o <<z>>)[j + 1] = P[j]
      BY <1>1, <1>4, <1>6 DEF Q
    <2> QED
      BY <2>1, <2>2, <2>3
  <1> QED
    BY <1>2, <1>6, <1>7, <1>8, LenProperties DEF a, z

\* runHBMtest, access by access.
LEMMA RunAccesses ==
    ASSUME NEW j, NEW r
    PROVE  /\ Len(RunHBMtest(j, r)) = L + 6 /\ DOMAIN RunHBMtest(j, r) = 1 .. L + 6
           /\ RunHBMtest(j, r)[1] = W("chan", j.latch)
           /\ \A i \in 1 .. L : RunHBMtest(j, r)[i + 1] = W(ParamRegs[i], <<r, j.latch>>)
           /\ RunHBMtest(j, r)[L + 2] = W("we", j.we)
           /\ RunHBMtest(j, r)[L + 3] = W("re", j.re)
           /\ RunHBMtest(j, r)[L + 4] = W("lat", j.lat)
           /\ RunHBMtest(j, r)[L + 5] = W("start", TRUE)
           /\ RunHBMtest(j, r)[L + 6] = W("start", FALSE)
  <1> DEFINE P == WriteParams(r, j.latch)
             a == W("chan", j.latch)
             z1 == W("we", j.we)
             z2 == W("re", j.re)
             z3 == W("lat", j.lat)
             z4 == W("start", TRUE)
             z5 == W("start", FALSE)
             Z == <<z1, z2, z3, z4, z5>>
             S == {P[i] : i \in 1 .. L} \cup {a, z1, z2, z3, z4, z5}
  <1>1. L \in Nat
    BY RegisterFacts
  <1>2. P \in Seq(S) /\ Len(P) = L /\ \A i \in 1 .. L : P[i] = W(ParamRegs[i], <<r, j.latch>>)
    <2>1. P = [i \in 1 .. L |-> W(ParamRegs[i], <<r, j.latch>>)]
      BY DEF WriteParams, L
    <2>2. P \in [1 .. L -> S]
      BY <2>1
    <2> HIDE DEF P, S
    <2> QED
      BY <1>1, <2>1, <2>2
  <1>3. /\ z1 \in S /\ z2 \in S /\ z3 \in S /\ z4 \in S /\ z5 \in S /\ a \in S
    BY DEF S
  <1>z. RunHBMtest(j, r) = (<<a>> \o P) \o Z
    BY DEF RunHBMtest
  <1>w. a = W("chan", j.latch) /\ z1 = W("we", j.we) /\ z2 = W("re", j.re)
        /\ z3 = W("lat", j.lat) /\ z4 = W("start", TRUE) /\ z5 = W("start", FALSE)
    OBVIOUS
  <1> HIDE DEF P, S, a, z1, z2, z3, z4, z5
  <1>y. <<a>> \in Seq(S) /\ Z \in Seq(S) /\ Len(Z) = 5
        /\ Z[1] = z1 /\ Z[2] = z2 /\ Z[3] = z3 /\ Z[4] = z4 /\ Z[5] = z5
    BY <1>3
  <1> HIDE DEF Z
  <1>4. /\ <<a>> \o P \in Seq(S) /\ Len(<<a>> \o P) = L + 1
        /\ \A i \in 1 .. L + 1 : (<<a>> \o P)[i] = IF i <= 1 THEN a ELSE P[i - 1]
    BY <1>1, <1>2, <1>y, ConcatProperties
  <1> DEFINE Q == <<a>> \o P
             T == Q \o Z
  <1> HIDE DEF Q
  <1>5. Q \in Seq(S) /\ Len(Q) = L + 1
    BY <1>4 DEF Q
  <1>6. /\ Len(T) = L + 6 /\ T \in Seq(S)
        /\ \A i \in 1 .. L + 6 : T[i] = IF i <= L + 1 THEN Q[i] ELSE Z[i - (L + 1)]
    <2>1. /\ Len(Q \o Z) = Len(Q) + Len(Z) /\ Q \o Z \in Seq(S)
          /\ \A i \in 1 .. Len(Q) + Len(Z) :
                (Q \o Z)[i] = IF i <= Len(Q) THEN Q[i] ELSE Z[i - Len(Q)]
      BY <1>5, <1>y, ConcatProperties
    <2>2. Len(Q) + Len(Z) = L + 6 /\ Len(Q) = L + 1
      BY <1>1, <1>5, <1>y
    <2> QED
      BY <2>1, <2>2
  <1> HIDE DEF T
  <1>8. T[1] = a
    BY <1>1, <1>4, <1>6 DEF Q
  <1>9. ASSUME NEW i \in 1 .. L PROVE T[i + 1] = P[i]
    BY <1>1, <1>4, <1>6 DEF Q
  <1>10. T[L + 2] = Z[1] /\ T[L + 3] = Z[2] /\ T[L + 4] = Z[3] /\ T[L + 5] = Z[4] /\ T[L + 6] = Z[5]
    BY <1>1, <1>6
  <1>11. RunHBMtest(j, r) = T
    BY <1>z DEF T, Q
  <1> QED
    BY <1>2, <1>6, <1>8, <1>9, <1>10, <1>11, <1>y, <1>w, LenProperties

\* The access the host is at, by its place.
LEMMA AccessFacts ==
    ASSUME pc \in Places
    PROVE  /\ DOMAIN Calls = 1 .. Len(Calls)
           /\ pc.fn = "config" =>
                 /\ Len(Calls) = L + 2
                 /\ pc.step = 1 => Access = W("chan", pc.chan)
                 /\ pc.step \in 2 .. L + 1 => Access = W(ParamRegs[pc.step - 1], <<run, pc.chan>>)
                 /\ pc.step = L + 2 => Access = W("lat", FALSE)
           /\ pc.fn = "run" =>
                 /\ Len(Calls) = L + 6
                 /\ pc.step = 1 => Access = W("chan", Job.latch)
                 /\ pc.step \in 2 .. L + 1 => Access = W(ParamRegs[pc.step - 1], <<run, Job.latch>>)
                 /\ pc.step = L + 2 => Access = W("we", Job.we)
                 /\ pc.step = L + 3 => Access = W("re", Job.re)
                 /\ pc.step = L + 4 => Access = W("lat", Job.lat)
                 /\ pc.step = L + 5 => Access = W("start", TRUE)
                 /\ pc.step = L + 6 => Access = W("start", FALSE)
           /\ pc.fn = "poll" =>
                 /\ Len(Calls) = 3
                 /\ pc.step = 1 => Access = W("chan", Job.latch)
                 /\ pc.step = 2 => Access = R("end_wr", 0)
                 /\ pc.step = 3 => Access = R("end_rd", 0)
           /\ pc.fn = "sums" =>
                 /\ Len(Calls) = 2
                 /\ pc.step = 1 => Access = W("chan", pc.chan)
                 /\ pc.step = 2 /\ pc.side = "wr" => Access = R("sum_wr", pc.chan)
                 /\ pc.step = 2 /\ pc.side = "rd" => Access = R("sum_rd", pc.chan)
  <1>0. L \in Nat /\ pc.step \in Nat /\ pc.fn \in {"config", "run", "poll", "sums"}
    BY RegisterFacts DEF Places
  <1>1. CASE pc.fn = "config"
    <2> DEFINE Q == ConfigHBM(run, pc.chan)
    <2>1. Calls = Q
      BY <1>1 DEF Calls, TestHBM, TestDDR, ConfigDDR
    <2>2. /\ Len(Q) = L + 2 /\ DOMAIN Q = 1 .. L + 2 /\ Q[1] = W("chan", pc.chan)
          /\ \A j \in 1 .. L : Q[j + 1] = W(ParamRegs[j], <<run, pc.chan>>)
          /\ Q[L + 2] = W("lat", FALSE)
      BY ConfigAccesses
    <2> HIDE DEF Q
    <2>3. ASSUME pc.step \in 2 .. L + 1
          PROVE  Access = W(ParamRegs[pc.step - 1], <<run, pc.chan>>)
      <3>1. pc.step - 1 \in 1 .. L /\ (pc.step - 1) + 1 = pc.step
        BY <1>0, <2>3
      <3> QED
        BY <2>1, <2>2, <3>1 DEF Access
    <2> QED
      BY <1>1, <2>1, <2>2, <2>3 DEF Access
  <1>2. CASE pc.fn = "run"
    <2> DEFINE Q == RunHBMtest(Job, run)
    <2>1. Calls = Q
      BY <1>2 DEF Calls, TestHBM, TestDDR, RunDDRtest
    <2>2. /\ Len(Q) = L + 6 /\ DOMAIN Q = 1 .. L + 6 /\ Q[1] = W("chan", Job.latch)
          /\ \A j \in 1 .. L : Q[j + 1] = W(ParamRegs[j], <<run, Job.latch>>)
          /\ Q[L + 2] = W("we", Job.we) /\ Q[L + 3] = W("re", Job.re)
          /\ Q[L + 4] = W("lat", Job.lat)
          /\ Q[L + 5] = W("start", TRUE) /\ Q[L + 6] = W("start", FALSE)
      BY RunAccesses
    <2> HIDE DEF Q
    <2>3. ASSUME pc.step \in 2 .. L + 1
          PROVE  Access = W(ParamRegs[pc.step - 1], <<run, Job.latch>>)
      <3>1. pc.step - 1 \in 1 .. L /\ (pc.step - 1) + 1 = pc.step
        BY <1>0, <2>3
      <3> QED
        BY <2>1, <2>2, <3>1 DEF Access
    <2> QED
      BY <1>2, <2>1, <2>2, <2>3 DEF Access
  <1>3. CASE pc.fn = "poll"
    <2>1. Calls = << W("chan", Job.latch), R("end_wr", 0), R("end_rd", 0) >>
      BY <1>3 DEF Calls, TestHBM, TestDDR, ReadDDRData, ReadHBMData
    <2> QED
      BY <1>3, <2>1 DEF Access
  <1>4. CASE pc.fn = "sums"
    <2>1. Calls = << W("chan", pc.chan), R(IF pc.side = "wr" THEN "sum_wr" ELSE "sum_rd", pc.chan) >>
      BY <1>4 DEF Calls, TestHBM, TestDDR, ReadDDRData, ReadHBMData
    <2> QED
      BY <1>4, <2>1 DEF Access
  <1> QED
    BY <1>0, <1>1, <1>2, <1>3, <1>4

\* The registers and values an access can have.
LEMMA AccessKinds ==
    ASSUME pc \in Places, pc.step \in 1 .. Len(Calls)
    PROVE  /\ pc.fn \in {"config", "run"} => Access.op = "write"
           /\ pc.fn \in {"poll", "sums"} => (Access.op = "write" <=> pc.step = 1)
           /\ Access.op \in {"read", "write"}
           /\ Access.op = "read" =>
                 /\ pc.fn = "poll" => pc.step \in {2, 3}
                 /\ pc.fn = "sums" => pc.step = 2
                 /\ Access.reg = "end_wr" <=> pc.fn = "poll" /\ pc.step = 2
                 /\ Access.reg = "end_rd" <=> pc.fn = "poll" /\ pc.step = 3
                 /\ Access.reg = "sum_wr" <=> pc.fn = "sums" /\ pc.side = "wr"
                 /\ Access.reg = "sum_rd" <=> pc.fn = "sums" /\ pc.side = "rd"
                 /\ pc.fn = "sums" => Access.val = pc.chan
  <1>0. L \in Nat /\ pc.step \in Nat /\ pc.fn \in {"config", "run", "poll", "sums"} /\ pc.side \in Sides
    BY RegisterFacts DEF Places
  <1>1. CASE pc.fn = "config"
    <2>1. pc.step = 1 \/ pc.step \in 2 .. L + 1 \/ pc.step = L + 2
      BY <1>0, <1>1, AccessFacts
    <2> QED
      BY <1>1, <2>1, AccessFacts DEF W
  <1>2. CASE pc.fn = "run"
    <2>1. \/ pc.step = 1 \/ pc.step \in 2 .. L + 1 \/ pc.step = L + 2 \/ pc.step = L + 3
          \/ pc.step = L + 4 \/ pc.step = L + 5 \/ pc.step = L + 6
      BY <1>0, <1>2, AccessFacts
    <2> QED
      BY <1>2, <2>1, AccessFacts DEF W
  <1>3. CASE pc.fn = "poll"
    <2>0. Len(Calls) = 3
      BY <1>3, AccessFacts
    <2>1. pc.step = 1 \/ pc.step = 2 \/ pc.step = 3
      BY <1>0, <2>0
    <2> QED
      BY <1>3, <2>1, AccessFacts DEF W, R
  <1>4. CASE pc.fn = "sums"
    <2>0. Len(Calls) = 2
      BY <1>4, AccessFacts
    <2>1. pc.step = 1 \/ pc.step = 2
      BY <1>0, <2>0
    <2> QED
      BY <1>0, <1>4, <2>1, AccessFacts DEF W, R, Sides
  <1> QED
    BY <1>0, <1>1, <1>2, <1>3, <1>4

\* The job of a running invocation.
LEMMA JobFacts ==
    ASSUME board \in DOMAIN Boards, Running
    PROVE  /\ Job.we \in SUBSET Channels /\ Job.re \in SUBSET Channels
           /\ Job.lat \in BOOLEAN /\ Job.latch \in Channels
           /\ run \in 1 .. Len(Boards[board].jobs)
           /\ \A s \in Sides : Enabled(s) \in SUBSET Channels
  <1> DEFINE J == [we : SUBSET Channels, re : SUBSET Channels, lat : BOOLEAN, latch : Channels]
  <1>1. Boards[board].jobs \in Seq(J)
    BY BoardsAssumption
  <1> HIDE DEF J
  <1>2. run \in 1 .. Len(Boards[board].jobs)
    BY <1>1, LenProperties DEF Running
  <1>3. Job \in J
    BY <1>1, <1>2, ElementOfSeq DEF Job
  <1>4. /\ Job.we \in SUBSET Channels /\ Job.re \in SUBSET Channels
        /\ Job.lat \in BOOLEAN /\ Job.latch \in Channels
    BY <1>3 DEF J
  <1> QED
    BY <1>2, <1>4 DEF Enabled

\* What a register write changes.
LEMMA PutCases ==
    ASSUME NEW x, NEW v
    PROVE  /\ \A k \in Registers : Put(x, W(k, v)) = [x EXCEPT !.prm[k] = v]
           /\ Put(x, W("chan", v)) = [x EXCEPT !.chan = v]
           /\ Put(x, W("we", v)) = [x EXCEPT !.we = v]
           /\ Put(x, W("re", v)) = [x EXCEPT !.re = v]
           /\ Put(x, W("lat", v)) = [x EXCEPT !.lat = v]
           /\ Put(x, W("start", v)) = [x EXCEPT !.start = v]
  <1>1. ASSUME NEW k \in Registers PROVE Put(x, W(k, v)) = [x EXCEPT !.prm[k] = v]
    BY RegisterFacts DEF Put, W, Registers
  <1>2. Put(x, W("chan", v)) = [x EXCEPT !.chan = v]
    BY RegisterFacts DEF Put, W, Registers
  <1>3. Put(x, W("we", v)) = [x EXCEPT !.we = v]
    BY RegisterFacts DEF Put, W, Registers
  <1>4. Put(x, W("re", v)) = [x EXCEPT !.re = v]
    BY RegisterFacts DEF Put, W, Registers
  <1>5. Put(x, W("lat", v)) = [x EXCEPT !.lat = v]
    BY RegisterFacts DEF Put, W, Registers
  <1>6. Put(x, W("start", v)) = [x EXCEPT !.start = v]
    BY RegisterFacts DEF Put, W, Registers
  <1> QED
    BY <1>1, <1>2, <1>3, <1>4, <1>5, <1>6

\* The writes, by the place that makes them.
LEMMA WriteCases ==
    ASSUME pc \in Places, pc.step \in 1 .. Len(Calls), Access.op = "write"
    PROVE  \/ pc.fn = "config" /\ pc.step = 1 /\ Access = W("chan", pc.chan)
           \/ /\ pc.fn = "config" /\ pc.step \in 2 .. L + 1
              /\ Access = W(ParamRegs[pc.step - 1], <<run, pc.chan>>)
           \/ pc.fn = "config" /\ pc.step = L + 2 /\ Access = W("lat", FALSE)
           \/ pc.fn = "run" /\ pc.step = 1 /\ Access = W("chan", Job.latch)
           \/ /\ pc.fn = "run" /\ pc.step \in 2 .. L + 1
              /\ Access = W(ParamRegs[pc.step - 1], <<run, Job.latch>>)
           \/ pc.fn = "run" /\ pc.step = L + 2 /\ Access = W("we", Job.we)
           \/ pc.fn = "run" /\ pc.step = L + 3 /\ Access = W("re", Job.re)
           \/ pc.fn = "run" /\ pc.step = L + 4 /\ Access = W("lat", Job.lat)
           \/ pc.fn = "run" /\ pc.step = L + 5 /\ Access = W("start", TRUE)
           \/ pc.fn = "run" /\ pc.step = L + 6 /\ Access = W("start", FALSE)
           \/ pc.fn = "poll" /\ pc.step = 1 /\ Access = W("chan", Job.latch)
           \/ pc.fn = "sums" /\ pc.step = 1 /\ Access = W("chan", pc.chan)
  <1>0. L \in Nat /\ pc.step \in Nat /\ pc.fn \in {"config", "run", "poll", "sums"}
    BY RegisterFacts DEF Places
  <1>1. CASE pc.fn = "config"
    <2>1. pc.step = 1 \/ pc.step \in 2 .. L + 1 \/ pc.step = L + 2
      BY <1>0, <1>1, AccessFacts
    <2> QED
      BY <1>1, <2>1, AccessFacts
  <1>2. CASE pc.fn = "run"
    <2>1. \/ pc.step = 1 \/ pc.step \in 2 .. L + 1 \/ pc.step = L + 2 \/ pc.step = L + 3
          \/ pc.step = L + 4 \/ pc.step = L + 5 \/ pc.step = L + 6
      BY <1>0, <1>2, AccessFacts
    <2> QED
      BY <1>2, <2>1, AccessFacts
  <1>3. CASE pc.fn \in {"poll", "sums"}
    BY <1>3, AccessFacts, AccessKinds
  <1> QED
    BY <1>0, <1>1, <1>2, <1>3

\* A write leaves well-typed control registers.
LEMMA PutType ==
    ASSUME HostType, Running, Access.op = "write", NEW x \in Controls
    PROVE  Put(x, Access) \in Controls
  <1>0. /\ pc \in Places /\ pc.step \in 1 .. Len(Calls) /\ run \in Nat /\ L \in Nat
        /\ pc.chan \in Channels /\ Channels \subseteq Nat
    BY RegisterFacts, Numbers DEF HostType, Places
  <1>1. /\ Job.we \in SUBSET Channels /\ Job.re \in SUBSET Channels
        /\ Job.lat \in BOOLEAN /\ Job.latch \in Channels
    BY JobFacts DEF HostType
  <1>2. ASSUME NEW c \in Channels PROVE Put(x, W("chan", c)) \in Controls
    BY PutCases DEF Controls
  <1>3. ASSUME NEW j \in 1 .. L, NEW c \in Channels
        PROVE  Put(x, W(ParamRegs[j], <<run, c>>)) \in Controls
    <2>1. ParamRegs[j] \in Registers /\ <<run, c>> \in Nat \X Nat
      BY <1>0, RegisterFacts
    <2>2. Put(x, W(ParamRegs[j], <<run, c>>)) = [x EXCEPT !.prm[ParamRegs[j]] = <<run, c>>]
      BY <2>1, RegisterFacts DEF Put, W, Registers
    <2>3. [x.prm EXCEPT ![ParamRegs[j]] = <<run, c>>] \in Params
      BY <2>1 DEF Controls, Params
    <2>4. ASSUME NEW q \in Params PROVE [x EXCEPT !.prm = q] \in Controls
      BY DEF Controls
    <2> QED
      BY <2>2, <2>3, <2>4
  <1>4. ASSUME NEW b \in BOOLEAN
        PROVE  Put(x, W("lat", b)) \in Controls /\ Put(x, W("start", b)) \in Controls
    BY PutCases DEF Controls
  <1>5. ASSUME NEW e \in SUBSET Channels
        PROVE  Put(x, W("we", e)) \in Controls /\ Put(x, W("re", e)) \in Controls
    BY PutCases DEF Controls
  <1>6. pc.step \in 2 .. L + 1 => pc.step - 1 \in 1 .. L
    BY <1>0
  <1> QED
    BY <1>0, <1>1, <1>2, <1>3, <1>4, <1>5, <1>6, WriteCases

\* The number of accesses of each call.
LengthOK ==
    pc \in Places =>
        /\ pc.fn = "config" => Len(Calls) = L + 2
        /\ pc.fn = "run" => Len(Calls) = L + 6
        /\ pc.fn = "poll" => Len(Calls) = 3
        /\ pc.fn = "sums" => Len(Calls) = 2

\* They hold at every place of the program.
LEMMA CallLengths == LengthOK
  BY AccessFacts DEF LengthOK

\* Where the host goes from its place.
LEMMA ProceedCases ==
    ASSUME HostType, Running, Proceed
    PROVE  /\ board' = board
           /\ \/ /\ pc.step < Len(Calls) /\ pc' = [pc EXCEPT !.step = @ + 1]
                 /\ run' = run /\ begun' = begun
              \/ /\ pc.step = Len(Calls) /\ run' = run /\ begun' = begun
                 /\ \/ /\ pc.fn = "config" /\ pc.chan < NumChannels - 1
                       /\ pc' = At("config", pc.chan + 1, "wr")
                    \/ pc.fn = "config" /\ pc.chan = NumChannels - 1 /\ pc' = At("run", 0, "wr")
                    \/ pc.fn = "run" /\ pc' = At("poll", 0, "wr")
                    \/ /\ pc.fn \in {"poll", "sums"}
                       /\ \E c \in Channels, s \in Sides : c \in Enabled(s) /\ pc' = At("sums", c, s)
              \/ /\ pc.step = Len(Calls) /\ pc.fn \in {"poll", "sums"}
                 /\ pc' = Start /\ run' = run + 1
                 /\ begun' = [c \in Channels |-> [s \in Sides |-> 0]]
  <1>0. pc.fn \in {"config", "run", "poll", "sums"} /\ pc.chan \in 0 .. NumChannels - 1
        /\ NumChannels \in Nat
    BY Numbers DEF HostType, Places, Channels
  <1>1. CASE pc.step < Len(Calls) /\ pc' = [pc EXCEPT !.step = @ + 1] /\ UNCHANGED <<board, run, begun>>
    BY <1>1
  <1>2. CASE pc.step = Len(Calls) /\ pc' \in NextCalls /\ UNCHANGED <<board, run, begun>>
    <2>1. CASE pc.fn = "config" /\ pc.chan < NumChannels - 1
      BY <1>2, <2>1 DEF NextCalls
    <2>2. CASE pc.fn = "config" /\ pc.chan = NumChannels - 1
      BY <1>0, <1>2, <2>2 DEF NextCalls
    <2>3. CASE pc.fn = "run"
      BY <1>2, <2>3 DEF NextCalls
    <2>4. CASE pc.fn \in {"poll", "sums"}
      <3>1. pc' \in {At("sums", x[1], x[2]) :
                x \in {y \in SumsLeft : \A z \in SumsLeft \ {y} : Precedes(y, z)}}
        BY <1>2, <2>4 DEF NextCalls
      <3>2. PICK x \in SumsLeft : pc' = At("sums", x[1], x[2])
        BY <3>1
      <3>3. x[1] \in Channels /\ x[2] \in Sides /\ x[1] \in Enabled(x[2])
        BY <3>2 DEF SumsLeft
      <3> QED
        BY <1>2, <2>4, <3>2, <3>3
    <2> QED
      BY <1>0, <2>1, <2>2, <2>3, <2>4
  <1>3. CASE pc.step = Len(Calls) /\ NextCalls = {} /\ NextInvocation
    <2>1. pc.fn \in {"poll", "sums"}
      <3>1. ASSUME pc.fn = "config", pc.chan < NumChannels - 1
            PROVE  NextCalls = {At("config", pc.chan + 1, "wr")}
        BY <1>0, <3>1 DEF NextCalls
      <3>2. pc.fn = "config" /\ pc.chan = NumChannels - 1 => At("run", 0, "wr") \in NextCalls
        BY <1>0 DEF NextCalls
      <3>3. pc.fn = "run" => At("poll", 0, "wr") \in NextCalls
        BY DEF NextCalls
      <3>4. pc.chan < NumChannels - 1 \/ pc.chan = NumChannels - 1
        BY <1>0
      <3> QED
        BY <1>0, <1>3, <3>1, <3>2, <3>3, <3>4
    <2> QED
      BY <1>3, <2>1 DEF NextInvocation
  <1> QED
    BY <1>1, <1>2, <1>3 DEF Proceed

\* Proceeding leaves the host at an access of its program.
LEMMA ProceedType ==
    ASSUME HostType, Running, Proceed, GlueType
    PROVE  /\ pc' \in Places /\ pc'.step \in 1 .. Len(Calls)'
           /\ board' \in DOMAIN Boards /\ run' \in 1 .. Len(Boards[board'].jobs) + 1
           /\ ~Running' => pc'.fn = "config"
           /\ begun' \in [Channels -> [Sides -> Nat]]
  <1>0. /\ pc \in Places /\ pc.step \in 1 .. Len(Calls) /\ L \in Nat
        /\ NumChannels \in Nat \ {0} /\ board \in DOMAIN Boards /\ board' = board
        /\ begun \in [Channels -> [Sides -> Nat]]
    BY ProceedCases, RegisterFacts, Numbers DEF HostType, GlueType
  <1>1. run \in 1 .. Len(Boards[board].jobs)
    BY JobFacts, <1>0
  <1>2. Len(Boards[board].jobs) \in Nat
    BY <1>0, BoardsAssumption, LenProperties
  <1>x. pc.step \in Nat /\ pc.fn \in {"config", "run", "poll", "sums"} /\ pc.chan \in Channels
    BY <1>0 DEF Places
  <1>3. pc' \in Places => /\ pc'.fn = "config" => Len(Calls)' = L + 2
                          /\ pc'.fn = "run" => Len(Calls)' = L + 6
                          /\ pc'.fn = "poll" => Len(Calls)' = 3
                          /\ pc'.fn = "sums" => Len(Calls)' = 2
    <2>1. LengthOK'
      BY CallLengths, PTL
    <2> QED
      BY <2>1 DEF LengthOK
  <1>4. Running' <=> run' \in DOMAIN Boards[board].jobs
    BY <1>0 DEF Running
  <1>5. ASSUME pc.step < Len(Calls), pc' = [pc EXCEPT !.step = @ + 1], run' = run, begun' = begun
        PROVE  /\ pc' \in Places /\ pc'.step \in 1 .. Len(Calls)'
               /\ ~Running' => pc'.fn = "config"
    <2>0. \A n \in Nat : /\ [pc EXCEPT !.step = n] \in Places
                           /\ [pc EXCEPT !.step = n].fn = pc.fn /\ [pc EXCEPT !.step = n].step = n
      BY <1>0 DEF Places
    <2>1. pc' \in Places /\ pc'.fn = pc.fn /\ pc'.step = pc.step + 1
      BY <1>x, <1>5, <2>0
    <2>2. Len(Calls)' = Len(Calls)
      BY <1>0, <1>x, <1>3, <2>1, CallLengths DEF LengthOK
    <2>3. Len(Calls) \in Nat
      BY <1>0, <1>x, CallLengths DEF LengthOK
    <2> QED
      BY <1>x, <1>4, <1>5, <2>1, <2>2, <2>3 DEF Running
  <1>6. ASSUME NEW fn \in {"config", "run", "poll", "sums"}, NEW c \in Channels, NEW s \in Sides,
               pc' = At(fn, c, s)
        PROVE  pc' \in Places /\ pc'.step \in 1 .. Len(Calls)' /\ pc'.fn = fn
    <2>1. pc' \in Places /\ pc'.step = 1 /\ pc'.fn = fn
      BY <1>6 DEF At, Places
    <2>2. Len(Calls)' \in {L + 2, L + 6, 3, 2}
      BY <1>3, <2>1
    <2>3. \A n \in {L + 2, L + 6, 3, 2} : 1 \in 1 .. n
      BY <1>0
    <2> QED
      BY <2>1, <2>2, <2>3, Zenon
  <1>7. 0 \in Channels /\ "wr" \in Sides /\ Start = At("config", 0, "wr")
        /\ (pc.chan < NumChannels - 1 => pc.chan + 1 \in Channels)
    <2>1. \A c \in Channels : c < NumChannels - 1 => c + 1 \in Channels
      BY <1>0 DEF Channels
    <2> QED
      BY <1>x, <2>1, Numbers DEF Sides, Start
  <1>8. pc' \in Places /\ pc'.step \in 1 .. Len(Calls)' /\ (~Running' => pc'.fn = "config")
    <2>1. CASE pc.step < Len(Calls) /\ pc' = [pc EXCEPT !.step = @ + 1] /\ run' = run /\ begun' = begun
      BY <1>5, <2>1
    <2>2. CASE run' = run /\ \E fn \in {"config", "run", "poll", "sums"}, c \in Channels, s \in Sides :
                                pc' = At(fn, c, s)
      BY <1>0, <1>4, <1>6, <2>2 DEF Running
    <2>3. CASE pc' = Start
      BY <1>6, <1>7, <2>3
    <2> QED
      BY <1>7, <2>1, <2>2, <2>3, ProceedCases
  <1>9. run' \in 1 .. Len(Boards[board'].jobs) + 1 /\ begun' \in [Channels -> [Sides -> Nat]]
    <2>1. run' = run \/ run' = run + 1
      BY ProceedCases
    <2>2. begun' = begun \/ begun' = [c \in Channels |-> [s \in Sides |-> 0]]
      BY ProceedCases
    <2>3. run' \in 1 .. Len(Boards[board].jobs) + 1
      BY <1>1, <1>2, <2>1
    <2>4. [c \in Channels |-> [s \in Sides |-> 0]] \in [Channels -> [Sides -> Nat]]
      OBVIOUS
    <2> QED
      BY <1>0, <2>2, <2>3, <2>4, Zenon
  <1> QED
    BY <1>0, <1>8, <1>9

-----------------------------------------------------------------------------
(***************************************************************************)
(* Type correctness, and the phases of an access.                           *)
(***************************************************************************)
\* The reset values are well typed.
LEMMA ResetTypes ==
    Control0 \in Controls /\ Word(Control0) \in Words /\ NoSum \in Sums /\ Start \in Places
  <1>1. Control0.prm \in Params
    BY DEF Control0, Params, Registers
  <1>2. Control0 \in Controls
    BY Numbers DEF Control0, Controls, Params, Registers
  <1>3. Word(Control0) \in Words
    BY <1>1 DEF Word, Words, Control0
  <1>4. NoSum \in Sums
    BY <1>1 DEF NoSum, Sums
  <1>5. Start \in Places
    BY Numbers DEF Start, At, Places, Sides
  <1> QED
    BY <1>2, <1>3, <1>4, <1>5

\* The initial state is well typed.
LEMMA TypeInit == Init => TypeInv /\ PhaseInv
  <1> SUFFICES ASSUME Init PROVE TypeInv /\ PhaseInv
    OBVIOUS
  <1>0. L \in Nat
    BY RegisterFacts
  <1>1. HostType
    <2>1. board \in DOMAIN Boards /\ pc \in Places /\ pc.fn = "config" /\ pc.step = 1
      BY ResetTypes DEF Init, Start, At
    <2>2. Len(Calls) = L + 2
      BY <2>1, CallLengths DEF LengthOK
    <2>3. Len(Boards[board].jobs) \in Nat
      BY <2>1, BoardsAssumption, LenProperties
    <2>4. report \in [Sides -> Seq(Lines)]
      BY DEF Init
    <2> QED
      BY <1>0, <2>1, <2>2, <2>3, <2>4 DEF Init, HostType
  <1>2. BusType
    <2>1. dma \in Files
      BY ResetTypes DEF Init, Files
    <2>2. mem_edges \in [Clocks -> 0 .. MemPerBus]
      BY Numbers DEF Init
    <2> QED
      BY <2>1, <2>2, ResetTypes, Numbers DEF Init, BusType
  <1>3. GlueType
    <2>1. [wr |-> Word(Control0), rd |-> Word(Control0)] \in Halves
      BY ResetTypes DEF Halves
    <2>2. [busy |-> 0, job |-> Word(Control0), end |-> FALSE, sum |-> NoSum] \in EngineStates
      BY ResetTypes, Numbers DEF EngineStates
    <2>3. \A h \in Halves : [k \in 1 .. 3 |-> h] = <<h, h, h>>
      OBVIOUS
    <2>4. lt_params \in [Channels -> Halves]
      BY <2>1 DEF Init
    <2>5. pipe \in [Channels -> Halves \X Halves \X Halves]
      BY <2>1, <2>3 DEF Init
    <2>6. start_pipe \in [Channels -> [Sides -> BOOLEAN \X BOOLEAN \X BOOLEAN]]
      BY DEF Init
    <2>7. eng \in [Channels -> [Sides -> EngineStates]]
      BY <2>2 DEF Init
    <2>8. end_o \in [Sides -> SUBSET Channels] /\ begun \in [Channels -> [Sides -> Nat]]
      BY DEF Init
    <2> QED
      BY <2>4, <2>5, <2>6, <2>7, <2>8 DEF Init, GlueType
  <1>4. PhaseInv
    BY DEF Init, PhaseInv
  <1> QED
    BY <1>1, <1>2, <1>3, <1>4 DEF TypeInv

\* What the host does on a bus edge: it finishes a write, or a read of the poll
\* or of a total, or it waits.
LEMMA HostCases ==
    ASSUME TypeInv, PhaseInv, NEW go \in BOOLEAN, BusTick(go)
    PROVE  \/ /\ go /\ w_cstate = "WBRSP" /\ r_cstate # "RDATA" /\ Access.op = "write"
              /\ Proceed /\ UNCHANGED <<endWr, report>>
           \/ /\ go /\ r_cstate = "RDATA" /\ w_cstate = "WIDLE" /\ pc.fn = "poll" /\ pc.step = 2
              /\ endWr' = dma.end_wr /\ Proceed /\ UNCHANGED report
           \/ /\ go /\ r_cstate = "RDATA" /\ w_cstate = "WIDLE" /\ pc.fn = "poll" /\ pc.step = 3
              /\ PollSatisfied /\ Proceed /\ UNCHANGED <<endWr, report>>
           \/ /\ go /\ r_cstate = "RDATA" /\ w_cstate = "WIDLE" /\ pc.fn = "poll" /\ pc.step = 3
              /\ ~PollSatisfied
              /\ pc' = [pc EXCEPT !.step = 2] /\ UNCHANGED <<board, run, endWr, report, begun>>
           \/ /\ go /\ r_cstate = "RDATA" /\ w_cstate = "WIDLE" /\ pc.fn = "sums" /\ pc.step = 2
              /\ report' = [report EXCEPT ![pc.side] =
                     Append(@, [run |-> run, chan |-> pc.chan,
                                sum |-> IF pc.side = "wr" THEN dma.sum_wr ELSE dma.sum_rd,
                                ops |-> NumOps[Job.latch]])]
              /\ Proceed /\ UNCHANGED endWr
           \/ /\ ~(go /\ (w_cstate = "WBRSP" \/ r_cstate = "RDATA"))
              /\ UNCHANGED <<board, run, pc, endWr, report, begun>>
  <1>0. pc \in Places /\ pc.step \in 1 .. Len(Calls) /\ pc.side \in Sides
    BY DEF TypeInv, HostType, Places
  <1>1. CASE go /\ w_cstate = "WBRSP" /\ Proceed /\ UNCHANGED <<endWr, report>>
    BY <1>1 DEF PhaseInv
  <1>2. CASE go /\ r_cstate = "RDATA" /\ Receive
    <2>1. Access.op = "read" /\ w_cstate = "WIDLE"
      BY <1>2 DEF PhaseInv
    <2>2. CASE Access.reg = "end_wr" /\ endWr' = dma.end_wr /\ Proceed /\ UNCHANGED report
      BY <1>0, <1>2, <2>1, <2>2, AccessKinds
    <2>3. CASE Access.reg = "end_rd" /\ PollSatisfied /\ Proceed /\ UNCHANGED <<endWr, report>>
      BY <1>0, <1>2, <2>1, <2>3, AccessKinds
    <2>4. CASE /\ Access.reg = "end_rd" /\ ~PollSatisfied /\ pc' = [pc EXCEPT !.step = 2]
               /\ UNCHANGED <<board, run, endWr, report, begun>>
      BY <1>0, <1>2, <2>1, <2>4, AccessKinds
    <2>5. CASE /\ Access.reg = "sum_wr"
               /\ report' = [report EXCEPT !["wr"] =
                      Append(@, [run |-> run, chan |-> Access.val, sum |-> dma.sum_wr,
                                 ops |-> NumOps[Job.latch]])]
               /\ Proceed /\ UNCHANGED endWr
      <3>1. pc.fn = "sums" /\ pc.step = 2 /\ pc.side = "wr" /\ Access.val = pc.chan
        BY <1>0, <2>1, <2>5, AccessKinds
      <3> QED
        BY <1>2, <2>1, <2>5, <3>1
    <2>6. CASE /\ Access.reg = "sum_rd"
               /\ report' = [report EXCEPT !["rd"] =
                      Append(@, [run |-> run, chan |-> Access.val, sum |-> dma.sum_rd,
                                 ops |-> NumOps[Job.latch]])]
               /\ Proceed /\ UNCHANGED endWr
      <3>1. pc.fn = "sums" /\ pc.step = 2 /\ pc.side = "rd" /\ Access.val = pc.chan
        BY <1>0, <2>1, <2>6, AccessKinds
      <3> QED
        BY <1>2, <2>1, <2>6, <3>1
    <2> QED
      BY <1>2, <2>2, <2>3, <2>4, <2>5, <2>6 DEF Receive
  <1>3. CASE ~(go /\ (w_cstate = "WBRSP" \/ r_cstate = "RDATA")) /\ UNCHANGED <<host, begun>>
    BY <1>3 DEF host
  <1> QED
    BY <1>1, <1>2, <1>3 DEF BusTick, Host

\* The program's place decides the access.
LEMMA SameAccess ==
    ASSUME UNCHANGED <<board, run, pc>>
    PROVE  Calls' = Calls /\ Access' = Access /\ Job' = Job /\ (Running' <=> Running)
  <1>1. Job' = Job /\ (Running' <=> Running)
    BY DEF Job, Running
  <1>2. Calls' = Calls
    BY <1>1 DEF Calls
  <1> QED
    BY <1>1, <1>2 DEF Access

\* A bus edge leaves the host well typed.
LEMMA BusTickHostType ==
    ASSUME TypeInv, PhaseInv, NEW go \in BOOLEAN, BusTick(go)
    PROVE  HostType' /\ begun' \in [Channels -> [Sides -> Nat]] /\ board' = board
  <1>0. /\ HostType /\ GlueType /\ Running /\ board \in DOMAIN Boards /\ pc \in Places
        /\ endWr \in SUBSET Channels /\ report \in [Sides -> Seq(Lines)]
        /\ begun \in [Channels -> [Sides -> Nat]] /\ dma \in Files
    BY DEF TypeInv, HostType, BusType, GlueType, BusTick
  <1>1. Proceed => /\ pc' \in Places /\ pc'.step \in 1 .. Len(Calls)'
                   /\ board' \in DOMAIN Boards /\ run' \in 1 .. Len(Boards[board'].jobs) + 1
                   /\ ~Running' => pc'.fn = "config"
                   /\ begun' \in [Channels -> [Sides -> Nat]] /\ board' = board
    BY <1>0, ProceedType, ProceedCases
  <1>2. ASSUME pc.fn = "poll", pc' = [pc EXCEPT !.step = 2], UNCHANGED <<board, run>>
        PROVE  pc' \in Places /\ pc'.step \in 1 .. Len(Calls)' /\ (Running' <=> Running)
    <2>1. pc' \in Places /\ pc'.fn = "poll" /\ pc'.step = 2
      BY <1>0, <1>2 DEF Places
    <2>2. LengthOK'
      BY CallLengths, PTL
    <2>3. Len(Calls)' = 3
      BY <2>1, <2>2 DEF LengthOK
    <2> QED
      BY <1>2, <2>1, <2>3 DEF Running
  <1>3. UNCHANGED <<board, run, pc>> =>
            pc' \in Places /\ pc'.step \in 1 .. Len(Calls)' /\ (Running' <=> Running)
    BY SameAccess, <1>0 DEF HostType
  <1>4. /\ pc' \in Places /\ pc'.step \in 1 .. Len(Calls)'
        /\ board' \in DOMAIN Boards /\ run' \in 1 .. Len(Boards[board'].jobs) + 1
        /\ ~Running' => pc'.fn = "config"
        /\ begun' \in [Channels -> [Sides -> Nat]] /\ board' = board
    <2>1. run \in 1 .. Len(Boards[board].jobs) + 1
      BY <1>0 DEF HostType
    <2> QED
      BY <1>0, <1>1, <1>2, <1>3, <2>1, HostCases
  <1>5. endWr' \in SUBSET Channels
    BY <1>0, HostCases DEF Files
  <1>6. report' \in [Sides -> Seq(Lines)]
    <2>1. CASE report' = report
      BY <1>0, <2>1
    <2>2. ASSUME report' = [report EXCEPT ![pc.side] =
                     Append(@, [run |-> run, chan |-> pc.chan,
                                sum |-> IF pc.side = "wr" THEN dma.sum_wr ELSE dma.sum_rd,
                                ops |-> NumOps[Job.latch]])]
          PROVE  report' \in [Sides -> Seq(Lines)]
      <3> DEFINE line == [run |-> run, chan |-> pc.chan,
                          sum |-> IF pc.side = "wr" THEN dma.sum_wr ELSE dma.sum_rd,
                          ops |-> NumOps[Job.latch]]
      <3>1. pc.chan \in Channels /\ pc.side \in Sides /\ run \in Nat
        BY <1>0, JobFacts DEF Places
      <3>2. NumOps[Job.latch] \in Nat
        BY <1>0, JobFacts, Numbers
      <3>3. dma.sum_wr \in Sums /\ dma.sum_rd \in Sums
        BY <1>0 DEF Files
      <3>4. line \in Lines
        BY <3>1, <3>2, <3>3 DEF Lines
      <3> HIDE DEF line
      <3>5. report[pc.side] \in Seq(Lines)
        BY <1>0, <3>1
      <3>6. Append(report[pc.side], line) \in Seq(Lines)
        BY <3>4, <3>5
      <3>7. report' = [report EXCEPT ![pc.side] = Append(report[pc.side], line)]
        BY <2>2 DEF line
      <3> QED
        BY <1>0, <3>1, <3>6, <3>7
    <2> QED
      BY <2>1, <2>2, HostCases
  <1> QED
    BY <1>4, <1>5, <1>6 DEF HostType

\* A bus edge leaves the registers well typed.
LEMMA BusTickBusType ==
    ASSUME TypeInv, PhaseInv, NEW go \in BOOLEAN, BusTick(go)
    PROVE  BusType'
  <1>0. /\ HostType /\ Running /\ dma \in Files /\ out \in Controls /\ board' = board
    BY BusTickHostType DEF TypeInv, BusType, BusTick
  <1>1. dma' \in Files
    <2>1. CASE w_cstate = "WBRSP"
      <3>1. Put(dma.ctl, Access) \in Controls
        BY <1>0, <2>1, PutType DEF PhaseInv, Files
      <3>2. dma' = [dma EXCEPT !.ctl = Put(dma.ctl, Access)]
        BY <2>1 DEF BusTick, RegisterFile
      <3> QED
        BY <1>0, <3>1, <3>2 DEF Files
    <2>2. CASE w_cstate # "WBRSP"
      <3>1. \A s \in Sides : end_o[s] \in SUBSET Channels /\ eng[out.chan][s].sum \in Sums
        BY <1>0 DEF TypeInv, GlueType, Controls, EngineStates
      <3>2. dma' = [dma EXCEPT !.end_wr = end_o["wr"], !.end_rd = end_o["rd"],
                               !.sum_wr = eng[out.chan]["wr"].sum,
                               !.sum_rd = eng[out.chan]["rd"].sum]
        BY <2>2 DEF BusTick, RegisterFile
      <3> QED
        BY <1>0, <3>1, <3>2 DEF Files, Sides
    <2> QED
      BY <2>1, <2>2
  <1>2. out' \in Controls /\ out_prev' \in Controls
    BY <1>0 DEF BusTick, OutputRegisters, Files
  <1>3. /\ w_cstate' \in {"WIDLE", "WDATA", "WBRSP"} /\ r_cstate' \in {"RIDLE", "RDATA", "RWAIT"}
    BY DEF BusTick, WriteFSM, ReadFSM, TypeInv, BusType
  <1>4. counter' \in 0 .. RWait - 1
    BY Numbers DEF BusTick, ReadFSM, TypeInv, BusType
  <1>5. gap' \in 0 .. ReadGap
    BY Numbers DEF BusTick, TypeInv, BusType
  <1>6. mem_edges' \in [Clocks' -> 0 .. MemPerBus]
    <2>1. Clocks' = Clocks
      BY <1>0 DEF Clocks
    <2> QED
      BY <2>1, Numbers DEF BusTick
  <1> QED
    BY <1>1, <1>2, <1>3, <1>4, <1>5, <1>6 DEF BusType

\* A bus edge keeps the phases of an access in order.
LEMMA BusTickPhase ==
    ASSUME TypeInv, PhaseInv, NEW go \in BOOLEAN, BusTick(go)
    PROVE  PhaseInv'
  <1>0. Running /\ gap \in 0 .. ReadGap /\ ReadGap \in Nat
    BY Numbers DEF TypeInv, BusType, BusTick
  <1>1. ASSUME ~(go /\ (w_cstate = "WBRSP" \/ r_cstate = "RDATA"))
        PROVE  Access' = Access /\ Running'
    BY <1>0, <1>1, HostCases, SameAccess
  <1>2. ASSUME w_cstate' # "WIDLE" PROVE Running' /\ (Access.op)' = "write"
    <2>1. Access.op = "write" /\ ~(go /\ w_cstate = "WBRSP")
      BY <1>2 DEF BusTick, WriteFSM, PhaseInv, TypeInv, BusType
    <2>2. r_cstate # "RDATA"
      BY <2>1 DEF PhaseInv
    <2> QED
      BY <1>1, <2>1, <2>2
  <1>3. ASSUME r_cstate' = "RDATA"
        PROVE  Running' /\ (Access.op)' = "read" /\ w_cstate' = "WIDLE" /\ gap' = ReadGap
    <2>1. Access.op = "read" /\ gap = ReadGap /\ ~(go /\ r_cstate = "RDATA")
      BY <1>3 DEF BusTick, ReadFSM, PhaseInv
    <2>2. w_cstate = "WIDLE"
      BY <2>1 DEF PhaseInv
    <2>3. w_cstate' = "WIDLE"
      BY <2>1, <2>2 DEF BusTick, WriteFSM
    <2>4. gap' = ReadGap
      BY <1>0, <2>1, <2>2 DEF BusTick
    <2> QED
      BY <1>1, <2>1, <2>2, <2>3, <2>4
  <1> QED
    BY <1>2, <1>3 DEF PhaseInv

\* A sample of the output registers is well typed up to the channel number.
LEMMA SampleTypes ==
    ASSUME BusType, NEW d \in Clocks, NEW o \in Samples(d)
    PROVE  /\ o.prm \in Params /\ o.lat \in BOOLEAN /\ o.start \in BOOLEAN
           /\ o.we \in SUBSET Channels /\ o.re \in SUBSET Channels
           /\ Word(o) \in Words
  <1>1. out \in Controls /\ out_prev \in Controls
    BY DEF BusType
  <1>2. \/ o = out \/ o = out_prev
        \/ \E c \in Torn(out_prev.chan, out.chan) : o = [out EXCEPT !.chan = c]
    BY DEF Samples
  <1>3. /\ o.prm \in Params /\ o.lat \in BOOLEAN /\ o.start \in BOOLEAN
        /\ o.we \in SUBSET Channels /\ o.re \in SUBSET Channels
    BY <1>1, <1>2 DEF Controls
  <1> QED
    BY <1>3 DEF Word, Words

\* What an edge of clock d does to a channel of another clock: nothing, but for
\* the copy of its start edge.
LEMMA OtherChannel ==
    ASSUME TypeInv, NEW d \in Clocks, NEW o \in Samples(d),
           NEW F \in SUBSET MayEnd(ClockedBy(d)), MemTick(d, o, F),
           NEW c \in Channels, Clock(c) # d
    PROVE  /\ lt_params'[c] = lt_params[c] /\ pipe'[c] = pipe[c]
           /\ (c \in start_r' <=> c \in start_r) /\ (c \in start_rr' <=> c \in start_rr)
           /\ \A s \in Sides : /\ start_pipe'[c][s] = start_pipe[c][s]
                               /\ eng'[c][s] = eng[c][s] /\ begun'[c][s] = begun[c][s]
                               /\ c \in end_o'[s] <=> c \in end_o[s]
  <1>1. c \notin ClockedBy(d)
    BY DEF ClockedBy, Clock
  <1>2. lt_params'[c] = lt_params[c]
    BY <1>1 DEF MemTick, ChannelParams
  <1>3. pipe'[c] = pipe[c]
    BY <1>1 DEF MemTick, StageParams
  <1>4. (c \in start_r' <=> c \in start_r) /\ (c \in start_rr' <=> c \in start_rr)
    BY <1>1 DEF MemTick, StartFanout
  <1>5. ASSUME NEW s \in Sides PROVE start_pipe'[c][s] = start_pipe[c][s]
    BY <1>1 DEF MemTick, StartFanout
  <1>6. ASSUME NEW s \in Sides PROVE eng'[c][s] = eng[c][s] /\ begun'[c][s] = begun[c][s]
    BY <1>1 DEF MemTick, Engines
  <1>7. ASSUME NEW s \in Sides PROVE c \in end_o'[s] <=> c \in end_o[s]
    <2>1. PICK clear \in Clears(ClockedBy(d)) :
              end_o' = [t \in Sides |->
                     IF clear THEN end_o[t] \ ClockedBy(d)
                     ELSE end_o[t] \cup {e \in ClockedBy(d) : eng[e][t].end}]
      BY DEF MemTick, EndFlags
    <2> QED
      BY <1>1, <2>1
  <1> QED
    BY <1>2, <1>3, <1>4, <1>5, <1>6, <1>7

\* What it does to a channel of that clock.
LEMMA OwnChannel ==
    ASSUME TypeInv, NEW d \in Clocks, NEW o \in Samples(d),
           NEW F \in SUBSET MayEnd(ClockedBy(d)), MemTick(d, o, F),
           NEW c \in Channels, Clock(c) = d
    PROVE  /\ o.chan = c => lt_params'[c] = [wr |-> Word(o), rd |-> lt_params[c].wr]
           /\ o.chan # c => lt_params'[c] = lt_params[c]
           /\ pipe'[c][1] = lt_params[c] /\ pipe'[c][2] = pipe[c][1] /\ pipe'[c][3] = pipe[c][2]
           /\ (c \in start_r' <=> o.start) /\ (c \in start_rr' <=> c \in start_r)
  <1>1. c \in ClockedBy(d)
    BY DEF ClockedBy, Clock
  <1>2. lt_params'[c] = IF o.chan = c THEN [wr |-> Word(o), rd |-> lt_params[c].wr]
                        ELSE lt_params[c]
    BY <1>1 DEF MemTick, ChannelParams
  <1>3. pipe'[c] = << lt_params[c], pipe[c][1], pipe[c][2] >>
    BY <1>1 DEF MemTick, StageParams
  <1>4. c \in start_r' <=> o.start
    BY <1>1 DEF MemTick, StartFanout
  <1>5. c \in start_rr' <=> c \in start_r
    BY <1>1 DEF MemTick, StartFanout
  <1> QED
    BY <1>2, <1>3, <1>4, <1>5

\* What it does to an engine of that clock and to the start on its way there.
LEMMA OwnEngine ==
    ASSUME TypeInv, NEW d \in Clocks, NEW o \in Samples(d),
           NEW F \in SUBSET MayEnd(ClockedBy(d)), MemTick(d, o, F),
           NEW c \in Channels, Clock(c) = d, NEW s \in Sides
    PROVE  /\ c \in (IF s = "wr" THEN o.we ELSE o.re) =>
                 (start_pipe'[c][s][1] <=> c \in StartEdge)
           /\ c \notin (IF s = "wr" THEN o.we ELSE o.re) =>
                 (start_pipe'[c][s][1] <=> start_pipe[c][s][1])
           /\ start_pipe'[c][s][2] <=> start_pipe[c][s][1]
           /\ start_pipe'[c][s][3] <=> start_pipe[c][s][2]
           /\ \/ /\ start_pipe[c][s][3] /\ eng[c][s].busy = 0
                 /\ begun'[c][s] = begun[c][s] + 1
                 /\ eng'[c][s] = [busy |-> 1, job |-> pipe[c][3][s], end |-> FALSE, sum |-> NoSum]
              \/ /\ ~(start_pipe[c][s][3] /\ eng[c][s].busy = 0)
                 /\ eng[c][s].busy = MinBusy /\ begun'[c][s] = begun[c][s]
                 /\ eng'[c][s].busy = 0 /\ eng'[c][s].end /\ eng'[c][s].sum.final
                 /\ eng'[c][s].sum.prm = eng[c][s].job.prm /\ eng'[c][s] \in EngineStates
              \/ /\ ~(start_pipe[c][s][3] /\ eng[c][s].busy = 0)
                 /\ begun'[c][s] = begun[c][s]
                 /\ eng'[c][s].busy \in 0 .. MinBusy /\ (eng'[c][s].busy = 0 <=> eng[c][s].busy = 0)
                 /\ eng'[c][s].job = eng[c][s].job /\ eng'[c][s].sum = eng[c][s].sum
                 /\ ~eng'[c][s].end /\ eng'[c][s] \in EngineStates
           /\ \/ c \notin end_o'[s] 
              \/ /\ c \notin StartEdge
                 /\ c \in end_o'[s] => c \in end_o[s] \/ eng[c][s].end
  <1> DEFINE C == ClockedBy(d)
             q == start_pipe[c][s]
             e == eng[c][s]
  <1>1. c \in C
    BY DEF ClockedBy, Clock
  <1>2. start_pipe'[c][s] = << IF c \in (IF s = "wr" THEN o.we ELSE o.re) THEN c \in StartEdge ELSE q[1],
                               q[1], q[2] >>
    BY <1>1 DEF MemTick, StartFanout
  <1>3. /\ c \in (IF s = "wr" THEN o.we ELSE o.re) => (start_pipe'[c][s][1] <=> c \in StartEdge)
        /\ c \notin (IF s = "wr" THEN o.we ELSE o.re) => (start_pipe'[c][s][1] <=> q[1])
    <2>1. CASE c \in (IF s = "wr" THEN o.we ELSE o.re)
      <3>1. start_pipe'[c][s] = <<c \in StartEdge, q[1], q[2]>>
        BY <1>2, <2>1
      <3>2. start_pipe'[c][s][1] = (c \in StartEdge)
        BY <3>1
      <3> QED
        BY <2>1, <3>2, Zenon
    <2>2. CASE c \notin (IF s = "wr" THEN o.we ELSE o.re)
      <3>1. start_pipe'[c][s] = <<q[1], q[1], q[2]>>
        BY <1>2, <2>2
      <3>2. start_pipe'[c][s][1] = q[1]
        BY <3>1
      <3> QED
        BY <2>2, <3>2, Zenon
    <2> QED
      BY <2>1, <2>2
  <1>4. start_pipe'[c][s][2] = q[1] /\ start_pipe'[c][s][3] = q[2]
    BY <1>2
  <1>5. /\ e.busy \in 0 .. MinBusy /\ e \in EngineStates /\ MinBusy \in Nat \ {0}
    BY Numbers DEF TypeInv, GlueType, EngineStates
  <1>6. begun'[c][s] = IF Begins(c, s) THEN begun[c][s] + 1 ELSE begun[c][s]
    BY <1>1 DEF MemTick, Engines
  <1>7. eng'[c][s] = IF Begins(c, s)
          THEN [busy |-> 1, job |-> pipe[c][3][s], end |-> FALSE, sum |-> NoSum]
          ELSE IF <<c, s>> \in F
          THEN [e EXCEPT !.busy = 0, !.end = TRUE, !.sum = [prm |-> e.job.prm, final |-> TRUE]]
          ELSE [e EXCEPT !.busy = IF @ \in 1 .. MinBusy - 1 THEN @ + 1 ELSE @, !.end = FALSE]
    BY <1>1 DEF MemTick, Engines
  <1>8. \/ /\ start_pipe[c][s][3] /\ eng[c][s].busy = 0
           /\ begun'[c][s] = begun[c][s] + 1
           /\ eng'[c][s] = [busy |-> 1, job |-> pipe[c][3][s], end |-> FALSE, sum |-> NoSum]
        \/ /\ ~(start_pipe[c][s][3] /\ eng[c][s].busy = 0)
           /\ eng[c][s].busy = MinBusy /\ begun'[c][s] = begun[c][s]
           /\ eng'[c][s].busy = 0 /\ eng'[c][s].end /\ eng'[c][s].sum.final
           /\ eng'[c][s].sum.prm = eng[c][s].job.prm /\ eng'[c][s] \in EngineStates
        \/ /\ ~(start_pipe[c][s][3] /\ eng[c][s].busy = 0)
           /\ begun'[c][s] = begun[c][s]
           /\ eng'[c][s].busy \in 0 .. MinBusy /\ (eng'[c][s].busy = 0 <=> eng[c][s].busy = 0)
           /\ eng'[c][s].job = eng[c][s].job /\ eng'[c][s].sum = eng[c][s].sum
           /\ ~eng'[c][s].end /\ eng'[c][s] \in EngineStates
    <2>1. CASE Begins(c, s)
      BY <1>6, <1>7, <2>1 DEF Begins
    <2>2. CASE ~Begins(c, s) /\ <<c, s>> \in F
      <3>1. e.busy = MinBusy
        BY <2>2 DEF MayEnd
      <3>2. e.job.prm \in Params
        BY <1>5 DEF EngineStates, Words
      <3> DEFINE m == [prm |-> e.job.prm, final |-> TRUE]
      <3>3. m \in Sums /\ m.final /\ m.prm = e.job.prm
        BY <3>2 DEF Sums
      <3>4. eng'[c][s] = [e EXCEPT !.busy = 0, !.end = TRUE, !.sum = m]
        BY <1>7, <2>2
      <3> HIDE DEF m
      <3>5. /\ eng'[c][s].busy = 0 /\ eng'[c][s].end /\ eng'[c][s].sum = m
            /\ eng'[c][s] \in EngineStates
        <4>0. PICK n \in 0 .. MinBusy : n = 0
          BY <1>5
        <4>1. PICK t \in BOOLEAN : t = TRUE
          BY Zenon
        <4>2. eng'[c][s] = [e EXCEPT !.busy = n, !.end = t, !.sum = m]
          BY <3>4, <4>0, <4>1
        <4>3. /\ eng'[c][s] \in EngineStates
              /\ eng'[c][s].busy = n /\ eng'[c][s].end = t /\ eng'[c][s].sum = m
          BY <1>5, <3>3, <4>2 DEF EngineStates
        <4> QED
          BY <4>0, <4>1, <4>3
      <3> QED
        BY <1>6, <2>2, <3>1, <3>3, <3>5 DEF Begins
    <2>3. CASE ~Begins(c, s) /\ <<c, s>> \notin F
      <3> DEFINE n == IF e.busy \in 1 .. MinBusy - 1 THEN e.busy + 1 ELSE e.busy
      <3>1. n \in 0 .. MinBusy /\ (n = 0 <=> e.busy = 0)
        BY <1>5
      <3>2. eng'[c][s] = [e EXCEPT !.busy = n, !.end = FALSE]
        BY <1>7, <2>3
      <3> HIDE DEF n
      <3>3. /\ eng'[c][s].busy = n /\ eng'[c][s].job = e.job /\ eng'[c][s].sum = e.sum
            /\ ~eng'[c][s].end /\ eng'[c][s] \in EngineStates
        BY <1>5, <3>1, <3>2 DEF EngineStates
      <3> QED
        BY <1>6, <2>3, <3>1, <3>3 DEF Begins
    <2> QED
      BY <2>1, <2>2, <2>3
  <1>9. \/ c \notin end_o'[s] 
        \/ /\ c \notin StartEdge
           /\ c \in end_o'[s] => c \in end_o[s] \/ eng[c][s].end
    <2>1. PICK clear \in Clears(C) :
              end_o' = [t \in Sides |-> IF clear THEN end_o[t] \ C
                                        ELSE end_o[t] \cup {b \in C : eng[b][t].end}]
      BY DEF MemTick, EndFlags
    <2>2. c \in StartEdge => clear
      BY <1>1, <2>1 DEF Clears
    <2> QED
      BY <1>1, <2>1, <2>2
  <1> QED
    BY <1>3, <1>4, <1>8, <1>9

\* An edge of a memory clock leaves the glue and the engines well typed.
LEMMA MemTickType ==
    ASSUME TypeInv, PhaseInv, NEW d \in Clocks, NEW o \in Samples(d),
           NEW F \in SUBSET MayEnd(ClockedBy(d)), MemTick(d, o, F)
    PROVE  TypeInv' /\ PhaseInv'
  <1>0. /\ HostType /\ BusType /\ GlueType /\ Word(o) \in Words
        /\ UNCHANGED <<board, run, pc, endWr, report>>
        /\ UNCHANGED <<w_cstate, r_cstate, counter, gap, dma, out, out_prev>>
    BY SampleTypes DEF TypeInv, MemTick, host, bus
  <1>1. Calls' = Calls /\ Access' = Access /\ (Running' <=> Running)
    BY <1>0, SameAccess
  <1>2. PhaseInv'
    BY <1>0, <1>1 DEF PhaseInv
  <1>3. HostType'
    BY <1>0, <1>1 DEF HostType
  <1>4. BusType'
    <2>1. Clocks' = Clocks
      BY <1>0 DEF Clocks
    <2>2. mem_edges' \in [Clocks -> 0 .. MemPerBus]
      BY Numbers, <1>0 DEF MemTick, BusType
    <2> QED
      BY <1>0, <2>1, <2>2 DEF BusType
  <1>5. ASSUME NEW c \in Channels
        PROVE  /\ lt_params'[c] \in Halves /\ pipe'[c] \in Halves \X Halves \X Halves
               /\ \A s \in Sides : start_pipe'[c][s] \in BOOLEAN \X BOOLEAN \X BOOLEAN
               /\ \A s \in Sides : eng'[c][s] \in EngineStates /\ begun'[c][s] \in Nat
    <2>0. /\ lt_params[c] \in Halves /\ pipe[c] \in Halves \X Halves \X Halves
          /\ \A s \in Sides : start_pipe[c][s] \in BOOLEAN \X BOOLEAN \X BOOLEAN
          /\ \A s \in Sides : eng[c][s] \in EngineStates /\ begun[c][s] \in Nat
      BY <1>0 DEF GlueType
    <2>1. CASE Clock(c) # d
      BY <2>0, <2>1, OtherChannel
    <2>2. CASE Clock(c) = d
      <3>1. c \in ClockedBy(d)
        BY <2>2 DEF ClockedBy, Clock
      <3>2. lt_params'[c] \in Halves
        <4>1. \/ lt_params'[c] = lt_params[c]
              \/ lt_params'[c] = [wr |-> Word(o), rd |-> lt_params[c].wr]
          BY <3>1 DEF MemTick, ChannelParams
        <4> QED
          BY <1>0, <2>0, <4>1 DEF Halves
      <3>3. pipe'[c] \in Halves \X Halves \X Halves
        <4>1. pipe'[c] = << lt_params[c], pipe[c][1], pipe[c][2] >>
          BY <3>1 DEF MemTick, StageParams
        <4> QED
          BY <2>0, <4>1
      <3>4. ASSUME NEW s \in Sides PROVE start_pipe'[c][s] \in BOOLEAN \X BOOLEAN \X BOOLEAN
        <4>1. PICK v \in BOOLEAN : start_pipe'[c][s] = << v, start_pipe[c][s][1], start_pipe[c][s][2] >>
          <5>1. start_pipe'[c][s] = << IF c \in (IF s = "wr" THEN o.we ELSE o.re) THEN c \in StartEdge
                                      ELSE start_pipe[c][s][1], start_pipe[c][s][1], start_pipe[c][s][2] >>
            BY <3>1 DEF MemTick, StartFanout
          <5>2. start_pipe[c][s][1] \in BOOLEAN /\ (c \in StartEdge) \in BOOLEAN
            BY <2>0
          <5> QED
            BY <5>1, <5>2
        <4> QED
          BY <2>0, <4>1
      <3>5. ASSUME NEW s \in Sides PROVE eng'[c][s] \in EngineStates /\ begun'[c][s] \in Nat
        <4>1. pipe[c][3][s] \in Words
          <5>1. pipe[c][3] \in Halves
            BY <2>0
          <5> QED
            BY <5>1 DEF Halves, Sides
        <4>2. 1 \in 0 .. MinBusy /\ NoSum \in Sums
          BY Numbers, ResetTypes
        <4>3. [busy |-> 1, job |-> pipe[c][3][s], end |-> FALSE, sum |-> NoSum] \in EngineStates
          BY <4>1, <4>2 DEF EngineStates
        <4>4. \/ eng'[c][s] = [busy |-> 1, job |-> pipe[c][3][s], end |-> FALSE, sum |-> NoSum]
              \/ eng'[c][s] \in EngineStates
          BY <2>2, OwnEngine
        <4>5. begun'[c][s] = begun[c][s] \/ begun'[c][s] = begun[c][s] + 1
          BY <3>1 DEF MemTick, Engines
        <4> QED
          BY <2>0, <4>3, <4>4, <4>5
      <3> QED
        BY <3>2, <3>3, <3>4, <3>5
    <2> QED
      BY <2>1, <2>2
  <1>6. lt_params' \in [Channels -> Halves]
    <2>1. lt_params' = [c \in Channels |-> lt_params'[c]]
      BY DEF MemTick, ChannelParams
    <2> QED
      BY <1>5, <2>1
  <1>7. pipe' \in [Channels -> Halves \X Halves \X Halves]
    <2>1. pipe' = [c \in Channels |-> pipe'[c]]
      BY DEF MemTick, StageParams
    <2> QED
      BY <1>5, <2>1
  <1>8. start_pipe' \in [Channels -> [Sides -> BOOLEAN \X BOOLEAN \X BOOLEAN]]
    <2>1. start_pipe' = [c \in Channels |-> [s \in Sides |-> start_pipe'[c][s]]]
      BY DEF MemTick, StartFanout
    <2> QED
      BY <1>5, <2>1
  <1>9. /\ eng' \in [Channels -> [Sides -> EngineStates]]
        /\ begun' \in [Channels -> [Sides -> Nat]]
    <2>1. eng' = [c \in Channels |-> [s \in Sides |-> eng'[c][s]]]
      BY DEF MemTick, Engines
    <2>2. begun' = [c \in Channels |-> [s \in Sides |-> begun'[c][s]]]
      BY DEF MemTick, Engines
    <2> QED
      BY <1>5, <2>1, <2>2
  <1>10. start_r' \in SUBSET Channels /\ start_rr' \in SUBSET Channels /\ edge_prev' \in SUBSET Channels
    BY <1>0 DEF MemTick, StartFanout, GlueType, ClockedBy, StartEdge
  <1>11. end_o' \in [Sides -> SUBSET Channels]
    <2>1. PICK clear \in Clears(ClockedBy(d)) :
              end_o' = [t \in Sides |-> IF clear THEN end_o[t] \ ClockedBy(d)
                                        ELSE end_o[t] \cup {b \in ClockedBy(d) : eng[b][t].end}]
      BY DEF MemTick, EndFlags
    <2>2. \A t \in Sides : end_o[t] \in SUBSET Channels
      BY <1>0 DEF GlueType
    <2>3. ClockedBy(d) \in SUBSET Channels
      BY DEF ClockedBy
    <2> QED
      BY <2>1, <2>2, <2>3
  <1> QED
    BY <1>2, <1>3, <1>4, <1>6, <1>7, <1>8, <1>9, <1>10, <1>11 DEF TypeInv, GlueType

\* Every step keeps the types and the phases.
LEMMA TypeStep == TypeInv /\ PhaseInv /\ [Next]_vars => TypeInv' /\ PhaseInv'
  <1> SUFFICES ASSUME TypeInv, PhaseInv, [Next]_vars PROVE TypeInv' /\ PhaseInv'
    OBVIOUS
  <1>1. ASSUME NEW go \in BOOLEAN, BusTick(go) PROVE TypeInv' /\ PhaseInv'
    <2>1. GlueType'
      BY <1>1, BusTickHostType DEF BusTick, TypeInv, GlueType, glue
    <2> QED
      BY <1>1, <2>1, BusTickHostType, BusTickBusType, BusTickPhase DEF TypeInv
  <1>2. ASSUME NEW d \in Clocks, MemStep(d) PROVE TypeInv' /\ PhaseInv'
    BY <1>2, MemTickType DEF MemStep
  <1>3. ASSUME UNCHANGED vars PROVE TypeInv' /\ PhaseInv'
    <2>1. Calls' = Calls /\ Access' = Access /\ (Running' <=> Running)
      BY <1>3, SameAccess DEF vars, host
    <2>2. Clocks' = Clocks
      BY <1>3 DEF vars, host, Clocks
    <2> QED
      BY <1>3, <2>1, <2>2 DEF vars, host, bus, glue, TypeInv, HostType, BusType, GlueType, PhaseInv
  <1> QED
    BY <1>1, <1>2, <1>3 DEF Next, Finished

\* The types hold in every state the program can reach.
LEMMA TypesHold == Spec => [](TypeInv /\ PhaseInv)
  BY TypeInit, TypeStep, PTL DEF Spec

\* Every register, flag and counter stays in its range, and the host is always at
\* an access of its program: for any boards, jobs, clocks and parameters, and
\* whatever a sampler sees of a channel number that changes.
THEOREM TypeCorrect == Spec => []TypeOK
  <1>1. TypeInv => TypeOK
    <2> SUFFICES ASSUME TypeInv PROVE TypeOK
      OBVIOUS
    <2>1. DOMAIN Calls = 1 .. Len(Calls)
      BY AccessFacts DEF TypeInv, HostType
    <2>2. /\ board \in DOMAIN Boards /\ run \in 1 .. Len(Boards[board].jobs) + 1
          /\ pc.fn \in {"config", "run", "poll", "sums"} /\ pc.chan \in Channels /\ pc.side \in Sides
          /\ pc.step \in DOMAIN Calls /\ endWr \subseteq Channels
      BY <2>1 DEF TypeInv, HostType, Places
    <2>3. /\ w_cstate \in {"WIDLE", "WDATA", "WBRSP"} /\ r_cstate \in {"RIDLE", "RDATA", "RWAIT"}
          /\ counter \in 0 .. RWait - 1 /\ gap \in 0 .. ReadGap
          /\ mem_edges \in [Clocks -> 0 .. MemPerBus]
          /\ out.chan \in Channels /\ dma.ctl.chan \in Channels
      BY DEF TypeInv, BusType, Controls, Files
    <2>4. /\ \A s \in Sides : end_o[s] \subseteq Channels
          /\ start_r \cup start_rr \cup edge_prev \subseteq Channels
      BY DEF TypeInv, GlueType
    <2>5. \A c \in Channels, s \in Sides : begun[c][s] \in Nat /\ eng[c][s].busy \in 0 .. MinBusy
      BY DEF TypeInv, GlueType, EngineStates
    <2> QED
      BY <2>2, <2>3, <2>4, <2>5 DEF TypeOK
  <1> QED
    BY <1>1, TypesHold, PTL

-----------------------------------------------------------------------------
(***************************************************************************)
(* The host's program and the registers it writes.                          *)
(***************************************************************************)
\* Writing the value a register has changes nothing.
LEMMA SameValue ==
    ASSUME NEW y \in Controls
    PROVE  /\ [y EXCEPT !.chan = y.chan] = y
           /\ [y EXCEPT !.we = y.we] = y
           /\ [y EXCEPT !.re = y.re] = y
           /\ [y EXCEPT !.lat = y.lat] = y
           /\ [y EXCEPT !.start = y.start] = y
           /\ \A k \in Registers : [y EXCEPT !.prm[k] = y.prm[k]] = y
  <1>1. /\ [y EXCEPT !.chan = y.chan] = y
        /\ [y EXCEPT !.we = y.we] = y
        /\ [y EXCEPT !.re = y.re] = y
    BY DEF Controls
  <1>2. [y EXCEPT !.lat = y.lat] = y
    BY DEF Controls
  <1>3. [y EXCEPT !.start = y.start] = y
    BY DEF Controls
  <1>4. ASSUME NEW k \in Registers PROVE [y EXCEPT !.prm[k] = y.prm[k]] = y
    <2>1. [y.prm EXCEPT ![k] = y.prm[k]] = y.prm
      BY DEF Controls, Params
    <2>2. [y EXCEPT !.prm = y.prm] = y
      BY DEF Controls
    <2> QED
      BY <2>1, <2>2
  <1> QED
    BY <1>1, <1>2, <1>3, <1>4

\* A write of the channel register.
LEMMA PutChan ==
    ASSUME NEW x \in Controls, NEW v, NEW y, y = Put(x, W("chan", v)), y \in Controls
    PROVE  /\ y.chan = v /\ y.prm = x.prm /\ y.we = x.we /\ y.re = x.re
           /\ (y.lat <=> x.lat) /\ (y.start <=> x.start)
           /\ y = [x EXCEPT !.chan = y.chan] /\ Put(y, W("chan", v)) = y
           /\ x.chan = v => y = x
  <1>1. y = [x EXCEPT !.chan = v]
    BY PutCases
  <1>2. y.chan = v /\ y.prm = x.prm /\ y.we = x.we /\ y.re = x.re
    BY <1>1 DEF Controls
  <1>3. y.lat = x.lat /\ y.start = x.start
    BY <1>1 DEF Controls
  <1>4. Put(y, W("chan", v)) = y
    <2>1. Put(y, W("chan", v)) = [y EXCEPT !.chan = v]
      BY PutCases
    <2> QED
      BY <1>2, <2>1, SameValue
  <1>5. x.chan = v => y = x
    BY <1>1, SameValue
  <1> QED
    BY <1>1, <1>2, <1>3, <1>4, <1>5

\* A write of a parameter register.
LEMMA PutParam ==
    ASSUME NEW x \in Controls, NEW k \in Registers, NEW v, NEW y, y = Put(x, W(k, v)), y \in Controls
    PROVE  /\ y.chan = x.chan /\ y.we = x.we /\ y.re = x.re
           /\ y.prm[k] = v /\ \A j \in Registers : j # k => y.prm[j] = x.prm[j]
           /\ (y.lat <=> x.lat) /\ (y.start <=> x.start)
           /\ Put(y, W(k, v)) = y
  <1>1. y = [x EXCEPT !.prm[k] = v]
    BY PutCases
  <1>2. /\ y.chan = x.chan /\ y.we = x.we /\ y.re = x.re /\ y.prm = [x.prm EXCEPT ![k] = v]
    BY <1>1 DEF Controls
  <1>3. y.lat = x.lat /\ y.start = x.start
    BY <1>1 DEF Controls
  <1>4. y.prm[k] = v /\ \A j \in Registers : j # k => y.prm[j] = x.prm[j]
    BY <1>2 DEF Controls, Params
  <1>5. Put(y, W(k, v)) = y
    <2>1. Put(y, W(k, v)) = [y EXCEPT !.prm[k] = v]
      BY RegisterFacts DEF Put, W, Registers
    <2> QED
      BY <1>4, <2>1, SameValue
  <1> QED
    BY <1>2, <1>3, <1>4, <1>5

\* A write of an enable register, of the latency bit or of the start bit.
LEMMA PutFlag ==
    ASSUME NEW x \in Controls, NEW v, NEW y \in Controls
    PROVE  /\ y = Put(x, W("we", v)) =>
                 /\ y.we = v /\ y.re = x.re /\ y.chan = x.chan /\ y.prm = x.prm
                 /\ (y.lat <=> x.lat) /\ (y.start <=> x.start) /\ Put(y, W("we", v)) = y
           /\ y = Put(x, W("re", v)) =>
                 /\ y.re = v /\ y.we = x.we /\ y.chan = x.chan /\ y.prm = x.prm
                 /\ (y.lat <=> x.lat) /\ (y.start <=> x.start) /\ Put(y, W("re", v)) = y
           /\ y = Put(x, W("lat", v)) =>
                 /\ y.lat = v /\ y.we = x.we /\ y.re = x.re /\ y.chan = x.chan /\ y.prm = x.prm
                 /\ (y.start <=> x.start) /\ Put(y, W("lat", v)) = y
           /\ y = Put(x, W("start", v)) =>
                 /\ y.start = v /\ y.we = x.we /\ y.re = x.re /\ y.chan = x.chan /\ y.prm = x.prm
                 /\ (y.lat <=> x.lat) /\ Put(y, W("start", v)) = y /\ Word(y) = Word(x)
  <1>1. ASSUME y = Put(x, W("we", v))
        PROVE  /\ y.we = v /\ y.re = x.re /\ y.chan = x.chan /\ y.prm = x.prm
               /\ (y.lat <=> x.lat) /\ (y.start <=> x.start) /\ Put(y, W("we", v)) = y
    <2>1. y = [x EXCEPT !.we = v] /\ Put(y, W("we", v)) = [y EXCEPT !.we = v]
      BY <1>1, PutCases
    <2>2. y.we = v /\ y.re = x.re /\ y.chan = x.chan /\ y.prm = x.prm
      BY <2>1 DEF Controls
    <2>3. y.lat = x.lat /\ y.start = x.start
      BY <2>1 DEF Controls
    <2> QED
      BY <2>1, <2>2, <2>3, SameValue
  <1>2. ASSUME y = Put(x, W("re", v))
        PROVE  /\ y.re = v /\ y.we = x.we /\ y.chan = x.chan /\ y.prm = x.prm
               /\ (y.lat <=> x.lat) /\ (y.start <=> x.start) /\ Put(y, W("re", v)) = y
    <2>1. y = [x EXCEPT !.re = v] /\ Put(y, W("re", v)) = [y EXCEPT !.re = v]
      BY <1>2, PutCases
    <2>2. y.re = v /\ y.we = x.we /\ y.chan = x.chan /\ y.prm = x.prm
      BY <2>1 DEF Controls
    <2>3. y.lat = x.lat /\ y.start = x.start
      BY <2>1 DEF Controls
    <2> QED
      BY <2>1, <2>2, <2>3, SameValue
  <1>3. ASSUME y = Put(x, W("lat", v))
        PROVE  /\ y.lat = v /\ y.we = x.we /\ y.re = x.re /\ y.chan = x.chan /\ y.prm = x.prm
               /\ (y.start <=> x.start) /\ Put(y, W("lat", v)) = y
    <2>1. y = [x EXCEPT !.lat = v] /\ Put(y, W("lat", v)) = [y EXCEPT !.lat = v]
      BY <1>3, PutCases
    <2>2. y.re = x.re /\ y.we = x.we /\ y.chan = x.chan /\ y.prm = x.prm
      BY <2>1 DEF Controls
    <2>3. y.lat = v /\ y.start = x.start
      BY <2>1 DEF Controls
    <2> QED
      BY <2>1, <2>2, <2>3, SameValue
  <1>4. ASSUME y = Put(x, W("start", v))
        PROVE  /\ y.start = v /\ y.we = x.we /\ y.re = x.re /\ y.chan = x.chan /\ y.prm = x.prm
               /\ (y.lat <=> x.lat) /\ Put(y, W("start", v)) = y /\ Word(y) = Word(x)
    <2>1. y = [x EXCEPT !.start = v] /\ Put(y, W("start", v)) = [y EXCEPT !.start = v]
      BY <1>4, PutCases
    <2>2. y.re = x.re /\ y.we = x.we /\ y.chan = x.chan /\ y.prm = x.prm
      BY <2>1 DEF Controls
    <2>3. y.start = v /\ y.lat = x.lat
      BY <2>1 DEF Controls
    <2>4. Put(y, W("start", v)) = y
      BY <2>1, <2>3, SameValue
    <2> QED
      BY <2>2, <2>3, <2>4 DEF Word
  <1> QED
    BY <1>1, <1>2, <1>3, <1>4

\* The parameters written so far stay when the next one is written.
LEMMA ParamStep ==
    ASSUME NEW x \in Controls, NEW c \in Channels, NEW n \in 2 .. L + 1, ParamsTo(x, c, n - 2),
           NEW y \in Controls, y = Put(x, W(ParamRegs[n - 1], <<run, c>>))
    PROVE  ParamsTo(y, c, n - 1)
  <1>0. L \in Nat /\ n - 1 \in 1 .. L /\ ParamRegs[n - 1] \in Registers
    BY RegisterFacts
  <1>1. /\ y.prm[ParamRegs[n - 1]] = <<run, c>>
        /\ \A j \in Registers : j # ParamRegs[n - 1] => y.prm[j] = x.prm[j]
    BY <1>0, PutParam
  <1>2. ASSUME NEW j \in 1 .. L, j <= n - 1 PROVE y.prm[ParamRegs[j]] = <<run, c>>
    <2>1. ParamRegs[j] \in Registers
      BY RegisterFacts
    <2>2. CASE ParamRegs[j] = ParamRegs[n - 1]
      BY <1>1, <2>2
    <2>3. CASE ParamRegs[j] # ParamRegs[n - 1]
      <3>1. j <= n - 2
        <4>1. j # n - 1
          BY <2>3
        <4> QED
          BY <1>2, <4>1, <1>0
      <3>2. x.prm[ParamRegs[j]] = <<run, c>>
        BY <3>1 DEF ParamsTo
      <3> QED
        BY <1>1, <2>1, <2>3, <3>2
    <2> QED
      BY <2>2, <2>3
  <1> QED
    BY <1>2 DEF ParamsTo

\* A write takes the registers from what the program expects before it to what it
\* expects after it, and changes one register.
LEMMA PutExpect ==
    ASSUME HostType, Running, Access.op = "write",
           NEW x \in Controls, Expect(x, pc, pc.step), NEW y, y = Put(x, Access)
    PROVE  /\ y \in Controls /\ Expect(y, pc, pc.step + 1) /\ OneChange(x, y)
           /\ Put(y, Access) = y
           /\ pc.fn = "poll" => y = x
           /\ Late => y.we = x.we /\ y.re = x.re
           /\ pc.fn = "run" /\ pc.step \in {L + 5, L + 6} =>
                 y.chan = x.chan /\ Word(y) = Word(x) /\ y.we = x.we /\ y.re = x.re
  <1>0. /\ pc \in Places /\ pc.step \in 1 .. Len(Calls) /\ pc.step \in Nat /\ L \in Nat
        /\ pc.chan \in Channels /\ pc.fn \in {"config", "run", "poll", "sums"}
        /\ Job.latch \in Channels /\ Job.lat \in BOOLEAN
    BY RegisterFacts, JobFacts DEF HostType, Places
  <1>1. y \in Controls
    BY PutType
  <1>2. ASSUME NEW c \in Channels, Access = W("chan", c)
        PROVE  /\ y.chan = c /\ y.prm = x.prm /\ y.we = x.we /\ y.re = x.re
               /\ (y.lat <=> x.lat) /\ (y.start <=> x.start)
               /\ OneChange(x, y) /\ Put(y, Access) = y /\ (x.chan = c => y = x)
    BY <1>1, <1>2, PutChan DEF OneChange
  <1>3. ASSUME NEW c \in Channels, pc.step \in 2 .. L + 1, ParamsTo(x, c, pc.step - 2),
               Access = W(ParamRegs[pc.step - 1], <<run, c>>)
        PROVE  /\ y.chan = x.chan /\ y.we = x.we /\ y.re = x.re
               /\ (y.lat <=> x.lat) /\ (y.start <=> x.start)
               /\ OneChange(x, y) /\ Put(y, Access) = y
               /\ ParamsTo(y, c, pc.step - 1)
    <2>1. pc.step - 1 \in 1 .. L
      BY <1>0, <1>3
    <2>2. ParamRegs[pc.step - 1] \in Registers
      BY <2>1, RegisterFacts
    <2>3. ParamsTo(y, c, pc.step - 1)
      BY <1>1, <1>3, ParamStep
    <2> QED
      BY <1>1, <1>3, <2>2, <2>3, PutParam DEF OneChange
  <1>p. ASSUME y.prm = x.prm, pc.step >= L + 2, NEW c, ParamsTo(x, c, pc.step - 2)
        PROVE  ParamsTo(y, c, (pc.step + 1) - 2)
    <2>1. ASSUME NEW j \in 1 .. L PROVE j <= pc.step - 2
      BY <1>0, <1>p
    <2>2. \A j \in 1 .. L : x.prm[ParamRegs[j]] = <<run, c>>
      BY <1>p, <2>1 DEF ParamsTo
    <2> QED
      BY <1>p, <2>2 DEF ParamsTo
  <1>4. CASE pc.fn = "config" /\ pc.step = 1 /\ Access = W("chan", pc.chan)
    <2>1. Expect(y, pc, pc.step + 1)
      BY <1>0, <1>2, <1>4 DEF Expect, ParamsTo
    <2> QED
      BY <1>0, <1>1, <1>2, <1>4, <2>1 DEF Late
  <1>5. CASE /\ pc.fn = "config" /\ pc.step \in 2 .. L + 1
             /\ Access = W(ParamRegs[pc.step - 1], <<run, pc.chan>>)
    <2>1. ParamsTo(x, pc.chan, pc.step - 2) /\ x.chan = pc.chan /\ ~x.start
      BY <1>0, <1>5 DEF Expect
    <2>2. (pc.step + 1) - 2 = pc.step - 1
      BY <1>0
    <2>n. /\ pc.step + 1 # 1 /\ ~(pc.step + 1 > L + 2) /\ pc.fn = "config"
      BY <1>0, <1>5
    <2>y. y.chan = pc.chan /\ ~y.start /\ ParamsTo(y, pc.chan, (pc.step + 1) - 2)
      BY <1>0, <1>3, <1>5, <2>1, <2>2
    <2>3. Expect(y, pc, pc.step + 1)
      BY <2>n, <2>y DEF Expect
    <2> QED
      BY <1>0, <1>1, <1>3, <1>5, <2>1, <2>3 DEF Late
  <1>6. CASE pc.fn = "config" /\ pc.step = L + 2 /\ Access = W("lat", FALSE)
    <2>1. /\ y.lat = FALSE /\ y.we = x.we /\ y.re = x.re /\ y.chan = x.chan /\ y.prm = x.prm
          /\ (y.start <=> x.start) /\ Put(y, Access) = y
      BY <1>1, <1>6, PutFlag
    <2>p. ParamsTo(y, pc.chan, (pc.step + 1) - 2)
      <3>1. ParamsTo(x, pc.chan, pc.step - 2) /\ pc.step >= L + 2
        BY <1>0, <1>6 DEF Expect
      <3>2. y.prm = x.prm
        BY <2>1
      <3> QED
        BY <1>p, <3>1, <3>2
    <2>q. ~y.lat /\ y.chan = x.chan /\ (y.start <=> x.start)
      BY <2>1
    <2>r. pc.fn = "config" /\ pc.step = L + 2
      BY <1>6
    <2>2. Expect(y, pc, pc.step + 1)
      BY <1>0, <2>p, <2>q, <2>r DEF Expect
    <2> QED
      BY <1>1, <1>6, <2>1, <2>2 DEF Late, OneChange
  <1>7. CASE pc.fn = "run" /\ pc.step = 1 /\ Access = W("chan", Job.latch)
    <2>1. Expect(y, pc, pc.step + 1)
      BY <1>0, <1>2, <1>7 DEF Expect, ParamsTo
    <2> QED
      BY <1>0, <1>1, <1>2, <1>7, <2>1 DEF Late
  <1>8. CASE /\ pc.fn = "run" /\ pc.step \in 2 .. L + 1
             /\ Access = W(ParamRegs[pc.step - 1], <<run, Job.latch>>)
    <2>1. ParamsTo(x, Job.latch, pc.step - 2) /\ x.chan = Job.latch /\ ~x.start
      BY <1>0, <1>8 DEF Expect
    <2>2. (pc.step + 1) - 2 = pc.step - 1
      BY <1>0
    <2>n. /\ pc.step + 1 # 1 /\ ~(pc.step + 1 > L + 2) /\ pc.step + 1 # L + 6
          /\ ~(pc.step + 1 > L + 3) /\ ~(pc.step + 1 > L + 4) /\ pc.fn = "run"
      BY <1>0, <1>8
    <2>y. y.chan = Job.latch /\ ~y.start /\ ParamsTo(y, Job.latch, (pc.step + 1) - 2)
      BY <1>0, <1>3, <1>8, <2>1, <2>2
    <2>3. Expect(y, pc, pc.step + 1)
      BY <2>n, <2>y DEF Expect
    <2> QED
      BY <1>0, <1>1, <1>3, <1>8, <2>1, <2>3 DEF Late
  <1>9. CASE pc.fn = "run" /\ pc.step = L + 2 /\ Access = W("we", Job.we)
    <2>1. /\ y.we = Job.we /\ y.re = x.re /\ y.chan = x.chan /\ y.prm = x.prm
          /\ (y.lat <=> x.lat) /\ (y.start <=> x.start) /\ Put(y, Access) = y
      BY <1>1, <1>9, PutFlag
    <2>p. ParamsTo(y, Job.latch, (pc.step + 1) - 2)
      BY <1>0, <1>p, <1>9, <2>1 DEF Expect
    <2>2. Expect(y, pc, pc.step + 1)
      BY <1>0, <1>9, <2>1, <2>p DEF Expect
    <2> QED
      BY <1>0, <1>1, <1>9, <2>1, <2>2 DEF Late, OneChange
  <1>10. CASE pc.fn = "run" /\ pc.step = L + 3 /\ Access = W("re", Job.re)
    <2>1. /\ y.re = Job.re /\ y.we = x.we /\ y.chan = x.chan /\ y.prm = x.prm
          /\ (y.lat <=> x.lat) /\ (y.start <=> x.start) /\ Put(y, Access) = y
      BY <1>1, <1>10, PutFlag
    <2>p. ParamsTo(y, Job.latch, (pc.step + 1) - 2)
      BY <1>0, <1>p, <1>10, <2>1 DEF Expect
    <2>2. Expect(y, pc, pc.step + 1)
      BY <1>0, <1>10, <2>1, <2>p DEF Expect
    <2> QED
      BY <1>0, <1>1, <1>10, <2>1, <2>2 DEF Late, OneChange
  <1>11. CASE pc.fn = "run" /\ pc.step = L + 4 /\ Access = W("lat", Job.lat)
    <2>1. /\ y.lat = Job.lat /\ y.we = x.we /\ y.re = x.re /\ y.chan = x.chan /\ y.prm = x.prm
          /\ (y.start <=> x.start) /\ Put(y, Access) = y
      BY <1>1, <1>11, PutFlag
    <2>p. ParamsTo(y, Job.latch, (pc.step + 1) - 2)
      BY <1>0, <1>p, <1>11, <2>1 DEF Expect
    <2>2. Expect(y, pc, pc.step + 1)
      BY <1>0, <1>11, <2>1, <2>p DEF Expect
    <2> QED
      BY <1>0, <1>1, <1>11, <2>1, <2>2 DEF Late, OneChange
  <1>12. CASE pc.fn = "run" /\ pc.step = L + 5 /\ Access = W("start", TRUE)
    <2>1. /\ y.start = TRUE /\ y.we = x.we /\ y.re = x.re /\ y.chan = x.chan /\ y.prm = x.prm
          /\ (y.lat <=> x.lat) /\ Put(y, Access) = y /\ Word(y) = Word(x)
      <3>1. PICK b \in BOOLEAN : b = TRUE
        BY Zenon
      <3>2. Access = W("start", b) /\ y = Put(x, W("start", b))
        BY <1>12, <3>1
      <3>3. /\ y.start = b /\ y.we = x.we /\ y.re = x.re /\ y.chan = x.chan /\ y.prm = x.prm
            /\ (y.lat <=> x.lat) /\ Put(y, W("start", b)) = y /\ Word(y) = Word(x)
        BY <1>1, <3>2, PutFlag
      <3> QED
        BY <3>1, <3>2, <3>3
    <2>p. ParamsTo(y, Job.latch, (pc.step + 1) - 2)
      <3>1. ParamsTo(x, Job.latch, pc.step - 2) /\ pc.step >= L + 2
        BY <1>0, <1>12 DEF Expect
      <3>2. y.prm = x.prm
        BY <2>1
      <3> QED
        BY <1>p, <3>1, <3>2
    <2>q. /\ y.start /\ y.we = x.we /\ y.re = x.re /\ y.chan = x.chan
          /\ (y.lat <=> x.lat)
      BY <2>1
    <2>r. pc.fn = "run" /\ pc.step = L + 5
      BY <1>12
    <2>2. Expect(y, pc, pc.step + 1)
      BY <1>0, <2>p, <2>q, <2>r DEF Expect
    <2> QED
      BY <1>0, <1>1, <1>12, <2>1, <2>2 DEF Late, OneChange
  <1>13. CASE pc.fn = "run" /\ pc.step = L + 6 /\ Access = W("start", FALSE)
    <2>1. /\ y.start = FALSE /\ y.we = x.we /\ y.re = x.re /\ y.chan = x.chan /\ y.prm = x.prm
          /\ (y.lat <=> x.lat) /\ Put(y, Access) = y /\ Word(y) = Word(x)
      BY <1>1, <1>13, PutFlag
    <2>p. ParamsTo(y, Job.latch, (pc.step + 1) - 2)
      <3>1. ParamsTo(x, Job.latch, pc.step - 2) /\ pc.step >= L + 2
        BY <1>0, <1>13 DEF Expect
      <3>2. y.prm = x.prm
        BY <2>1
      <3> QED
        BY <1>p, <3>1, <3>2
    <2>q. /\ ~y.start /\ y.we = x.we /\ y.re = x.re /\ y.chan = x.chan
          /\ (y.lat <=> x.lat)
      BY <2>1
    <2>r. pc.fn = "run" /\ pc.step = L + 6
      BY <1>13
    <2>2. Expect(y, pc, pc.step + 1)
      BY <1>0, <2>p, <2>q, <2>r DEF Expect
    <2> QED
      BY <1>0, <1>1, <1>13, <2>1, <2>2 DEF Late, OneChange
  <1>14. CASE pc.fn = "poll" /\ pc.step = 1 /\ Access = W("chan", Job.latch)
    <2>1. x.chan = Job.latch /\ Enables(x) /\ ~x.start
      BY <1>0, <1>14 DEF Expect
    <2>2. y = x /\ OneChange(x, y) /\ Put(y, Access) = y
      BY <1>0, <1>2, <1>14, <2>1
    <2>3. Expect(y, pc, pc.step + 1)
      BY <1>0, <1>14, <2>1, <2>2 DEF Expect
    <2> QED
      BY <1>1, <1>14, <2>2, <2>3
  <1>15. CASE pc.fn = "sums" /\ pc.step = 1 /\ Access = W("chan", pc.chan)
    <2>1. Expect(y, pc, pc.step + 1)
      BY <1>0, <1>2, <1>15 DEF Expect, Enables
    <2> QED
      BY <1>0, <1>1, <1>2, <1>15, <2>1
  <1> QED
    BY <1>0, <1>4, <1>5, <1>6, <1>7, <1>8, <1>9, <1>10, <1>11, <1>12, <1>13, <1>14, <1>15, WriteCases

\* The registers carry what the program expects from one place to the next.
LEMMA ProceedExpect ==
    ASSUME HostType, Running, Proceed, NEW x \in Controls,
           \/ Access.op = "write" /\ Expect(x, pc, pc.step + 1)
           \/ Access.op = "read" /\ Expect(x, pc, pc.step)
    PROVE  Expect(x, pc, pc.step)'
  <1>0. /\ pc \in Places /\ pc.step \in 1 .. Len(Calls) /\ pc.step \in Nat /\ L \in Nat
        /\ pc.chan \in 0 .. NumChannels - 1 /\ pc.fn \in {"config", "run", "poll", "sums"}
        /\ NumChannels \in Nat
    BY RegisterFacts, Numbers DEF HostType, Places, Channels
  <1>j. board' = board /\ (run' = run => Job' = Job)
    BY ProceedCases DEF Job
  <1>1. CASE /\ pc.step < Len(Calls) /\ pc' = [pc EXCEPT !.step = @ + 1]
             /\ run' = run /\ begun' = begun
    <2>1. /\ pc'.step = pc.step + 1 /\ pc'.fn = pc.fn /\ pc'.chan = pc.chan
      BY <1>0, <1>1 DEF Places
    <2>2. CASE Access.op = "write" /\ Expect(x, pc, pc.step + 1)
      BY <1>0, <1>j, <1>1, <2>1, <2>2 DEF Expect, Configured, Enables, ParamsTo
    <2>3. CASE Access.op = "read" /\ Expect(x, pc, pc.step)
      <3>1. pc.fn = "poll" \/ (pc.fn = "sums" /\ pc.step = 2)
        BY <1>0, <2>3, AccessKinds
      <3>2. pc.fn = "poll"
        BY <1>0, <1>1, <3>1, AccessFacts
      <3> QED
        BY <1>0, <1>j, <1>1, <2>1, <2>3, <3>2 DEF Expect, Enables
    <2> QED
      BY <2>2, <2>3
  <1>2. CASE /\ pc.step = Len(Calls) /\ run' = run
             /\ pc.fn = "config" /\ pc.chan < NumChannels - 1
             /\ pc' = At("config", pc.chan + 1, "wr")
    <2>1. Expect(x, pc, pc.step + 1) /\ pc.step = L + 2
      BY <1>0, <1>2, AccessKinds, AccessFacts
    <2>2. pc'.fn = "config" /\ pc'.step = 1 /\ pc'.chan = pc.chan + 1 /\ pc'.chan - 1 = pc.chan
      BY <1>0, <1>2 DEF At
    <2>3. Configured(x, pc.chan) /\ ~x.start
      BY <1>0, <1>2, <2>1 DEF Expect, Configured, ParamsTo
    <2>4. Configured(x, pc.chan - 1)'
      BY <1>2, <2>2, <2>3 DEF Configured, ParamsTo
    <2> QED
      BY <1>0, <1>2, <2>2, <2>3, <2>4 DEF Expect
  <1>3. CASE /\ pc.step = Len(Calls) /\ run' = run
             /\ pc.fn = "config" /\ pc.chan = NumChannels - 1 /\ pc' = At("run", 0, "wr")
    <2>1. Expect(x, pc, pc.step + 1) /\ pc.step = L + 2
      BY <1>0, <1>3, AccessKinds, AccessFacts
    <2>2. pc'.fn = "run" /\ pc'.step = 1
      BY <1>3 DEF At
    <2>3. Configured(x, NumChannels - 1) /\ ~x.start
      BY <1>0, <1>3, <2>1 DEF Expect, Configured, ParamsTo
    <2>4. Configured(x, NumChannels - 1)'
      BY <1>3, <2>3 DEF Configured, ParamsTo
    <2> QED
      BY <1>0, <2>2, <2>3, <2>4 DEF Expect
  <1>4. CASE pc.step = Len(Calls) /\ run' = run /\ pc.fn = "run" /\ pc' = At("poll", 0, "wr")
    <2>1. Expect(x, pc, pc.step + 1) /\ pc.step = L + 6
      BY <1>0, <1>4, AccessKinds, AccessFacts
    <2>2. pc'.fn = "poll" /\ pc'.step = 1
      BY <1>4 DEF At
    <2>3. x.chan = Job.latch /\ Enables(x) /\ ~x.start
      BY <1>0, <1>4, <2>1 DEF Expect, Enables
    <2> QED
      BY <1>j, <1>4, <2>2, <2>3 DEF Expect, Enables
  <1>5. ASSUME pc.step = Len(Calls), pc.fn \in {"poll", "sums"}
        PROVE  Enables(x) /\ ~x.start
    <2>0. pc.step # 1
      <3>1. (pc.fn = "poll" => Len(Calls) = 3) /\ (pc.fn = "sums" => Len(Calls) = 2)
        BY <1>0, CallLengths DEF LengthOK
      <3>2. Len(Calls) = 3 \/ Len(Calls) = 2
        BY <1>5, <3>1
      <3>3. pc.step = 3 \/ pc.step = 2
        BY <1>5, <3>2
      <3>4. 3 # 1 /\ 2 # 1
        OBVIOUS
      <3> QED
        BY <3>3, <3>4
    <2>1. Access.op = "read" /\ Expect(x, pc, pc.step)
      BY <1>0, <1>5, <2>0, AccessKinds
    <2> QED
      BY <1>5, <2>1 DEF Expect
  <1>6. CASE /\ pc.step = Len(Calls) /\ run' = run /\ pc.fn \in {"poll", "sums"}
             /\ \E c \in Channels, s \in Sides : c \in Enabled(s) /\ pc' = At("sums", c, s)
    <2>1. pc'.fn = "sums" /\ pc'.step = 1
      BY <1>6 DEF At
    <2> QED
      BY <1>j, <1>5, <1>6, <2>1 DEF Expect, Enables
  <1>7. CASE pc.step = Len(Calls) /\ pc.fn \in {"poll", "sums"} /\ pc' = Start /\ run' = run + 1
    <2>1. pc'.fn = "config" /\ pc'.step = 1 /\ pc'.chan = 0
      BY <1>7 DEF Start, At
    <2> QED
      BY <1>0, <1>5, <1>7, <2>1 DEF Expect
  <1> QED
    BY <1>1, <1>2, <1>3, <1>4, <1>6, <1>7, ProceedCases

\* The control registers on a bus edge: they stay, or take a write that found the
\* one before it settled.
LEMMA BusRegisters ==
    ASSUME TypeInv, PhaseInv, WriteInv, NEW go \in BOOLEAN, BusTick(go)
    PROVE  /\ out' = dma.ctl /\ out_prev' = out
           /\ dma.ctl \in Controls /\ dma.ctl' \in Controls
           /\ \/ dma.ctl' = dma.ctl
              \/ /\ w_cstate = "WBRSP" /\ Access.op = "write" /\ Still /\ Expect(dma.ctl, pc, pc.step)
                 /\ dma.ctl' = Put(dma.ctl, Access)
           /\ w_cstate = "WBRSP" => Expect(dma.ctl', pc, pc.step + 1)
           /\ w_cstate # "WBRSP" => dma.ctl' = dma.ctl
           /\ w_cstate = "WBRSP" => dma.ctl' = Put(dma.ctl', Access)
           /\ w_cstate = "WBRSP" /\ pc.fn = "poll" => dma.ctl' = dma.ctl
  <1>0. dma \in Files /\ dma' \in Files /\ HostType /\ Running
    BY BusTickBusType DEF TypeInv, BusType, BusTick
  <1>1. out' = dma.ctl /\ out_prev' = out /\ dma.ctl \in Controls /\ dma.ctl' \in Controls
    BY <1>0 DEF BusTick, OutputRegisters, Files
  <1>2. ASSUME w_cstate # "WBRSP" PROVE dma.ctl' = dma.ctl
    <2>1. dma' = [dma EXCEPT !.end_wr = end_o["wr"], !.end_rd = end_o["rd"],
                             !.sum_wr = eng[out.chan]["wr"].sum,
                             !.sum_rd = eng[out.chan]["rd"].sum]
      BY <1>2 DEF BusTick, RegisterFile
    <2> QED
      BY <1>0, <2>1 DEF Files
  <1>3. ASSUME w_cstate = "WBRSP" PROVE dma.ctl' = Put(dma.ctl, Access) /\ Access.op = "write"
    <2>1. dma' = [dma EXCEPT !.ctl = Put(dma.ctl, Access)]
      BY <1>3 DEF BusTick, RegisterFile
    <2> QED
      BY <1>0, <1>3, <2>1 DEF Files, PhaseInv
  <1>4. CASE w_cstate # "WBRSP"
    BY <1>1, <1>2, <1>4
  <1>5. CASE w_cstate = "WBRSP" /\ Still /\ Expect(dma.ctl, pc, pc.step)
    <2>1. /\ Expect(dma.ctl', pc, pc.step + 1) /\ Put(dma.ctl', Access) = dma.ctl'
          /\ pc.fn = "poll" => dma.ctl' = dma.ctl
      BY <1>0, <1>1, <1>3, <1>5, PutExpect
    <2> QED
      BY <1>1, <1>3, <1>5, <2>1
  <1>6. CASE /\ w_cstate = "WBRSP" /\ dma.ctl = Put(dma.ctl, Access)
             /\ Expect(dma.ctl, pc, pc.step + 1)
    BY <1>1, <1>3, <1>6
  <1> QED
    BY <1>4, <1>5, <1>6 DEF WriteInv

\* A bus edge keeps the program and the registers in step.
LEMMA BusTickWrite ==
    ASSUME TypeInv, PhaseInv, WriteInv, NEW go \in BOOLEAN, BusTick(go)
    PROVE  WriteInv'
  <1>0. /\ HostType /\ Running /\ pc \in Places /\ pc.step \in 1 .. Len(Calls)
        /\ w_cstate \in {"WIDLE", "WDATA", "WBRSP"}
    BY DEF TypeInv, HostType, BusType, BusTick
  <1>1. /\ out' = dma.ctl /\ out_prev' = out /\ dma.ctl' \in Controls
        /\ w_cstate # "WBRSP" => dma.ctl' = dma.ctl
    BY BusRegisters
  <1>2. OneChange(out, dma.ctl)' /\ OneChange(out_prev, out)'
    <2>1. OneChange(out_prev, out)'
      BY <1>1 DEF WriteInv, OneChange
    <2>2. CASE dma.ctl' = dma.ctl
      BY <1>1, <2>1, <2>2 DEF OneChange
    <2>3. CASE /\ Access.op = "write" /\ Still /\ Expect(dma.ctl, pc, pc.step)
               /\ dma.ctl' = Put(dma.ctl, Access)
      <3>1. OneChange(dma.ctl, dma.ctl')
        BY <1>0, <2>3, PutExpect, BusRegisters
      <3> QED
        BY <1>1, <2>1, <3>1 DEF OneChange
    <2> QED
      BY <2>2, <2>3, BusRegisters
  <1>3. (dma.ctl = out \/ out = out_prev)'
    BY <1>1, BusRegisters DEF Still
  <1>4. CASE w_cstate = "WIDLE" \/ w_cstate = "WDATA"
    <2>1. dma.ctl' = dma.ctl /\ (dma.ctl = out)'
      BY <1>1, <1>4
    <2>2. Expect(dma.ctl, pc, pc.step)'
      <3>1. Expect(dma.ctl, pc, pc.step)
        BY <1>4 DEF WriteInv
      <3>2. CASE UNCHANGED <<board, run, pc>>
        <4>1. Job' = Job
          BY <3>2, SameAccess
        <4> QED
          BY <2>1, <3>1, <3>2, <4>1 DEF Expect, Configured, ParamsTo, Enables
      <3>3. CASE r_cstate = "RDATA" /\ Proceed
        <4>1. Access.op = "read"
          BY <3>3 DEF PhaseInv
        <4> QED
          BY <1>0, <1>1, <2>1, <3>1, <3>3, <4>1, ProceedExpect
      <3>4. CASE /\ pc.fn = "poll" /\ pc.step = 3 /\ pc' = [pc EXCEPT !.step = 2]
                 /\ UNCHANGED <<board, run>>
        <4>1. pc'.fn = "poll" /\ pc'.step = 2 /\ Job' = Job
          BY <1>0, <3>4 DEF Places, Job
        <4> QED
          BY <2>1, <3>1, <3>4, <4>1 DEF Expect, Enables
      <3> QED
        BY <1>4, <3>2, <3>3, <3>4, HostCases
    <2>3. ASSUME w_cstate' = "WBRSP" PROVE Still'
      <3>1. w_cstate = "WDATA"
        BY <1>4, <2>3 DEF BusTick, WriteFSM
      <3> QED
        BY <1>1, <2>1, <3>1 DEF WriteInv, Still
    <2> QED
      BY <1>2, <1>3, <2>1, <2>2, <2>3 DEF WriteInv
  <1>5. CASE w_cstate = "WBRSP" /\ ~go
    <2>1. w_cstate' = "WBRSP"
      BY <1>5 DEF BusTick, WriteFSM
    <2>2. UNCHANGED <<board, run, pc>> /\ Access' = Access /\ Job' = Job
      BY <1>5, HostCases, SameAccess
    <2>3. dma.ctl' = Put(dma.ctl', Access) /\ Expect(dma.ctl', pc, pc.step + 1)
      BY <1>5, BusRegisters
    <2>4. (dma.ctl = Put(dma.ctl, Access) /\ Expect(dma.ctl, pc, pc.step + 1))'
      BY <2>2, <2>3 DEF Expect, Configured, ParamsTo, Enables
    <2>5. ASSUME pc'.fn = "poll" PROVE Still'
      <3>1. Still /\ dma.ctl' = dma.ctl
        BY <1>5, <2>2, <2>5, BusRegisters DEF WriteInv
      <3> QED
        BY <1>1, <3>1 DEF Still
    <2> QED
      BY <1>2, <1>3, <2>1, <2>4, <2>5 DEF WriteInv
  <1>6. CASE w_cstate = "WBRSP" /\ go
    <2>1. w_cstate' = "WIDLE" /\ gap' = 0
      BY <1>6 DEF BusTick, WriteFSM
    <2>2. Proceed /\ Access.op = "write"
      BY <1>6, HostCases DEF PhaseInv
    <2>3. Expect(dma.ctl', pc, pc.step + 1)
      BY <1>6, BusRegisters
    <2>4. Expect(dma.ctl, pc, pc.step)'
      BY <1>0, <1>1, <2>2, <2>3, ProceedExpect
    <2> QED
      BY <1>2, <1>3, <2>1, <2>4 DEF WriteInv
  <1> QED
    BY <1>0, <1>4, <1>5, <1>6

\* All parameters of a channel are there when the last one is.
LEMMA ParamsAll ==
    ASSUME NEW x, NEW c, NEW n \in Nat, n >= L, ParamsTo(x, c, n)
    PROVE  AllParams(Word(x), c)
  <1>1. \A j \in 1 .. L : x.prm[ParamRegs[j]] = <<run, c>>
    BY RegisterFacts DEF ParamsTo
  <1>2. Word(x).prm = x.prm
    BY DEF Word
  <1> QED
    BY <1>1, <1>2, RegisterFacts DEF AllParams

\* The start bit is up from one write of it to the other.
LEMMA StartPlace ==
    ASSUME TypeInv, WriteInv
    PROVE  /\ dma.ctl.start => pc.fn = "run" /\ pc.step \in {L + 5, L + 6}
           /\ Late /\ pc.fn = "run" /\ w_cstate # "WBRSP" => dma.ctl.start
           /\ dma.ctl.start /\ ~Late => w_cstate = "WBRSP"
  <1>0. pc.step \in Nat /\ L \in Nat
    BY RegisterFacts DEF TypeInv, HostType, Places
  <1>1. ASSUME dma.ctl.start
        PROVE  /\ pc.fn = "run"
               /\ pc.step = L + 6 \/ (w_cstate = "WBRSP" /\ pc.step + 1 = L + 6)
    BY <1>1 DEF WriteInv, Expect
  <1>2. dma.ctl.start => pc.fn = "run" /\ pc.step \in {L + 5, L + 6}
    BY <1>0, <1>1
  <1>3. Late /\ pc.fn = "run" /\ w_cstate # "WBRSP" => dma.ctl.start
    BY DEF WriteInv, Expect, Late
  <1>4. dma.ctl.start /\ ~Late => w_cstate = "WBRSP"
    BY <1>1 DEF Late
  <1> QED
    BY <1>2, <1>3, <1>4

\* The write of the start bit: all that the engines need has been written.
LEMMA StartWrite ==
    ASSUME TypeInv, PhaseInv, WriteInv, NEW go \in BOOLEAN, BusTick(go),
           ~dma.ctl.start, dma.ctl'.start
    PROVE  /\ pc.fn = "run" /\ pc.step = L + 5 /\ Still
           /\ Enables(dma.ctl) /\ Core(dma.ctl)
           /\ Enables(dma.ctl') /\ Core(dma.ctl')
  <1>0. /\ HostType /\ Running /\ pc.step \in Nat /\ L \in Nat
        /\ dma.ctl \in Controls /\ Job.lat \in BOOLEAN
    BY RegisterFacts, BusRegisters, JobFacts DEF TypeInv, HostType, Places, BusTick
  <1>1. /\ w_cstate = "WBRSP" /\ Access.op = "write" /\ Still /\ Expect(dma.ctl, pc, pc.step)
        /\ dma.ctl' = Put(dma.ctl, Access) /\ Expect(dma.ctl', pc, pc.step + 1)
    BY BusRegisters
  <1>2. pc.fn = "run" /\ pc.step + 1 = L + 6
    BY <1>1 DEF Expect
  <1>3. pc.step = L + 5
    BY <1>0, <1>2
  <1>4. /\ Enables(dma.ctl) /\ dma.ctl.chan = Job.latch /\ (dma.ctl.lat <=> Job.lat)
        /\ ParamsTo(dma.ctl, Job.latch, pc.step - 2)
    BY <1>0, <1>1, <1>2, <1>3 DEF Expect, Enables
  <1>5. AllParams(Word(dma.ctl), Job.latch)
    <2>1. pc.step - 2 \in Nat /\ pc.step - 2 >= L
      BY <1>0, <1>3
    <2> QED
      BY <1>4, <2>1, ParamsAll
  <1>6. Word(dma.ctl).lat = dma.ctl.lat
    BY DEF Word
  <1>7. Core(dma.ctl)
    BY <1>4, <1>5, <1>6 DEF Core, Good
  <1>8. /\ dma.ctl'.chan = dma.ctl.chan /\ Word(dma.ctl') = Word(dma.ctl)
        /\ dma.ctl'.we = dma.ctl.we /\ dma.ctl'.re = dma.ctl.re
    BY <1>0, <1>1, <1>2, <1>3, PutExpect
  <1> QED
    BY <1>1, <1>2, <1>3, <1>4, <1>7, <1>8 DEF Core, Enables

(***************************************************************************)
(* The host's moves on a bus edge, by place.                                *)
(***************************************************************************)
WriteMove ==
    /\ w_cstate = "WBRSP" /\ w_cstate' = "WIDLE" /\ r_cstate' # "RDATA"
    /\ UNCHANGED <<run, begun, endWr>>
    /\ \/ /\ pc.fn = "config" /\ pc.step < L + 2
          /\ pc'.fn = "config" /\ pc'.chan = pc.chan /\ pc'.step = pc.step + 1
       \/ /\ pc.fn = "config" /\ pc.step = L + 2
          /\ pc'.fn = "config" /\ pc'.chan = pc.chan + 1 /\ pc'.step = 1
       \/ /\ pc.fn = "config" /\ pc.step = L + 2 /\ pc.chan = NumChannels - 1
          /\ pc'.fn = "run" /\ pc'.step = 1
       \/ pc.fn = "run" /\ pc.step < L + 6 /\ pc'.fn = "run" /\ pc'.step = pc.step + 1
       \/ pc.fn = "run" /\ pc.step = L + 6 /\ pc'.fn = "poll" /\ pc'.step = 1
       \/ pc.fn = "poll" /\ pc.step = 1 /\ pc'.fn = "poll" /\ pc'.step = 2
       \/ /\ pc.fn = "sums" /\ pc.step = 1
          /\ pc'.fn = "sums" /\ pc'.step = 2 /\ pc'.chan = pc.chan /\ pc'.side = pc.side

ReadMove ==
    /\ r_cstate = "RDATA" /\ r_cstate' = "RWAIT" /\ w_cstate = "WIDLE" /\ w_cstate' = "WIDLE"
    /\ UNCHANGED <<run, begun>>
    /\ \/ pc.fn = "poll" /\ pc.step = 2 /\ pc'.fn = "poll" /\ pc'.step = 3 /\ endWr' = dma.end_wr
       \/ pc.fn = "poll" /\ pc.step = 3 /\ pc'.fn = "poll" /\ pc'.step = 2 /\ endWr' = endWr
       \/ /\ pc.fn = "poll" /\ pc.step = 3 /\ PollSatisfied
          /\ pc'.fn = "sums" /\ pc'.step = 1 /\ pc'.chan \in Enabled(pc'.side)
       \/ /\ pc.fn = "sums" /\ pc.step = 2
          /\ pc'.fn = "sums" /\ pc'.step = 1 /\ pc'.chan \in Enabled(pc'.side)

LastMove ==
    /\ r_cstate = "RDATA" /\ r_cstate' = "RWAIT" /\ w_cstate = "WIDLE" /\ w_cstate' = "WIDLE"
    /\ pc' = Start /\ run' = run + 1
    /\ begun' = [c \in Channels |-> [s \in Sides |-> 0]]
    /\ (pc.fn = "poll" /\ pc.step = 3 /\ PollSatisfied) \/ (pc.fn = "sums" /\ pc.step = 2)

NoMove ==
    /\ UNCHANGED <<run, pc, endWr, begun>>
    /\ r_cstate = "RDATA" => r_cstate' = "RDATA"
    /\ r_cstate # "RDATA" /\ r_cstate' = "RDATA" => Access.op = "read" /\ gap = ReadGap
    /\ w_cstate = "WBRSP" => w_cstate' = "WBRSP"

\* One of these moves is what a bus edge makes of the host.
LEMMA HostMoves ==
    ASSUME TypeInv, PhaseInv, NEW go \in BOOLEAN, BusTick(go)
    PROVE  /\ board' = board /\ (run' = run => Job' = Job)
           /\ WriteMove \/ ReadMove \/ LastMove \/ NoMove
  <1>0. /\ HostType /\ Running /\ pc \in Places /\ pc.step \in 1 .. Len(Calls) /\ pc.step \in Nat
        /\ pc.fn \in {"config", "run", "poll", "sums"} /\ L \in Nat
        /\ r_cstate \in {"RIDLE", "RDATA", "RWAIT"}
    BY RegisterFacts DEF TypeInv, HostType, BusType, Places, BusTick
  <1>b. board' = board /\ (run' = run => Job' = Job)
    BY BusTickHostType DEF Job
  <1>1. CASE /\ ~(go /\ (w_cstate = "WBRSP" \/ r_cstate = "RDATA"))
             /\ UNCHANGED <<board, run, pc, endWr, report, begun>>
    <2>1. /\ r_cstate = "RDATA" => r_cstate' = "RDATA"
          /\ r_cstate # "RDATA" /\ r_cstate' = "RDATA" => Access.op = "read" /\ gap = ReadGap
          /\ w_cstate = "WBRSP" => w_cstate' = "WBRSP"
      BY <1>1 DEF BusTick, ReadFSM, WriteFSM
    <2> QED
      BY <1>b, <1>1, <2>1 DEF NoMove
  <1>c. Proceed => LET n == Len(Calls) IN
            \/ /\ pc.step < n /\ pc'.fn = pc.fn /\ pc'.chan = pc.chan /\ pc'.side = pc.side
               /\ pc'.step = pc.step + 1 /\ run' = run /\ begun' = begun
            \/ /\ pc.step = n /\ run' = run /\ begun' = begun /\ pc.fn = "config"
               /\ pc'.fn = "config" /\ pc'.chan = pc.chan + 1 /\ pc'.step = 1
            \/ /\ pc.step = n /\ run' = run /\ begun' = begun /\ pc.fn = "config"
               /\ pc.chan = NumChannels - 1 /\ pc'.fn = "run" /\ pc'.step = 1
            \/ /\ pc.step = n /\ run' = run /\ begun' = begun /\ pc.fn = "run"
               /\ pc'.fn = "poll" /\ pc'.step = 1
            \/ /\ pc.step = n /\ run' = run /\ begun' = begun /\ pc.fn \in {"poll", "sums"}
               /\ pc'.fn = "sums" /\ pc'.step = 1 /\ pc'.chan \in Enabled(pc'.side)
            \/ /\ pc.step = n /\ pc.fn \in {"poll", "sums"}
               /\ pc' = Start /\ run' = run + 1
               /\ begun' = [c \in Channels |-> [s \in Sides |-> 0]]
    <2> SUFFICES ASSUME Proceed
                 PROVE  LET n == Len(Calls) IN
            \/ /\ pc.step < n /\ pc'.fn = pc.fn /\ pc'.chan = pc.chan /\ pc'.side = pc.side
               /\ pc'.step = pc.step + 1 /\ run' = run /\ begun' = begun
            \/ /\ pc.step = n /\ run' = run /\ begun' = begun /\ pc.fn = "config"
               /\ pc'.fn = "config" /\ pc'.chan = pc.chan + 1 /\ pc'.step = 1
            \/ /\ pc.step = n /\ run' = run /\ begun' = begun /\ pc.fn = "config"
               /\ pc.chan = NumChannels - 1 /\ pc'.fn = "run" /\ pc'.step = 1
            \/ /\ pc.step = n /\ run' = run /\ begun' = begun /\ pc.fn = "run"
               /\ pc'.fn = "poll" /\ pc'.step = 1
            \/ /\ pc.step = n /\ run' = run /\ begun' = begun /\ pc.fn \in {"poll", "sums"}
               /\ pc'.fn = "sums" /\ pc'.step = 1 /\ pc'.chan \in Enabled(pc'.side)
            \/ /\ pc.step = n /\ pc.fn \in {"poll", "sums"}
               /\ pc' = Start /\ run' = run + 1
               /\ begun' = [c \in Channels |-> [s \in Sides |-> 0]]
      OBVIOUS
    <2>1. CASE pc' = [pc EXCEPT !.step = @ + 1]
      <3>1. pc'.fn = pc.fn /\ pc'.chan = pc.chan /\ pc'.side = pc.side /\ pc'.step = pc.step + 1
        BY <1>0, <2>1 DEF Places
      <3>2. pc' # At("config", pc.chan + 1, "wr") /\ pc'.step # 1
        BY <1>0, <3>1 DEF At
      <3> QED
        BY <1>0, <3>1, <3>2, ProceedCases DEF At, Start
    <2>2. CASE pc' # [pc EXCEPT !.step = @ + 1]
      BY <1>0, <2>2, ProceedCases DEF At
    <2> QED
      BY <2>1, <2>2
  <1>l. /\ pc.fn = "config" => Len(Calls) = L + 2
        /\ pc.fn = "run" => Len(Calls) = L + 6
        /\ pc.fn = "poll" => Len(Calls) = 3
        /\ pc.fn = "sums" => Len(Calls) = 2
    BY <1>0, CallLengths DEF LengthOK
  <1>2. CASE /\ go /\ w_cstate = "WBRSP" /\ r_cstate # "RDATA" /\ Access.op = "write"
             /\ Proceed /\ UNCHANGED <<endWr, report>>
    <2>1. w_cstate' = "WIDLE" /\ r_cstate' # "RDATA"
      BY <1>2 DEF BusTick, ReadFSM, WriteFSM
    <2>2. pc.fn \in {"poll", "sums"} => pc.step = 1
      BY <1>0, <1>2, AccessKinds
    <2>3. WriteMove
      <3>1. CASE pc.fn = "config"
        BY <1>2, <1>c, <1>l, <2>1, <3>1 DEF WriteMove
      <3>2. CASE pc.fn = "run"
        BY <1>2, <1>c, <1>l, <2>1, <3>2 DEF WriteMove
      <3>3. CASE pc.fn = "poll"
        BY <1>2, <1>c, <1>l, <2>1, <2>2, <3>3 DEF WriteMove
      <3>4. CASE pc.fn = "sums"
        <4>1. pc.step = 1 /\ Len(Calls) = 2
          BY <1>l, <2>2, <3>4
        <4>2. /\ pc'.fn = "sums" /\ pc'.step = 2 /\ pc'.chan = pc.chan /\ pc'.side = pc.side
              /\ run' = run /\ begun' = begun
          BY <1>2, <1>c, <3>4, <4>1
        <4> QED
          BY <1>2, <2>1, <3>4, <4>1, <4>2 DEF WriteMove
      <3> QED
        BY <1>0, <3>1, <3>2, <3>3, <3>4
    <2> QED
      BY <1>b, <2>3
  <1>3. ASSUME go, r_cstate = "RDATA", w_cstate = "WIDLE"
        PROVE  r_cstate' = "RWAIT" /\ w_cstate' = "WIDLE"
    <2>1. Access.op = "read"
      BY <1>3 DEF PhaseInv
    <2> QED
      BY <1>3, <2>1 DEF BusTick, ReadFSM, WriteFSM
  <1>4. CASE /\ go /\ r_cstate = "RDATA" /\ w_cstate = "WIDLE" /\ pc.fn = "poll" /\ pc.step = 2
             /\ endWr' = dma.end_wr /\ Proceed /\ UNCHANGED report
    <2>1. pc'.fn = "poll" /\ pc'.step = 3 /\ run' = run /\ begun' = begun
      BY <1>4, <1>c, <1>l
    <2> QED
      BY <1>b, <1>3, <1>4, <2>1 DEF ReadMove
  <1>5. CASE /\ go /\ r_cstate = "RDATA" /\ w_cstate = "WIDLE" /\ pc.fn = "poll" /\ pc.step = 3
             /\ PollSatisfied /\ Proceed /\ UNCHANGED <<endWr, report>>
    <2>1. Len(Calls) = 3
      BY <1>5, <1>l
    <2>2. \/ /\ run' = run /\ begun' = begun
             /\ pc'.fn = "sums" /\ pc'.step = 1 /\ pc'.chan \in Enabled(pc'.side)
          \/ /\ pc' = Start /\ run' = run + 1
             /\ begun' = [c \in Channels |-> [s \in Sides |-> 0]]
      BY <1>5, <1>c, <2>1
    <2>3. r_cstate' = "RWAIT" /\ w_cstate' = "WIDLE"
      BY <1>3, <1>5
    <2> QED
      BY <1>b, <1>5, <2>2, <2>3 DEF ReadMove, LastMove
  <1>6. CASE /\ go /\ r_cstate = "RDATA" /\ w_cstate = "WIDLE" /\ pc.fn = "poll" /\ pc.step = 3
             /\ ~PollSatisfied
             /\ pc' = [pc EXCEPT !.step = 2] /\ UNCHANGED <<board, run, endWr, report, begun>>
    <2>1. pc'.fn = "poll" /\ pc'.step = 2
      BY <1>0, <1>6 DEF Places
    <2> QED
      BY <1>b, <1>3, <1>6, <2>1 DEF ReadMove
  <1>7. CASE /\ go /\ r_cstate = "RDATA" /\ w_cstate = "WIDLE" /\ pc.fn = "sums" /\ pc.step = 2
             /\ Proceed
    <2>1. Len(Calls) = 2
      BY <1>7, <1>l
    <2>2. \/ /\ run' = run /\ begun' = begun
             /\ pc'.fn = "sums" /\ pc'.step = 1 /\ pc'.chan \in Enabled(pc'.side)
          \/ /\ pc' = Start /\ run' = run + 1
             /\ begun' = [c \in Channels |-> [s \in Sides |-> 0]]
      BY <1>7, <1>c, <2>1
    <2>3. r_cstate' = "RWAIT" /\ w_cstate' = "WIDLE"
      BY <1>3, <1>7
    <2> QED
      BY <1>b, <1>7, <2>2, <2>3 DEF ReadMove, LastMove
  <1> QED
    BY <1>1, <1>2, <1>4, <1>5, <1>6, <1>7, HostCases

\* A bus edge keeps what the start bit stands for.
LEMMA BusTickStart ==
    ASSUME TypeInv, PhaseInv, WriteInv, StartInv, NEW go \in BOOLEAN, BusTick(go)
    PROVE  StartInv'
  <1>0. /\ HostType /\ Running /\ pc.step \in Nat /\ L \in Nat /\ dma.ctl \in Controls
        /\ out' = dma.ctl /\ out_prev' = out
    BY RegisterFacts, BusRegisters DEF TypeInv, HostType, Places, BusTick
  <1>m. WriteMove \/ ReadMove \/ LastMove \/ NoMove
    BY HostMoves
  <1>j. run' = run => Job' = Job
    BY HostMoves
  <1>w. WriteInv' /\ TypeInv'
    BY BusTickWrite, TypeStep DEF Next
  <1>p. dma.ctl'.start => pc'.fn = "run"
    BY <1>w DEF WriteInv, Expect
  <1>q. dma.ctl.start => pc.fn = "run" /\ pc.step \in {L + 5, L + 6}
    BY StartPlace
  <1>f. "run" # "poll" /\ "run" # "sums" /\ "run" # "config" /\ "config" # "poll" /\ "config" # "sums"
    OBVIOUS
  <1>1. ASSUME Settled' PROVE ~dma.ctl'.start /\ ~dma.ctl.start /\ ~out.start
    <2>1. ~dma.ctl'.start
      BY <1>p, <1>1, <1>f DEF Settled
    <2>2. Settled \/ (pc.fn = "poll" /\ w_cstate = "WBRSP")
      BY <1>m, <1>1, <1>f DEF Settled, WriteMove, ReadMove, LastMove, NoMove, Start, At
    <2>3. CASE Settled
      BY <2>1, <2>3 DEF StartInv
    <2>4. CASE pc.fn = "poll" /\ w_cstate = "WBRSP"
      <3>1. Still /\ ~dma.ctl.start
        BY <1>q, <1>f, <2>4 DEF WriteInv
      <3> QED
        BY <2>1, <3>1 DEF Still
    <2> QED
      BY <2>2, <2>3, <2>4
  <1>2. ASSUME ~Late', ~dma.ctl'.start PROVE ~dma.ctl.start /\ ~out.start
    <2>1. CASE Late
      <3>1. Settled
        BY <1>0, <1>m, <1>2, <1>f, <2>1 DEF Late, Settled, WriteMove, ReadMove, LastMove, NoMove
      <3> QED
        BY <3>1 DEF StartInv
    <2>2. CASE ~Late /\ ~dma.ctl.start
      BY <2>2 DEF StartInv
    <2>3. CASE ~Late /\ dma.ctl.start
      <3>1. pc.fn = "run" /\ pc.step # L + 6
        BY <1>q, <2>3 DEF Late
      <3>2. dma.ctl' # dma.ctl
        BY <1>2, <2>3
      <3>3. Expect(dma.ctl, pc, pc.step)
        BY <3>2, BusRegisters
      <3> QED
        BY <2>3, <3>1, <3>3 DEF Expect
    <2> QED
      BY <2>1, <2>2, <2>3
  <1>3. ASSUME Late \/ dma.ctl.start, Late' \/ dma.ctl'.start
        PROVE  run' = run /\ Enables(dma.ctl') /\ Enables(dma.ctl) /\ Enables(out)
    <2>1. run' = run
      <3>1. CASE LastMove
        BY <1>3, <1>p, <1>f, <3>1 DEF LastMove, Late, Start, At
      <3> QED
        BY <1>m, <3>1 DEF WriteMove, ReadMove, NoMove
    <2>2. Enables(dma.ctl) /\ Enables(out)
      BY <1>3 DEF StartInv
    <2>3. dma.ctl'.we = dma.ctl.we /\ dma.ctl'.re = dma.ctl.re
      <3>1. CASE dma.ctl' = dma.ctl
        BY <3>1
      <3>2. CASE /\ Access.op = "write" /\ Expect(dma.ctl, pc, pc.step)
                 /\ dma.ctl' = Put(dma.ctl, Access)
        BY <1>0, <1>3, <1>q, <3>2, PutExpect
      <3> QED
        BY <3>1, <3>2, BusRegisters
    <2> QED
      BY <2>1, <2>2, <2>3 DEF Enables
  <1>4. ASSUME ~Late, ~dma.ctl.start, Late' PROVE dma.ctl'.start
    <2>1. w_cstate = "WBRSP" /\ pc.fn = "run" /\ pc'.step = L + 6 /\ pc'.step = pc.step + 1
      BY <1>0, <1>m, <1>4, <1>f DEF Late, WriteMove, ReadMove, LastMove, NoMove, Start, At
    <2>2. Expect(dma.ctl', pc, pc.step + 1)
      BY <2>1, BusRegisters
    <2> QED
      BY <2>1, <2>2 DEF Expect
  <1>5. ASSUME ~dma.ctl.start, dma.ctl'.start
        PROVE  /\ run' = run /\ Enables(dma.ctl') /\ Enables(dma.ctl) /\ Enables(out)
               /\ Core(dma.ctl') /\ Core(dma.ctl) /\ Core(out)
    <2>1. /\ pc.fn = "run" /\ Still /\ Enables(dma.ctl) /\ Core(dma.ctl)
          /\ Enables(dma.ctl') /\ Core(dma.ctl')
      BY <1>5, StartWrite
    <2>2. run' = run
      BY <1>m, <1>f, <2>1 DEF WriteMove, ReadMove, LastMove, NoMove
    <2> QED
      BY <2>1, <2>2 DEF Still
  <1>6. ASSUME dma.ctl.start
        PROVE  run' = run /\ Core(dma.ctl') /\ Core(dma.ctl) /\ Core(out)
    <2>1. run' = run
      BY <1>m, <1>f, <1>q, <1>6 DEF WriteMove, ReadMove, LastMove, NoMove
    <2>2. Core(dma.ctl) /\ Core(out)
      BY <1>6 DEF StartInv
    <2>3. dma.ctl'.chan = dma.ctl.chan /\ Word(dma.ctl') = Word(dma.ctl)
      <3>1. CASE dma.ctl' = dma.ctl
        BY <3>1
      <3>2. CASE /\ Access.op = "write" /\ Expect(dma.ctl, pc, pc.step)
                 /\ dma.ctl' = Put(dma.ctl, Access)
        BY <1>0, <1>6, <1>q, <3>2, PutExpect
      <3> QED
        BY <3>1, <3>2, BusRegisters
    <2> QED
      BY <2>1, <2>2, <2>3 DEF Core
  <1>7. (Late \/ dma.ctl.start => Enables(dma.ctl) /\ Enables(out) /\ Enables(out_prev))'
    <2> SUFFICES ASSUME Late' \/ dma.ctl'.start
                 PROVE  Enables(dma.ctl)' /\ Enables(out)' /\ Enables(out_prev)'
      OBVIOUS
    <2>1. run' = run /\ Enables(dma.ctl') /\ Enables(dma.ctl) /\ Enables(out)
      BY <1>3, <1>4, <1>5
    <2> QED
      BY <1>0, <1>j, <2>1 DEF Enables
  <1>8. (dma.ctl.start \/ out.start => Core(dma.ctl) /\ Core(out) /\ Core(out_prev))'
    <2> SUFFICES ASSUME dma.ctl'.start \/ dma.ctl.start
                 PROVE  Core(dma.ctl)' /\ Core(out)' /\ Core(out_prev)'
      BY <1>0
    <2>1. run' = run /\ Core(dma.ctl') /\ Core(dma.ctl) /\ Core(out)
      BY <1>5, <1>6
    <2> QED
      BY <1>0, <1>j, <2>1 DEF Core, Good, AllParams, Word
  <1> QED
    BY <1>0, <1>1, <1>2, <1>7, <1>8 DEF StartInv

\* A channel whose configuration is done keeps it when the selection moves on.
LEMMA BusTickSwitch ==
    ASSUME TypeInv, PhaseInv, WriteInv, NEW go \in BOOLEAN, BusTick(go)
    PROVE  SwitchInv'
  <1>0. /\ HostType /\ Running /\ pc.step \in Nat /\ L \in Nat /\ dma.ctl \in Controls
        /\ pc.chan \in Nat /\ NumChannels \in Nat /\ out' = dma.ctl
        /\ pc \in Places /\ pc.step \in 1 .. Len(Calls)
        /\ pc.fn \in {"config", "run", "poll", "sums"}
    BY RegisterFacts, Numbers, BusRegisters DEF TypeInv, HostType, Places, BusTick
  <1> SUFFICES ASSUME dma.ctl'.chan # dma.ctl.chan, Past(out.chan)'
               PROVE  Plain(Word(out), out.chan)'
    BY <1>0 DEF SwitchInv
  <1>1. /\ w_cstate = "WBRSP" /\ Access.op = "write" /\ Expect(dma.ctl, pc, pc.step)
        /\ dma.ctl' = Put(dma.ctl, Access) /\ Expect(dma.ctl', pc, pc.step + 1)
    BY BusRegisters
  <1>2. /\ run' = run
        /\ pc.fn = "poll" => dma.ctl' = dma.ctl
        /\ pc.fn = "sums" => pc'.fn = "sums"
        /\ pc.fn = "config" /\ pc.step = 1 => pc'.fn = "config" /\ pc'.chan = pc.chan
        /\ pc.fn = "run" => pc'.fn \in {"run", "poll"}
    <2>1. WriteMove \/ ReadMove \/ LastMove \/ NoMove
      BY HostMoves
    <2>2. WriteMove \/ NoMove
      BY <1>1, <2>1 DEF ReadMove, LastMove
    <2>3. run' = run
      BY <2>2 DEF WriteMove, NoMove
    <2>4. /\ pc.fn = "sums" => pc'.fn = "sums"
          /\ pc.fn = "run" => pc'.fn \in {"run", "poll"}
      BY <2>2 DEF WriteMove, NoMove
    <2>5. pc.fn = "config" /\ pc.step = 1 => pc'.fn = "config" /\ pc'.chan = pc.chan
      BY <1>0, <2>2 DEF WriteMove, NoMove
    <2> QED
      BY <1>1, <2>3, <2>4, <2>5, BusRegisters
  <1>3. pc.step = 1 /\ (pc.fn = "config" \/ pc.fn = "run")
    <2>1. pc.fn # "poll" /\ pc.fn # "sums"
      BY <1>2 DEF Past
    <2>2. pc.step > 1 => dma.ctl'.chan = dma.ctl.chan
      BY <1>0, <1>1, <2>1 DEF Expect
    <2> QED
      BY <1>0, <2>1, <2>2
  <1>4. Configured(dma.ctl, dma.ctl.chan)
    <2>1. CASE pc.fn = "run"
      BY <1>1, <1>3, <2>1 DEF Expect, Configured
    <2>2. CASE pc.fn = "config"
      <3>1. pc.chan > dma.ctl.chan
        BY <1>0, <1>2, <1>3, <2>2 DEF Past
      <3>2. dma.ctl.chan \in Nat
        BY <1>0, Numbers DEF Controls
      <3>3. pc.chan > 0
        BY <1>0, <3>1, <3>2
      <3> QED
        BY <1>1, <1>3, <2>2, <3>3 DEF Expect, Configured
    <2> QED
      BY <1>3, <2>1, <2>2
  <1>5. AllParams(Word(dma.ctl), dma.ctl.chan)
    BY <1>0, <1>4, ParamsAll DEF Configured
  <1> QED
    BY <1>2, <1>4, <1>5, <1>0 DEF Plain, Configured, AllParams, Word

-----------------------------------------------------------------------------
(***************************************************************************)
(* What the channels sample.                                                *)
(***************************************************************************)
\* A memory edge samples the start bit and the enables of now, or all registers
\* as they were before the last bus edge if it is the first since.
Like(o, x) == (o.start <=> x.start) /\ o.we = x.we /\ o.re = x.re
LEMMA FlagSample ==
    ASSUME TypeInv, NEW d \in Clocks, NEW o \in Samples(d)
    PROVE  Like(o, out) \/ (o = out_prev /\ ~(mem_edges[d] > 0))
  <1>0. out \in Controls
    BY DEF TypeInv, BusType
  <1>1. CASE o = out
    BY <1>1 DEF Like
  <1>2. CASE \E c \in Torn(out_prev.chan, out.chan) : o = [out EXCEPT !.chan = c]
    <2>1. PICK c : o = [out EXCEPT !.chan = c]
      BY <1>2
    <2>2. o.we = out.we /\ o.re = out.re
      BY <1>0, <2>1 DEF Controls
    <2>3. o.start = out.start
      BY <1>0, <2>1 DEF Controls
    <2> QED
      BY <2>2, <2>3 DEF Like
  <1> QED
    BY <1>1, <1>2 DEF Samples

\* The channel number is no exception when it is not torn.
LEMMA WholeSample ==
    ASSUME WholeSamples, TypeInv, WriteInv, NEW d \in Clocks, NEW o \in Samples(d)
    PROVE  /\ o = out \/ o = out_prev
           /\ mem_edges[d] > 0 => o = out
  <1>0. out \in Controls /\ out_prev \in Controls
    BY DEF TypeInv, BusType
  <1>1. CASE o = out \/ (o = out_prev /\ ~(mem_edges[d] > 0))
    BY <1>1
  <1>2. CASE /\ ~(mem_edges[d] > 0)
             /\ \E c \in Torn(out_prev.chan, out.chan) : o = [out EXCEPT !.chan = c]
    <2>1. PICK c \in Torn(out_prev.chan, out.chan) : o = [out EXCEPT !.chan = c]
      BY <1>2
    <2>2. c = out_prev.chan \/ c = out.chan
      BY <1>0, <2>1 DEF WholeSamples, Controls
    <2>3. CASE c = out.chan
      BY <1>0, <1>2, <2>1, <2>3, SameValue
    <2>4. CASE c = out_prev.chan /\ out_prev.chan # out.chan
      <3>1. out = [out_prev EXCEPT !.chan = out.chan]
        BY <2>4 DEF WriteInv, OneChange
      <3>2. o = out_prev
        <4>1. /\ o \in Controls
              /\ o.chan = out_prev.chan /\ o.prm = out_prev.prm
              /\ o.we = out_prev.we /\ o.re = out_prev.re
          BY <1>0, <2>1, <2>4, <3>1 DEF Controls
        <4>2. o.lat = out_prev.lat /\ o.start = out_prev.start
          BY <1>0, <2>1, <2>4, <3>1 DEF Controls
        <4> QED
          BY <1>0, <4>1, <4>2 DEF Controls
      <3> QED
        BY <1>2, <3>2
    <2> QED
      BY <2>2, <2>3, <2>4
  <1> QED
    BY <1>1, <1>2 DEF Samples

\* What a bus edge leaves to a channel.
LEMMA BusTickChannel ==
    ASSUME TypeInv, PhaseInv, WriteInv, NEW go \in BOOLEAN, BusTick(go), NEW c \in Channels
    PROVE  /\ UNCHANGED <<glue, eng>> /\ Clock(c)' = Clock(c)
           /\ mem_edges[Clock(c)] > 0 /\ mem_edges'[Clock(c)'] = 0
           /\ dma.ctl' # dma.ctl => Still
  <1>1. board' = board /\ UNCHANGED <<glue, eng>>
    BY HostMoves DEF BusTick
  <1>2. Clock(c) \in Clocks /\ Clock(c)' = Clock(c)
    BY <1>1 DEF Clock, Clocks
  <1>3. mem_edges[Clock(c)] > 0 /\ mem_edges'[Clock(c)] = 0
    BY <1>2 DEF BusTick
  <1> QED
    BY <1>1, <1>2, <1>3, BusRegisters

\* A channel has seen a change of the registers twice when the next one comes.
LEMMA BusTickSeen ==
    ASSUME TypeInv, PhaseInv, WriteInv, NEW go \in BOOLEAN, BusTick(go),
           NEW c \in Channels, SeenInv(c)
    PROVE  SeenInv(c)'
  <1>0. /\ out' = dma.ctl /\ out_prev' = out
        /\ start_r' = start_r /\ start_rr' = start_rr /\ lt_params' = lt_params
        /\ mem_edges[Clock(c)] > 0 /\ mem_edges'[Clock(c)'] = 0
        /\ dma.ctl' # dma.ctl => Still
    BY BusRegisters, BusTickChannel DEF glue
  <1>1. ~(mem_edges'[Clock(c)'] > 0)
    BY <1>0
  <1>2. (dma.ctl # out => Saw(c))'
    BY <1>0 DEF SeenInv, Saw, Still
  <1>3. dma.ctl # out => SawTwice(c)
    BY <1>0 DEF SeenInv
  <1>4. (out # out_prev => /\ (c \in start_r <=> out_prev.start)
                           /\ (c \in start_rr <=> out_prev.start)
                           /\ WholeSamples /\ out_prev.chan = c =>
                                 lt_params[c] = Both(Word(out_prev)))'
    BY <1>0, <1>3 DEF SawTwice, Both, Word
  <1> QED
    BY <1>1, <1>2, <1>4 DEF SeenInv

\* A memory edge of another clock changes nothing that a channel has seen.
LEMMA MemTickOther ==
    ASSUME TypeInv, NEW d \in Clocks, NEW o \in Samples(d),
           NEW F \in SUBSET MayEnd(ClockedBy(d)), MemTick(d, o, F),
           NEW c \in Channels, Clock(c) # d
    PROVE  Clock(c)' = Clock(c) /\ mem_edges'[Clock(c)'] = mem_edges[Clock(c)]
  <1>1. board' = board /\ mem_edges' = [mem_edges EXCEPT ![d] = @ + 1]
    BY DEF MemTick, host
  <1>2. Clock(c) \in Clocks /\ Clock(c)' = Clock(c) /\ mem_edges \in [Clocks -> 0 .. MemPerBus]
    BY <1>1 DEF Clock, Clocks, TypeInv, BusType
  <1> QED
    BY <1>1, <1>2

\* A memory edge of its own clock is one more edge a channel has seen.
LEMMA MemTickOwn ==
    ASSUME TypeInv, NEW d \in Clocks, NEW o \in Samples(d),
           NEW F \in SUBSET MayEnd(ClockedBy(d)), MemTick(d, o, F),
           NEW c \in Channels, Clock(c) = d
    PROVE  /\ Clock(c)' = d /\ mem_edges'[Clock(c)'] > 0
           /\ mem_edges[d] > 0 \/ mem_edges[d] = 0
  <1>1. board' = board /\ mem_edges' = [mem_edges EXCEPT ![d] = @ + 1]
    BY DEF MemTick, host
  <1>2. Clock(c)' = d /\ mem_edges \in [Clocks -> 0 .. MemPerBus]
    BY <1>1 DEF Clock, TypeInv, BusType
  <1>3. mem_edges[d] \in Nat
    BY <1>2, Numbers
  <1>4. mem_edges'[d] = mem_edges[d] + 1
    BY <1>1, <1>2
  <1> QED
    BY <1>2, <1>3, <1>4

\* Memory edges keep what the channels have seen.
LEMMA MemTickSeen ==
    ASSUME TypeInv, WriteInv, NEW d \in Clocks, NEW o \in Samples(d),
           NEW F \in SUBSET MayEnd(ClockedBy(d)), MemTick(d, o, F),
           NEW c \in Channels, SeenInv(c)
    PROVE  SeenInv(c)'
  <1>0. dma' = dma /\ out' = out /\ out_prev' = out_prev
    BY DEF MemTick, bus
  <1>1. CASE Clock(c) # d
    <2>1. /\ lt_params'[c] = lt_params[c]
          /\ (c \in start_r' <=> c \in start_r) /\ (c \in start_rr' <=> c \in start_rr)
      BY <1>1, OtherChannel
    <2>2. Clock(c)' = Clock(c) /\ mem_edges'[Clock(c)'] = mem_edges[Clock(c)]
      BY <1>1, MemTickOther
    <2>3. (Saw(c)' <=> Saw(c)) /\ (SawTwice(c)' <=> SawTwice(c))
      BY <1>0, <2>1 DEF Saw, SawTwice, Both, Word
    <2> QED
      BY <1>0, <2>1, <2>2, <2>3 DEF SeenInv, Both, Word
  <1>2. CASE Clock(c) = d
    <2>0. /\ Clock(c)' = d /\ mem_edges'[Clock(c)'] > 0
          /\ mem_edges[d] > 0 \/ mem_edges[d] = 0
      BY <1>2, MemTickOwn
    <2>1. /\ o.chan = c => lt_params'[c] = [wr |-> Word(o), rd |-> lt_params[c].wr]
          /\ o.chan # c => lt_params'[c] = lt_params[c]
          /\ (c \in start_r' <=> o.start) /\ (c \in start_rr' <=> c \in start_r)
      BY <1>2, OwnChannel
    <2>2. WholeSamples => (o = out \/ o = out_prev) /\ (mem_edges[d] > 0 => o = out)
      BY WholeSample
    <2>f. (o.start <=> out.start) \/ (o = out_prev /\ ~(mem_edges[d] > 0))
      BY FlagSample DEF Like
    <2>3. dma.ctl # out => out = out_prev
      BY DEF WriteInv
    <2>4. ASSUME out = out_prev PROVE Saw(c)'
      <3>1. (WholeSamples => o = out) /\ (o.start <=> out.start)
        BY <2>2, <2>4, <2>f
      <3>2. WholeSamples /\ out.chan = c => lt_params'[c].wr = Word(out)
        BY <2>1, <3>1
      <3> QED
        BY <1>0, <2>1, <3>1, <3>2 DEF Saw, Word
    <2>5. ASSUME dma.ctl # out PROVE SawTwice(c)'
      <3>1. (WholeSamples => o = out) /\ (o.start <=> out.start) /\ Saw(c)
        BY <2>2, <2>3, <2>5, <2>f DEF SeenInv
      <3>2. WholeSamples /\ out.chan = c => lt_params'[c] = Both(Word(out))
        BY <2>1, <3>1 DEF Saw, Both
      <3> QED
        BY <1>0, <2>1, <3>1, <3>2 DEF Saw, SawTwice, Both, Word
    <2>6. ASSUME out # out_prev, out.start <=> out_prev.start
          PROVE  (c \in start_r' <=> out_prev.start) /\ (c \in start_rr' <=> out_prev.start)
      BY <2>1, <2>6, <2>f DEF SeenInv
    <2>7. ASSUME WholeSamples, out # out_prev, out_prev.chan = c, out.chan # c \/ Word(out) = Word(out_prev)
          PROVE  lt_params'[c] = Both(Word(out_prev))
      <3>1. lt_params[c] = Both(Word(out_prev))
        BY <2>7 DEF SeenInv
      <3>2. lt_params[c].wr = Word(out_prev)
        BY <3>1 DEF Both
      <3>3. o.chan = c => Word(o) = Word(out_prev)
        BY <2>2, <2>7
      <3> QED
        BY <2>1, <3>1, <3>2, <3>3 DEF Both
    <2>8. (out # out_prev /\ (out.start <=> out_prev.start) =>
              (c \in start_r <=> out_prev.start) /\ (c \in start_rr <=> out_prev.start))'
      BY <1>0, <2>6
    <2>9. (WholeSamples /\ out # out_prev /\ out_prev.chan = c
              /\ (out.chan # c \/ Word(out) = Word(out_prev)) =>
              lt_params[c] = Both(Word(out_prev)))'
      BY <1>0, <2>7 DEF Both, Word
    <2>10. (mem_edges[Clock(c)] # 0)'
      BY <2>0
    <2> QED
      BY <1>0, <2>3, <2>4, <2>5, <2>8, <2>9, <2>10 DEF SeenInv
  <1> QED
    BY <1>1, <1>2

\* The phases of the start bit over a bus edge.
LEMMA BusTickPhases ==
    ASSUME TypeInv, PhaseInv, WriteInv, StartInv, NEW go \in BOOLEAN, BusTick(go)
    PROVE  /\ Late /\ ~Late' => Settled /\ LastMove
           /\ ~Late /\ ~dma.ctl.start /\ Late' => dma.ctl'.start
           /\ Late' \/ dma.ctl.start \/ out.start => run' = run /\ Job' = Job /\ begun' = begun
           /\ Settled' => Settled \/ (pc.fn = "poll" /\ w_cstate = "WBRSP")
           /\ dma.ctl'.start /\ ~dma.ctl.start => ~Late
           /\ out.start => Late \/ dma.ctl.start
           /\ Settled => Late /\ ~dma.ctl.start /\ ~out.start /\ ~out_prev.start
  <1>0. /\ pc.step \in Nat /\ L \in Nat
        /\ (run' = run => Job' = Job) /\ (WriteMove \/ ReadMove \/ LastMove \/ NoMove)
    BY RegisterFacts, HostMoves DEF TypeInv, HostType, Places
  <1>f. "run" # "poll" /\ "run" # "sums" /\ "run" # "config" /\ "config" # "poll" /\ "config" # "sums"
    OBVIOUS
  <1>q. dma.ctl.start => pc.fn = "run"
    BY StartPlace
  <1>1. ASSUME Late, ~Late' PROVE LastMove /\ Settled
    BY <1>0, <1>1, <1>f DEF Late, Settled, WriteMove, ReadMove, LastMove, NoMove
  <1>2. ASSUME ~Late, ~dma.ctl.start, Late' PROVE dma.ctl'.start
    <2>1. w_cstate = "WBRSP" /\ pc.fn = "run" /\ pc'.step = L + 6 /\ pc'.step = pc.step + 1
      BY <1>0, <1>2, <1>f DEF Late, WriteMove, ReadMove, LastMove, NoMove, Start, At
    <2>2. Expect(dma.ctl', pc, pc.step + 1)
      BY <2>1, BusRegisters
    <2> QED
      BY <2>1, <2>2 DEF Expect
  <1>3. out.start => Late \/ dma.ctl.start
    BY DEF StartInv
  <1>4. Settled => Late /\ ~dma.ctl.start /\ ~out.start /\ ~out_prev.start
    BY DEF StartInv, Settled, Late
  <1>5. LastMove => ~Late' /\ ~dma.ctl.start /\ ~out.start
    BY <1>4, <1>f DEF LastMove, Late, Settled, Start, At
  <1>6. Late' \/ dma.ctl.start \/ out.start => run' = run /\ Job' = Job /\ begun' = begun
    BY <1>0, <1>5 DEF WriteMove, ReadMove, NoMove
  <1>7. Settled' => Settled \/ (pc.fn = "poll" /\ w_cstate = "WBRSP")
    BY <1>0, <1>f DEF Settled, WriteMove, ReadMove, LastMove, NoMove, Start, At
  <1>8. ASSUME dma.ctl'.start, ~dma.ctl.start PROVE ~Late
    <2>1. pc.fn = "run" /\ pc.step = L + 5
      BY <1>8, StartWrite
    <2>2. pc.step # L + 6
      BY <1>0, <2>1
    <2> QED
      BY <1>f, <2>1, <2>2 DEF Late
  <1> QED
    BY <1>1, <1>2, <1>3, <1>4, <1>6, <1>7, <1>8

\* A channel is done with its configuration while it is still selected.
LEMMA BusTickConf ==
    ASSUME TypeInv, PhaseInv, WriteInv, SwitchInv, NEW go \in BOOLEAN, BusTick(go),
           NEW c \in Channels, SeenInv(c), ConfInv(c)
    PROVE  ConfInv(c)'
  <1>0. /\ out' = dma.ctl /\ lt_params' = lt_params /\ mem_edges[Clock(c)] > 0
        /\ pc.step \in Nat /\ L \in Nat /\ pc.chan \in Nat /\ c \in Nat
        /\ c <= NumChannels - 1 /\ NumChannels \in Nat
    BY RegisterFacts, Numbers, BusRegisters, BusTickChannel
       DEF glue, TypeInv, HostType, Places, Channels
  <1> SUFFICES ASSUME WholeSamples, Past(c)', dma.ctl.chan # c
               PROVE  (Plain(lt_params[c].wr, c) /\ Plain(lt_params[c].rd, c))'
    BY <1>0 DEF ConfInv
  <1>m. WriteMove \/ ReadMove \/ LastMove \/ NoMove
    BY HostMoves
  <1>f. "run" # "poll" /\ "run" # "sums" /\ "run" # "config" /\ "config" # "poll" /\ "config" # "sums"
    OBVIOUS
  <1>1. ~LastMove
    <2>1. ASSUME LastMove PROVE pc'.fn = "config" /\ pc'.chan = 0
      BY <2>1 DEF LastMove, Start, At
    <2> QED
      BY <1>0, <1>f, <2>1 DEF Past
  <1>2. run' = run
    BY <1>m, <1>1 DEF WriteMove, ReadMove, NoMove
  <1>3. Past(c)
    <2>1. CASE WriteMove
      <3>1. CASE pc.fn = "config" /\ pc.step = L + 2 /\ ~(pc.chan > c)
        <4>1. pc.chan = c
          BY <1>0, <1>f, <2>1, <3>1 DEF WriteMove, Past
        <4>2. w_cstate = "WBRSP"
          BY <2>1 DEF WriteMove
        <4>3. pc.step > 1 /\ pc.step + 1 > 1
          BY <1>0, <3>1
        <4>4. dma.ctl.chan = pc.chan
          BY <3>1, <4>2, <4>3 DEF WriteInv, Expect
        <4> QED
          BY <4>1, <4>4
      <3>2. CASE ~(pc.fn = "config" /\ pc.step = L + 2 /\ ~(pc.chan > c))
        BY <1>0, <1>f, <2>1, <3>2 DEF WriteMove, Past
      <3> QED
        BY <3>1, <3>2
    <2>2. CASE ReadMove \/ NoMove
      BY <1>f, <2>2 DEF ReadMove, NoMove, Past
    <2> QED
      BY <1>m, <1>1, <2>1, <2>2
  <1>4. Plain(lt_params[c].wr, c) /\ Plain(lt_params[c].rd, c)
    <2>1. CASE out.chan # c
      BY <1>3, <2>1 DEF ConfInv
    <2>2. CASE out.chan = c
      <3>1. SawTwice(c)
        BY <1>0, <2>2 DEF SeenInv
      <3>2. Plain(Word(out), c)
        BY <1>3, <2>2 DEF SwitchInv
      <3>3. lt_params[c].wr = Word(out) /\ lt_params[c].rd = Word(out)
        BY <2>2, <3>1 DEF SawTwice, Both
      <3> QED
        BY <3>2, <3>3
    <2> QED
      BY <2>1, <2>2
  <1> QED
    BY <1>0, <1>2, <1>4 DEF Plain, AllParams

\* A memory edge leaves the configuration of the channels that are done alone.
LEMMA MemTickConf ==
    ASSUME TypeInv, WriteInv, NEW d \in Clocks, NEW o \in Samples(d),
           NEW F \in SUBSET MayEnd(ClockedBy(d)), MemTick(d, o, F),
           NEW c \in Channels, SeenInv(c), ConfInv(c)
    PROVE  ConfInv(c)'
  <1>0. out' = out /\ pc' = pc /\ run' = run
    BY DEF MemTick, bus, host
  <1> SUFFICES ASSUME WholeSamples, Past(c), out.chan # c
               PROVE  (Plain(lt_params[c].wr, c) /\ Plain(lt_params[c].rd, c))'
    BY <1>0 DEF ConfInv, Past
  <1>1. Plain(lt_params[c].wr, c) /\ Plain(lt_params[c].rd, c)
    BY DEF ConfInv
  <1>2. lt_params'[c] = lt_params[c]
    <2>1. CASE Clock(c) # d
      BY <2>1, OtherChannel
    <2>2. CASE Clock(c) = d /\ o.chan # c
      BY <2>2, OwnChannel
    <2>3. CASE Clock(c) = d /\ o.chan = c
      <3>1. o = out_prev
        BY <2>3, WholeSample
      <3>2. lt_params[c] = Both(Word(o))
        BY <2>3, <3>1 DEF SeenInv
      <3>3. lt_params'[c] = [wr |-> Word(o), rd |-> lt_params[c].wr]
        BY <2>3, OwnChannel
      <3> QED
        BY <3>2, <3>3 DEF Both
    <2> QED
      BY <2>1, <2>2, <2>3
  <1> QED
    BY <1>0, <1>1, <1>2 DEF Plain, AllParams

\* When the start bit is out every channel holds its parameters.
LEMMA BusTickParams ==
    ASSUME TypeInv, PhaseInv, WriteInv, StartInv, NEW go \in BOOLEAN, BusTick(go),
           NEW c \in Channels, SeenInv(c), ConfInv(c), ParamsInv(c)
    PROVE  ParamsInv(c)'
  <1>0. /\ out' = dma.ctl /\ lt_params' = lt_params /\ mem_edges[Clock(c)] > 0
    BY BusRegisters, BusTickChannel DEF glue
  <1> SUFFICES ASSUME WholeSamples, dma.ctl.start
               PROVE  (Good(lt_params[c].wr, c) /\ Good(lt_params[c].rd, c))'
    BY <1>0 DEF ParamsInv
  <1>1. run' = run /\ Job' = Job
    BY BusTickPhases
  <1>2. Good(lt_params[c].wr, c) /\ Good(lt_params[c].rd, c)
    <2>1. CASE out.start
      BY <2>1 DEF ParamsInv
    <2>2. CASE ~out.start
      <3>1. Core(out) /\ SawTwice(c)
        BY <1>0, <2>2 DEF StartInv, SeenInv
      <3>2. CASE c = Job.latch
        <4>1. lt_params[c].wr = Word(out) /\ lt_params[c].rd = Word(out)
          BY <3>1, <3>2 DEF SawTwice, Both, Core
        <4> QED
          BY <3>1, <3>2, <4>1 DEF Core
      <3>3. CASE c # Job.latch
        <4>1. pc.fn = "run"
          BY StartPlace
        <4>2. Plain(lt_params[c].wr, c) /\ Plain(lt_params[c].rd, c)
          BY <3>1, <3>3, <4>1 DEF ConfInv, Past, Core
        <4> QED
          BY <3>3, <4>2 DEF Plain, Good
      <3> QED
        BY <3>2, <3>3
    <2> QED
      BY <2>1, <2>2
  <1> QED
    BY <1>0, <1>1, <1>2 DEF Good, AllParams

\* While it is out a memory edge writes no other parameters.
LEMMA MemTickParams ==
    ASSUME TypeInv, WriteInv, StartInv, NEW d \in Clocks, NEW o \in Samples(d),
           NEW F \in SUBSET MayEnd(ClockedBy(d)), MemTick(d, o, F),
           NEW c \in Channels, ParamsInv(c)
    PROVE  ParamsInv(c)'
  <1>0. out' = out /\ run' = run /\ Job' = Job
    BY DEF MemTick, bus, host, Job
  <1> SUFFICES ASSUME WholeSamples, out.start
               PROVE  (Good(lt_params[c].wr, c) /\ Good(lt_params[c].rd, c))'
    BY <1>0 DEF ParamsInv
  <1>1. Good(lt_params[c].wr, c) /\ Good(lt_params[c].rd, c)
    BY DEF ParamsInv
  <1>2. Good(lt_params'[c].wr, c) /\ Good(lt_params'[c].rd, c)
    <2>1. CASE Clock(c) # d
      BY <1>1, <2>1, OtherChannel
    <2>2. CASE Clock(c) = d /\ o.chan # c
      BY <1>1, <2>2, OwnChannel
    <2>3. CASE Clock(c) = d /\ o.chan = c
      <3>1. Core(o)
        BY WholeSample DEF StartInv
      <3>2. Good(Word(o), c)
        BY <2>3, <3>1 DEF Core
      <3>3. lt_params'[c] = [wr |-> Word(o), rd |-> lt_params[c].wr]
        BY <2>3, OwnChannel
      <3>4. lt_params'[c].wr = Word(o) /\ lt_params'[c].rd = lt_params[c].wr
        BY <3>3
      <3> QED
        BY <1>1, <3>2, <3>4
    <2> QED
      BY <2>1, <2>2, <2>3
  <1> QED
    BY <1>0, <1>2 DEF Good, AllParams

-----------------------------------------------------------------------------
(***************************************************************************)
(* The start on its way.                                                    *)
(***************************************************************************)
\* A bus edge does not hide the start from a channel: one that has not seen it
\* has not lost it, and only a new invocation makes it forget.
LEMMA BusTickView ==
    ASSUME TypeInv, PhaseInv, WriteInv, StartInv, NEW go \in BOOLEAN, BusTick(go),
           NEW c \in Channels, SeenInv(c), TokenInv(c)
    PROVE  /\ NotYet(c)' /\ ~NotYet(c) => LastMove /\ Settled
           /\ NotYet(c) => NotYet(c)'
           /\ Over' /\ ~Over => out.start /\ c \in start_r /\ c \in start_rr
           /\ dma.ctl.start /\ ~out.start => c \notin start_r /\ c \notin start_rr
  <1>0. /\ out' = dma.ctl /\ start_r' = start_r /\ start_rr' = start_rr
        /\ mem_edges[Clock(c)] > 0 /\ (dma.ctl' # dma.ctl => Still)
    BY BusRegisters, BusTickChannel DEF glue
  <1>p. /\ Late /\ ~Late' => Settled /\ LastMove
        /\ ~Late /\ ~dma.ctl.start /\ Late' => dma.ctl'.start
        /\ dma.ctl'.start /\ ~dma.ctl.start => ~Late
        /\ out.start => Late \/ dma.ctl.start
        /\ Settled => Late /\ ~dma.ctl.start /\ ~out.start /\ ~out_prev.start
    BY BusTickPhases
  <1>s. ASSUME ~dma.ctl.start, out.start
        PROVE  c \in start_r /\ c \in start_rr /\ ~dma.ctl'.start /\ Late
    <2>1. dma.ctl # out
      BY <1>s
    <2>2. SawTwice(c)
      BY <1>0, <2>1 DEF SeenInv
    <2>3. dma.ctl' = dma.ctl
      BY <1>0, <2>1 DEF Still
    <2> QED
      BY <1>p, <1>s, <2>2, <2>3 DEF SawTwice
  <1>n. NotYet(c)' <=> (dma.ctl.start \/ dma.ctl'.start \/ ~Late') /\ ~(dma.ctl.start /\ c \in start_r)
    BY <1>0 DEF NotYet
  <1>o. Over' <=> Late' /\ ~dma.ctl'.start /\ ~dma.ctl.start
    BY <1>0 DEF Over
  <1>1. ASSUME dma.ctl.start, ~out.start PROVE c \notin start_r /\ c \notin start_rr
    BY <1>1 DEF TokenInv, NotYet
  <1>2. ASSUME Over', ~Over PROVE out.start /\ c \in start_r /\ c \in start_rr
    BY <1>2, <1>o, <1>p, <1>s DEF Over
  <1>3. ASSUME NotYet(c)', ~NotYet(c) PROVE LastMove /\ Settled
    <2>1. CASE out.start /\ c \in start_r
      BY <1>3, <1>n, <1>p, <1>s, <2>1
    <2>2. CASE Over
      BY <1>3, <1>n, <1>p, <2>2 DEF Over
    <2> QED
      BY <1>3, <2>1, <2>2 DEF NotYet, Over
  <1>4. ASSUME NotYet(c), ~NotYet(c)' PROVE FALSE
    <2>1. CASE dma.ctl.start /\ c \in start_r
      BY <1>1, <1>4, <2>1 DEF NotYet
    <2>2. CASE Over'
      <3>1. ~Over
        BY <1>4 DEF Over, NotYet
      <3> QED
        BY <1>2, <1>4, <2>2, <3>1 DEF NotYet
    <2> QED
      BY <1>4, <1>n, <1>o, <2>1, <2>2
  <1> QED
    BY <1>1, <1>2, <1>3, <1>4

\* The poll ends, and the invocation, when every enabled engine is done.
LEMMA PollOver ==
    ASSUME TypeInv, PhaseInv, NEW go \in BOOLEAN, BusTick(go),
           NEW c \in Channels, FlagInv(c), NEW s \in Sides, c \in Enabled(s),
           \/ pc.fn = "sums"
           \/ pc.fn = "poll" /\ pc.step = 3 /\ r_cstate = "RDATA" /\ PollSatisfied
    PROVE  Done(c, s)
  <1>1. CASE pc.fn = "sums"
    BY <1>1 DEF FlagInv
  <1>2. CASE pc.fn = "poll" /\ pc.step = 3 /\ r_cstate = "RDATA" /\ PollSatisfied
    <2>1. CASE s = "wr"
      <3>1. c \in endWr
        BY <1>2, <2>1 DEF PollSatisfied, Enabled
      <3> QED
        BY <1>2, <2>1, <3>1 DEF FlagInv
    <2>2. CASE s # "wr"
      <3>1. c \in dma.end_rd /\ s = "rd"
        BY <1>2, <2>2 DEF PollSatisfied, Enabled, Sides
      <3> QED
        BY <1>2, <3>1 DEF FlagInv
    <2> QED
      BY <2>1, <2>2
  <1> QED
    BY <1>1, <1>2

\* A bus edge keeps the start of every engine in its place.
LEMMA BusTickToken ==
    ASSUME TypeInv, PhaseInv, WriteInv, StartInv, NEW go \in BOOLEAN, BusTick(go),
           NEW c \in Channels, SeenInv(c), TokenInv(c), FlagInv(c)
    PROVE  TokenInv(c)'
  <1>0. /\ out' = dma.ctl /\ start_r' = start_r /\ start_rr' = start_rr
        /\ start_pipe' = start_pipe /\ pipe' = pipe /\ eng' = eng
        /\ mem_edges[Clock(c)] > 0 /\ ~(mem_edges'[Clock(c)'] > 0)
    BY BusRegisters, BusTickChannel DEF glue
  <1>m. WriteMove \/ ReadMove \/ LastMove \/ NoMove
    BY HostMoves
  <1>p. /\ Late /\ ~Late' => Settled /\ LastMove
        /\ Late' \/ dma.ctl.start \/ out.start => run' = run /\ Job' = Job /\ begun' = begun
        /\ Settled' => Settled \/ (pc.fn = "poll" /\ w_cstate = "WBRSP")
        /\ Settled => Late /\ ~dma.ctl.start /\ ~out.start /\ ~out_prev.start
    BY BusTickPhases
  <1>v. /\ NotYet(c)' /\ ~NotYet(c) => LastMove /\ Settled
        /\ NotYet(c) => NotYet(c)'
        /\ Over' /\ ~Over => out.start /\ c \in start_r /\ c \in start_rr
    BY BusTickView
  <1>b. begun' = begun \/ begun' = [x \in Channels |-> [s \in Sides |-> 0]]
    BY <1>m DEF WriteMove, ReadMove, LastMove, NoMove
  <1>f. "poll" # "sums" /\ "run" # "poll" /\ "run" # "sums" /\ "config" # "poll" /\ "config" # "sums"
    OBVIOUS
  <1>1. ASSUME NotYet(c)'
        PROVE  c \notin start_r /\ c \notin start_rr /\ \A s \in Sides : Empty(c, s)'
    <2>1. CASE NotYet(c)
      <3>1. c \notin start_r /\ c \notin start_rr /\ \A s \in Sides : Empty(c, s)
        BY <2>1 DEF TokenInv
      <3>2. ASSUME NEW s \in Sides PROVE begun'[c][s] = 0
        BY <1>b, <3>1 DEF Empty
      <3> QED
        BY <1>0, <3>1, <3>2 DEF Empty
    <2>2. CASE ~NotYet(c)
      <3>1. LastMove /\ Settled
        BY <1>1, <1>v, <2>2
      <3>2. c \notin start_r /\ c \notin start_rr
        BY <3>1 DEF TokenInv, LastMove
      <3>3. ASSUME NEW s \in Sides PROVE Empty(c, s)'
        <4>1. begun'[c][s] = 0
          BY <3>1 DEF LastMove
        <4>2. CASE c \in Enabled(s)
          <5>1. Done(c, s)
            BY <3>1, <4>2, PollOver DEF LastMove
          <5>2. Token(c, s) /\ begun[c][s] # 0
            BY <2>2, <4>2, <5>1 DEF TokenInv, Done
          <5>3. ~start_pipe[c][s][1] /\ ~start_pipe[c][s][2] /\ ~start_pipe[c][s][3]
            BY <5>2 DEF Token
          <5> QED
            BY <1>0, <4>1, <5>1, <5>3 DEF Done, Empty
        <4>3. CASE c \notin Enabled(s)
          BY <1>0, <2>2, <4>1, <4>3 DEF TokenInv, Empty
        <4> QED
          BY <4>2, <4>3
      <3> QED
        BY <3>2, <3>3
    <2> QED
      BY <2>1, <2>2
  <1>2. ASSUME ~NotYet(c)', NEW s \in Sides
        PROVE  (IF c \in Enabled(s) THEN Token(c, s) ELSE Empty(c, s))'
    <2>1. ~NotYet(c)
      BY <1>2, <1>v
    <2>2. Late' \/ dma.ctl.start
      BY <1>0, <1>2 DEF NotYet
    <2>3. run' = run /\ Job' = Job /\ begun' = begun
      BY <1>p, <2>2
    <2>4. IF c \in Enabled(s) THEN Token(c, s) ELSE Empty(c, s)
      BY <2>1 DEF TokenInv
    <2>5. Enabled(s)' = Enabled(s)
      BY <2>3 DEF Enabled
    <2>6. /\ Token(c, s)' <=> Token(c, s)
          /\ Empty(c, s)' <=> Empty(c, s)
      BY <1>0, <2>3 DEF Token, Empty, StartEdge, GoodPipe, GoodSum, GoodJob, Good, AllParams
    <2> QED
      BY <2>4, <2>5, <2>6
  <1>3. Over' => (c \in start_r => c \in start_rr)
    BY <1>v DEF TokenInv
  <1>4. ASSUME Settled' PROVE c \notin start_r
    <2>1. CASE Settled
      BY <2>1 DEF TokenInv
    <2>2. CASE pc.fn = "poll" /\ w_cstate = "WBRSP"
      <3>1. Still /\ ~dma.ctl.start
        BY <1>f, <2>2, StartPlace DEF WriteInv
      <3>2. Saw(c)
        BY <1>0, <3>1 DEF SeenInv, Still
      <3> QED
        BY <3>1, <3>2 DEF Saw, Still
    <2> QED
      BY <1>4, <1>p, <2>1, <2>2
  <1>5. ASSUME \/ pc'.fn = "poll" /\ r_cstate' = "RDATA"
               \/ pc'.fn = "poll" /\ pc'.step = 3
               \/ pc'.fn = "sums"
        PROVE  c \notin start_rr
    <2>1. CASE \/ pc.fn = "poll" /\ r_cstate = "RDATA"
               \/ pc.fn = "poll" /\ pc.step = 3
               \/ pc.fn = "sums"
      BY <2>1 DEF TokenInv
    <2>2. CASE pc.fn = "poll" /\ Access.op = "read"
      <3>1. pc.step \in {2, 3}
        BY <2>2, AccessKinds DEF TypeInv, HostType
      <3>2. pc.step > 1
        BY <3>1
      <3> QED
        BY <1>0, <2>2, <3>2 DEF TokenInv
    <2>3. CASE WriteMove
      <3>1. pc.fn = "sums"
        BY <1>5, <1>f, <2>3 DEF WriteMove
      <3> QED
        BY <2>1, <3>1
    <2>4. CASE NoMove
      BY <1>5, <2>1, <2>2, <2>4 DEF NoMove
    <2>5. CASE ReadMove
      BY <2>1, <2>5 DEF ReadMove
    <2>6. CASE LastMove
      BY <1>5, <1>f, <2>6 DEF LastMove, Start, At
    <2> QED
      BY <1>m, <2>3, <2>4, <2>5, <2>6
  <1> QED
    BY <1>0, <1>1, <1>2, <1>3, <1>4, <1>5 DEF TokenInv

\* A bus edge shows the host end flags of engines that are done.
LEMMA BusTickFlag ==
    ASSUME TypeInv, PhaseInv, WriteInv, StartInv, NEW go \in BOOLEAN, BusTick(go),
           NEW c \in Channels, SeenInv(c), TokenInv(c), FlagInv(c)
    PROVE  FlagInv(c)'
  <1>0. /\ out' = dma.ctl /\ start_rr' = start_rr /\ end_o' = end_o /\ eng' = eng
    BY BusRegisters, BusTickChannel DEF glue
  <1>m. WriteMove \/ ReadMove \/ LastMove \/ NoMove
    BY HostMoves
  <1>p. /\ Late' \/ dma.ctl.start \/ out.start => run' = run /\ Job' = Job /\ begun' = begun
        /\ Settled => Late /\ ~dma.ctl.start /\ ~out.start /\ ~out_prev.start
    BY BusTickPhases
  <1>v. /\ Over' /\ ~Over => out.start /\ c \in start_r /\ c \in start_rr
        /\ dma.ctl.start /\ ~out.start => c \notin start_r /\ c \notin start_rr
    BY BusTickView
  <1>f. "poll" # "sums" /\ "run" # "poll" /\ "run" # "sums" /\ "config" # "poll" /\ "config" # "sums"
    OBVIOUS
  <1>d. ASSUME run' = run, begun' = begun PROVE \A s \in Sides : Done(c, s)' <=> Done(c, s)
    BY <1>0, <1>d DEF Done, GoodSum
  <1>s. "wr" \in Sides /\ "rd" \in Sides
    BY DEF Sides
  <1>1. ASSUME Over' \/ (dma.ctl.start /\ c \in start_rr), NEW s \in Sides, c \in end_o[s]
        PROVE  Done(c, s)'
    <2>1. Late' \/ dma.ctl.start
      BY <1>1 DEF Over
    <2>2. run' = run /\ begun' = begun
      BY <1>p, <2>1
    <2>3. Over \/ (out.start /\ c \in start_rr)
      BY <1>1, <1>v
    <2>4. Done(c, s)
      BY <1>1, <2>3 DEF FlagInv
    <2> QED
      BY <1>d, <2>2, <2>4
  <1>2. ASSUME pc'.fn = "poll", r_cstate' = "RDATA"
        PROVE  (c \in dma'.end_wr => Done(c, "wr")') /\ (c \in dma'.end_rd => Done(c, "rd")')
    <2>1. NoMove
      BY <1>m, <1>2, <1>f DEF WriteMove, ReadMove, LastMove
    <2>2. pc.fn = "poll" /\ run' = run /\ begun' = begun /\ Access.op = "read" /\ w_cstate = "WIDLE"
      <3>1. pc' = pc /\ run' = run /\ begun' = begun
        BY <2>1 DEF NoMove
      <3>2. Access.op = "read"
        BY <1>2, <2>1 DEF NoMove, PhaseInv
      <3> QED
        BY <1>2, <3>1, <3>2 DEF PhaseInv
    <2>3. Settled
      <3>1. pc.step \in {2, 3}
        BY <2>2, AccessKinds DEF TypeInv, HostType
      <3>2. pc.step > 1
        BY <3>1
      <3> QED
        BY <2>2, <3>2 DEF Settled
    <2>4. Over
      BY <1>p, <2>3 DEF Over
    <2>5. dma'.end_wr = end_o["wr"] /\ dma'.end_rd = end_o["rd"]
      BY <2>2 DEF BusTick, RegisterFile, TypeInv, BusType, Files
    <2> QED
      BY <1>d, <1>s, <2>2, <2>4, <2>5 DEF FlagInv
  <1>3. ASSUME pc'.fn = "poll", pc'.step = 3, c \in endWr' PROVE Done(c, "wr")'
    <2>1. CASE ReadMove
      <3>1. /\ pc.fn = "poll" /\ r_cstate = "RDATA" /\ endWr' = dma.end_wr
            /\ run' = run /\ begun' = begun
        BY <1>3, <1>f, <2>1 DEF ReadMove
      <3> QED
        BY <1>3, <1>d, <1>s, <3>1 DEF FlagInv
    <2>2. CASE NoMove
      BY <1>3, <1>d, <1>s, <2>2 DEF NoMove, FlagInv
    <2>3. ~WriteMove /\ ~LastMove
      BY <1>3, <1>f DEF WriteMove, LastMove, Start, At
    <2> QED
      BY <1>m, <2>1, <2>2, <2>3
  <1>4. ASSUME pc'.fn = "sums", NEW s \in Sides, c \in Enabled(s)' PROVE Done(c, s)'
    <2>1. Late'
      BY <1>4 DEF Late
    <2>2. run' = run /\ begun' = begun /\ Job' = Job
      BY <1>p, <2>1
    <2>3. c \in Enabled(s)
      BY <1>4, <2>2 DEF Enabled
    <2>4. \/ pc.fn = "sums"
          \/ pc.fn = "poll" /\ pc.step = 3 /\ r_cstate = "RDATA" /\ PollSatisfied
      BY <1>m, <1>4, <1>f DEF WriteMove, ReadMove, LastMove, NoMove, Start, At
    <2>5. Done(c, s)
      BY <2>3, <2>4, PollOver
    <2> QED
      BY <1>d, <2>2, <2>5
  <1> QED
    BY <1>0, <1>1, <1>2, <1>3, <1>4 DEF FlagInv

\* What a memory edge shows a channel of the start bit and of the enables.
LEMMA MemTickView ==
    ASSUME TypeInv, WriteInv, StartInv, NEW d \in Clocks, NEW o \in Samples(d),
           NEW F \in SUBSET MayEnd(ClockedBy(d)), MemTick(d, o, F),
           NEW c \in Channels, Clock(c) = d, SeenInv(c)
    PROVE  /\ NotYet(c)' => NotYet(c) /\ ~o.start
           /\ NotYet(c) /\ ~NotYet(c)' => out.start /\ o.start
           /\ ~NotYet(c) => (o.start => c \in start_r)
           /\ Settled => ~o.start
           /\ ~NotYet(c) \/ ~NotYet(c)' => o.we = Job.we /\ o.re = Job.re
  <1>0. /\ dma' = dma /\ out' = out /\ out_prev' = out_prev /\ (Late' <=> Late)
        /\ (c \in start_r' <=> o.start)
    BY OwnChannel DEF MemTick, bus, host, Late
  <1>1. Like(o, out) \/ (o = out_prev /\ ~(mem_edges[d] > 0))
    BY FlagSample
  <1>2. NotYet(c)' <=> (out.start \/ dma.ctl.start \/ ~Late) /\ ~(out.start /\ o.start)
    BY <1>0 DEF NotYet
  <1>3. ~Like(o, out) => (c \in start_r <=> o.start)
    <2>1. mem_edges[d] > 0 \/ mem_edges[d] = 0
      BY MemTickOwn
    <2> QED
      BY <1>1, <2>1 DEF SeenInv, Like
  <1>4. dma.ctl # out => out = out_prev
    BY DEF WriteInv
  <1>5. ASSUME NotYet(c)' PROVE NotYet(c) /\ ~o.start
    <2>1. CASE out.start
      <3>1. ~o.start
        BY <1>2, <1>5, <2>1
      <3>2. ~Like(o, out)
        BY <2>1, <3>1 DEF Like
      <3> QED
        BY <1>3, <2>1, <3>1, <3>2 DEF NotYet
    <2>2. CASE ~out.start /\ dma.ctl.start
      <3>1. dma.ctl # out
        BY <2>2
      <3> QED
        BY <1>1, <1>4, <2>2, <3>1 DEF NotYet, Like
    <2>3. CASE ~out.start /\ ~dma.ctl.start /\ ~Late
      BY <1>1, <2>3 DEF NotYet, StartInv, Like
    <2> QED
      BY <1>2, <1>5, <2>1, <2>2, <2>3
  <1>6. ASSUME ~NotYet(c), o.start PROVE c \in start_r
    <2>1. CASE Like(o, out)
      BY <1>6, <2>1 DEF NotYet, Like
    <2>2. CASE ~Like(o, out)
      BY <1>3, <1>6, <2>2
    <2> QED
      BY <2>1, <2>2
  <1>7. Settled => ~o.start
    BY <1>1 DEF StartInv, Like
  <1>8. ASSUME ~NotYet(c) \/ ~NotYet(c)' PROVE o.we = Job.we /\ o.re = Job.re
    <2>1. Late \/ out.start
      BY <1>2, <1>8 DEF NotYet
    <2>2. Late \/ dma.ctl.start
      BY <2>1 DEF StartInv
    <2>3. Enables(out) /\ Enables(out_prev)
      BY <2>2 DEF StartInv
    <2> QED
      BY <1>1, <2>3 DEF Enables, Like
  <1> QED
    BY <1>2, <1>5, <1>6, <1>7, <1>8 DEF NotYet

\* An engine to which no start comes does nothing.
LEMMA EmptyStays ==
    ASSUME TypeInv, NEW d \in Clocks, NEW o \in Samples(d),
           NEW F \in SUBSET MayEnd(ClockedBy(d)), MemTick(d, o, F),
           NEW c \in Channels, Clock(c) = d, NEW s \in Sides, Empty(c, s),
           c \notin StartEdge \/ c \notin (IF s = "wr" THEN o.we ELSE o.re)
    PROVE  Empty(c, s)'
  <1>1. ~start_pipe'[c][s][1] /\ ~start_pipe'[c][s][2] /\ ~start_pipe'[c][s][3]
    BY OwnEngine DEF Empty
  <1>2. ~start_pipe[c][s][3] /\ eng[c][s].busy = 0 /\ begun[c][s] = 0
    BY DEF Empty
  <1>3. eng[c][s].busy # MinBusy
    BY <1>2, Numbers
  <1>4. /\ begun'[c][s] = begun[c][s] /\ (eng'[c][s].busy = 0 <=> eng[c][s].busy = 0)
        /\ ~eng'[c][s].end
    BY <1>2, <1>3, OwnEngine
  <1> QED
    BY <1>1, <1>2, <1>4 DEF Empty

\* An engine that is done stays done.
LEMMA DoneStays ==
    ASSUME TypeInv, NEW d \in Clocks, NEW o \in Samples(d),
           NEW F \in SUBSET MayEnd(ClockedBy(d)), MemTick(d, o, F),
           NEW c \in Channels, Clock(c) = d, NEW s \in Sides, Token(c, s),
           begun[c][s] = 1, eng[c][s].busy = 0
    PROVE  Done(c, s)'
  <1>1. ~start_pipe[c][s][3] /\ GoodSum(eng[c][s].sum, c)
    <2>1. begun[c][s] # 0
      OBVIOUS
    <2> QED
      BY <2>1 DEF Token
  <1>2. eng[c][s].busy # MinBusy
    BY Numbers
  <1>3. /\ begun'[c][s] = begun[c][s] /\ (eng'[c][s].busy = 0 <=> eng[c][s].busy = 0)
        /\ eng'[c][s].sum = eng[c][s].sum /\ ~eng'[c][s].end
    BY <1>1, <1>2, OwnEngine
  <1>4. run' = run
    BY DEF MemTick, host
  <1> QED
    BY <1>1, <1>3, <1>4 DEF Done, GoodSum

\* A channel that samples the start bit holds good parameters then, and its
\* enabled engine waits.
LEMMA TokenComes ==
    ASSUME TypeInv, NEW d \in Clocks, NEW o \in Samples(d),
           NEW F \in SUBSET MayEnd(ClockedBy(d)), MemTick(d, o, F),
           NEW c \in Channels, Clock(c) = d, NEW s \in Sides, Empty(c, s),
           c \notin start_r, GoodJob(lt_params[c].wr, c), GoodJob(lt_params[c].rd, c)
    PROVE  Token(c, s)'
  <1>1. c \notin StartEdge
    BY DEF StartEdge
  <1>2. Empty(c, s)'
    BY <1>1, EmptyStays
  <1>3. pipe'[c][1] = lt_params[c] /\ run' = run /\ Job' = Job
    BY OwnChannel DEF MemTick, host, Job
  <1>4. GoodPipe(c, 1)'
    BY <1>3 DEF GoodPipe, GoodJob, Good, AllParams
  <1>5. /\ ~start_pipe'[c][s][1] /\ ~start_pipe'[c][s][2] /\ ~start_pipe'[c][s][3]
        /\ begun'[c][s] = 0 /\ eng'[c][s].busy = 0 /\ ~eng'[c][s].end
    BY <1>2 DEF Empty
  <1>6. begun'[c][s] # 1 /\ begun'[c][s] \in {0, 1}
    BY <1>5
  <1> QED
    BY <1>4, <1>5, <1>6 DEF Token

\* An enabled engine's start moves on with its parameters, and begins it once.
LEMMA TokenStays ==
    ASSUME TypeInv, NEW d \in Clocks, NEW o \in Samples(d),
           NEW F \in SUBSET MayEnd(ClockedBy(d)), MemTick(d, o, F),
           NEW c \in Channels, Clock(c) = d, NEW s \in Sides, Token(c, s),
           c \in (IF s = "wr" THEN o.we ELSE o.re), o.start => c \in start_r,
           c \in StartEdge => GoodJob(lt_params[c].wr, c) /\ GoodJob(lt_params[c].rd, c)
    PROVE  Token(c, s)'
  <1>0. /\ run' = run /\ Job' = Job /\ MinBusy > 0 /\ begun[c][s] \in {0, 1}
        /\ eng[c][s].busy \in Nat
    BY Numbers DEF MemTick, host, Job, Token, TypeInv, GlueType, EngineStates
  <1>1. /\ pipe'[c][1] = lt_params[c] /\ pipe'[c][2] = pipe[c][1] /\ pipe'[c][3] = pipe[c][2]
        /\ (c \in start_r' <=> o.start) /\ (c \in start_rr' <=> c \in start_r)
    BY OwnChannel
  <1>2. c \notin StartEdge'
    BY <1>1 DEF StartEdge
  <1>3. /\ start_pipe'[c][s][1] <=> c \in StartEdge
        /\ start_pipe'[c][s][2] <=> start_pipe[c][s][1]
        /\ start_pipe'[c][s][3] <=> start_pipe[c][s][2]
    BY OwnEngine
  <1>4. /\ c \in StartEdge => GoodPipe(c, 1)'
        /\ GoodPipe(c, 1) => GoodPipe(c, 2)'
        /\ GoodPipe(c, 2) => GoodPipe(c, 3)'
    BY <1>0, <1>1 DEF GoodPipe, GoodJob, Good, AllParams
  <1>5. ~start_pipe[c][s][3] => begun'[c][s] = begun[c][s]
    BY OwnEngine
  <1>6. /\ start_pipe'[c][s][1] => GoodPipe(c, 1)' /\ GoodPipe(c, 2)' /\ begun'[c][s] = 0
        /\ start_pipe'[c][s][2] => GoodPipe(c, 2)' /\ GoodPipe(c, 3)' /\ begun'[c][s] = 0
        /\ start_pipe'[c][s][3] => GoodPipe(c, 3)' /\ begun'[c][s] = 0
    BY <1>3, <1>4, <1>5 DEF Token
  <1>7. /\ start_pipe'[c][s][1] => ~start_pipe'[c][s][2] /\ ~start_pipe'[c][s][3]
        /\ start_pipe'[c][s][2] => ~start_pipe'[c][s][3]
    BY <1>3 DEF Token
  <1>8. /\ begun'[c][s] \in {0, 1}
        /\ begun'[c][s] = 0 => eng'[c][s].busy = 0 /\ ~eng'[c][s].end
        /\ begun'[c][s] = 1 /\ eng'[c][s].busy > 0 => GoodJob(eng[c][s].job, c)' /\ ~eng'[c][s].end
        /\ begun'[c][s] = 1 /\ eng'[c][s].busy = 0 => GoodSum(eng[c][s].sum, c)'
    <2>1. CASE /\ start_pipe[c][s][3] /\ eng[c][s].busy = 0
               /\ begun'[c][s] = begun[c][s] + 1
               /\ eng'[c][s] = [busy |-> 1, job |-> pipe[c][3][s], end |-> FALSE, sum |-> NoSum]
      <3>1. begun[c][s] = 0 /\ GoodPipe(c, 3)
        BY <2>1 DEF Token
      <3>2. eng'[c][s].busy = 1 /\ eng'[c][s].job = pipe[c][3][s] /\ ~eng'[c][s].end
        BY <2>1
      <3>3. begun'[c][s] = 1
        BY <2>1, <3>1
      <3>4. GoodJob(pipe[c][3][s], c)
        BY <3>1 DEF GoodPipe, Sides
      <3>5. GoodJob(eng[c][s].job, c)'
        BY <1>0, <3>2, <3>4 DEF GoodJob, Good, AllParams
      <3>6. begun'[c][s] # 0 /\ eng'[c][s].busy # 0
        BY <3>2, <3>3
      <3> QED
        BY <3>2, <3>3, <3>5, <3>6
    <2>2. CASE /\ eng[c][s].busy = MinBusy /\ begun'[c][s] = begun[c][s]
               /\ eng'[c][s].busy = 0 /\ eng'[c][s].end /\ eng'[c][s].sum.final
               /\ eng'[c][s].sum.prm = eng[c][s].job.prm
      <3>1. eng[c][s].busy > 0 /\ eng[c][s].busy # 0
        BY <1>0, <2>2
      <3>2. begun[c][s] = 1
        BY <1>0, <3>1 DEF Token
      <3>3. GoodJob(eng[c][s].job, c)
        BY <3>1, <3>2 DEF Token
      <3>4. eng'[c][s].sum.final /\ eng'[c][s].sum.prm = eng[c][s].job.prm
        BY <2>2
      <3>5. GoodSum(eng[c][s].sum, c)'
        BY <1>0, <3>3, <3>4 DEF GoodSum, GoodJob, Good, AllParams
      <3>6. begun'[c][s] = 1 /\ begun'[c][s] # 0 /\ ~(eng'[c][s].busy > 0)
        BY <2>2, <3>2
      <3> QED
        BY <3>5, <3>6
    <2>3. CASE /\ begun'[c][s] = begun[c][s]
               /\ eng'[c][s].busy \in 0 .. MinBusy /\ (eng'[c][s].busy = 0 <=> eng[c][s].busy = 0)
               /\ eng'[c][s].job = eng[c][s].job /\ eng'[c][s].sum = eng[c][s].sum
               /\ ~eng'[c][s].end
      <3>1. eng'[c][s].busy > 0 => eng[c][s].busy > 0
        BY <1>0, <2>3, Numbers
      <3>2. /\ GoodJob(eng[c][s].job, c)' <=> GoodJob(eng[c][s].job, c)
            /\ GoodSum(eng[c][s].sum, c)' <=> GoodSum(eng[c][s].sum, c)
        BY <1>0, <2>3 DEF GoodJob, Good, GoodSum, AllParams
      <3> QED
        BY <1>0, <2>3, <3>1, <3>2 DEF Token
    <2> QED
      BY <2>1, <2>2, <2>3, OwnEngine
  <1> QED
    BY <1>2, <1>6, <1>7, <1>8 DEF Token

\* A memory edge keeps the start of every engine in its place.
LEMMA MemTickToken ==
    ASSUME TypeInv, PhaseInv, WriteInv, StartInv,
           NEW d \in Clocks, NEW o \in Samples(d),
           NEW F \in SUBSET MayEnd(ClockedBy(d)), MemTick(d, o, F),
           NEW c \in Channels, SeenInv(c), ParamsInv(c), TokenInv(c)
    PROVE  TokenInv(c)'
  <1>0. /\ dma' = dma /\ out' = out /\ pc' = pc /\ run' = run /\ Job' = Job /\ r_cstate' = r_cstate
        /\ (Late' <=> Late) /\ (Settled' <=> Settled) /\ (Over' <=> Over)
    BY DEF MemTick, bus, host, Job, Late, Settled, Over
  <1>e. \A s \in Sides : Enabled(s)' = Enabled(s)
    BY <1>0 DEF Enabled
  <1>1. CASE Clock(c) # d
    <2>1. /\ lt_params'[c] = lt_params[c] /\ pipe'[c] = pipe[c]
          /\ (c \in start_r' <=> c \in start_r) /\ (c \in start_rr' <=> c \in start_rr)
          /\ \A s \in Sides : /\ start_pipe'[c][s] = start_pipe[c][s]
                              /\ eng'[c][s] = eng[c][s] /\ begun'[c][s] = begun[c][s]
      BY <1>1, OtherChannel
    <2>2. Clock(c)' = Clock(c) /\ mem_edges'[Clock(c)'] = mem_edges[Clock(c)]
      BY <1>1, MemTickOther
    <2>3. NotYet(c)' <=> NotYet(c)
      BY <1>0, <2>1 DEF NotYet
    <2>4. ASSUME NEW s \in Sides
          PROVE  (Token(c, s)' <=> Token(c, s)) /\ (Empty(c, s)' <=> Empty(c, s))
      <3>1. /\ start_pipe'[c][s] = start_pipe[c][s]
            /\ eng'[c][s] = eng[c][s] /\ begun'[c][s] = begun[c][s]
        BY <2>1
      <3>2. /\ GoodPipe(c, 1)' <=> GoodPipe(c, 1)
            /\ GoodPipe(c, 2)' <=> GoodPipe(c, 2)
            /\ GoodPipe(c, 3)' <=> GoodPipe(c, 3)
        BY <1>0, <2>1 DEF GoodPipe, GoodJob, Good, AllParams
      <3>3. /\ GoodJob(eng[c][s].job, c)' <=> GoodJob(eng[c][s].job, c)
            /\ GoodSum(eng[c][s].sum, c)' <=> GoodSum(eng[c][s].sum, c)
        BY <1>0, <3>1 DEF GoodJob, Good, GoodSum, AllParams
      <3>4. c \in StartEdge' <=> c \in StartEdge
        BY <2>1 DEF StartEdge
      <3> QED
        BY <3>1, <3>2, <3>3, <3>4 DEF Token, Empty
    <2>5. (NotYet(c) => c \notin start_r /\ c \notin start_rr /\ \A s \in Sides : Empty(c, s))'
      BY <2>1, <2>3, <2>4 DEF TokenInv
    <2>6. (~NotYet(c) =>
               \A s \in Sides : IF c \in Enabled(s) THEN Token(c, s) ELSE Empty(c, s))'
      BY <1>e, <2>3, <2>4 DEF TokenInv
    <2> QED
      BY <1>0, <2>1, <2>2, <2>5, <2>6 DEF TokenInv
  <1>2. CASE Clock(c) = d
    <2>v. /\ NotYet(c)' => NotYet(c) /\ ~o.start
          /\ NotYet(c) /\ ~NotYet(c)' => out.start /\ o.start
          /\ ~NotYet(c) => (o.start => c \in start_r)
          /\ Settled => ~o.start
          /\ ~NotYet(c) \/ ~NotYet(c)' => o.we = Job.we /\ o.re = Job.re
      BY <1>2, MemTickView
    <2>r. (c \in start_r' <=> o.start) /\ (c \in start_rr' <=> c \in start_r)
      BY <1>2, OwnChannel
    <2>1. ASSUME NotYet(c)'
          PROVE  c \notin start_r' /\ c \notin start_rr' /\ \A s \in Sides : Empty(c, s)'
      <3>1. c \notin start_r /\ ~o.start /\ \A s \in Sides : Empty(c, s)
        BY <2>1, <2>v DEF TokenInv
      <3>2. c \notin StartEdge
        BY <3>1 DEF StartEdge
      <3> QED
        BY <1>2, <2>r, <3>1, <3>2, EmptyStays
    <2>2. ASSUME ~NotYet(c)', NEW s \in Sides
          PROVE  IF c \in Enabled(s) THEN Token(c, s)' ELSE Empty(c, s)'
      <3>0. Enabled(s) = IF s = "wr" THEN o.we ELSE o.re
        BY <2>2, <2>v DEF Enabled
      <3>1. CASE NotYet(c)
        <4>1. c \notin start_r /\ Empty(c, s) /\ out.start
          BY <2>2, <2>v, <3>1 DEF TokenInv
        <4>2. GoodJob(lt_params[c].wr, c) /\ GoodJob(lt_params[c].rd, c)
          BY <4>1 DEF ParamsInv, GoodJob
        <4>3. Token(c, s)'
          BY <1>2, <4>1, <4>2, TokenComes
        <4>4. Empty(c, s)'
          BY <1>2, <4>1, EmptyStays DEF StartEdge
        <4> QED
          BY <4>3, <4>4
      <3>2. CASE ~NotYet(c) /\ c \in Enabled(s)
        <4>1. Token(c, s) /\ (o.start => c \in start_r)
          BY <2>v, <3>2 DEF TokenInv
        <4>2. ASSUME c \in StartEdge PROVE GoodJob(lt_params[c].wr, c) /\ GoodJob(lt_params[c].rd, c)
          <5>1. c \in start_r /\ c \notin start_rr
            BY <4>2 DEF StartEdge
          <5>2. ~Over
            BY <5>1 DEF TokenInv
          <5>3. out.start
            BY <3>2, <5>2 DEF NotYet, Over
          <5> QED
            BY <5>3 DEF ParamsInv, GoodJob
        <4>3. Token(c, s)'
          BY <1>2, <3>0, <3>2, <4>1, <4>2, TokenStays
        <4> QED
          BY <3>2, <4>3
      <3>3. CASE ~NotYet(c) /\ c \notin Enabled(s)
        <4>1. Empty(c, s)
          BY <3>3 DEF TokenInv
        <4>2. Empty(c, s)'
          BY <1>2, <3>0, <3>3, <4>1, EmptyStays
        <4> QED
          BY <3>3, <4>2
      <3> QED
        BY <3>1, <3>2, <3>3
    <2>3. ASSUME Over, c \in start_r' PROVE c \in start_rr'
      <3>1. ~NotYet(c)
        BY <2>3 DEF NotYet, Over
      <3> QED
        BY <2>3, <2>r, <2>v, <3>1
    <2>4. ASSUME Settled PROVE c \notin start_r' /\ c \notin start_rr'
      BY <2>4, <2>r, <2>v DEF TokenInv
    <2>5. ASSUME (pc.fn = "poll" /\ pc.step > 1) \/ (pc.fn = "poll" /\ r_cstate = "RDATA")
                 \/ (pc.fn = "poll" /\ pc.step = 3) \/ pc.fn = "sums"
          PROVE  Settled
      <3>1. ASSUME pc.fn = "poll", r_cstate = "RDATA" PROVE pc.step \in {2, 3}
        BY <3>1, AccessKinds DEF PhaseInv, TypeInv, HostType
      <3>2. pc.step \in {2, 3} => pc.step > 1
        OBVIOUS
      <3> QED
        BY <2>5, <3>1, <3>2 DEF Settled
    <2>6. (NotYet(c) => c \notin start_r /\ c \notin start_rr /\ \A s \in Sides : Empty(c, s))'
      BY <2>1
    <2>7. (~NotYet(c) =>
               \A s \in Sides : IF c \in Enabled(s) THEN Token(c, s) ELSE Empty(c, s))'
      BY <1>e, <2>2
    <2> QED
      BY <1>0, <2>3, <2>4, <2>5, <2>6, <2>7 DEF TokenInv
  <1> QED
    BY <1>1, <1>2

\* A memory edge raises the end flag of a channel only for an engine that is done.
LEMMA MemTickFlag ==
    ASSUME TypeInv, PhaseInv, WriteInv, StartInv,
           NEW d \in Clocks, NEW o \in Samples(d),
           NEW F \in SUBSET MayEnd(ClockedBy(d)), MemTick(d, o, F),
           NEW c \in Channels, SeenInv(c), TokenInv(c), FlagInv(c)
    PROVE  FlagInv(c)'
  <1>0. /\ dma' = dma /\ out' = out /\ pc' = pc /\ run' = run /\ endWr' = endWr
        /\ r_cstate' = r_cstate /\ (Over' <=> Over)
        /\ \A s \in Sides : Enabled(s)' = Enabled(s)
    BY DEF MemTick, bus, host, Job, Late, Over, Enabled
  <1>s. "wr" \in Sides /\ "rd" \in Sides
    BY DEF Sides
  <1>1. CASE Clock(c) # d
    <2>1. /\ (c \in start_rr' <=> c \in start_rr)
          /\ \A s \in Sides : /\ eng'[c][s] = eng[c][s] /\ begun'[c][s] = begun[c][s]
                              /\ c \in end_o'[s] <=> c \in end_o[s]
      BY <1>1, OtherChannel
    <2>2. \A s \in Sides : Done(c, s)' <=> Done(c, s)
      BY <1>0, <2>1 DEF Done, GoodSum
    <2> QED
      BY <1>0, <1>s, <2>1, <2>2 DEF FlagInv
  <1>2. CASE Clock(c) = d
    <2>r. c \in start_rr' <=> c \in start_r
      BY <1>2, OwnChannel
    <2>1. ASSUME NEW s \in Sides, ~NotYet(c), Done(c, s) PROVE Done(c, s)'
      <3>1. begun[c][s] = 1 /\ begun[c][s] # 0 /\ eng[c][s].busy = 0
        BY <2>1 DEF Done
      <3>2. Token(c, s)
        BY <2>1, <3>1 DEF TokenInv, Empty
      <3> QED
        BY <1>2, <3>1, <3>2, DoneStays
    <2>2. ASSUME NEW s \in Sides, ~NotYet(c), eng[c][s].end PROVE Done(c, s)'
      <3>1. Token(c, s)
        BY <2>2 DEF TokenInv, Empty
      <3>2. eng[c][s].busy \in Nat
        BY Numbers DEF TypeInv, GlueType, EngineStates
      <3>3. begun[c][s] = 1 /\ ~(eng[c][s].busy > 0)
        BY <2>2, <3>1 DEF Token
      <3>4. eng[c][s].busy = 0
        BY <3>2, <3>3
      <3> QED
        BY <1>2, <3>1, <3>3, <3>4, DoneStays
    <2>3. Over => ~NotYet(c)
      BY DEF Over, NotYet
    <2>4. ASSUME Over \/ (out.start /\ c \in start_rr'), NEW s \in Sides, c \in end_o'[s]
          PROVE  Done(c, s)'
      <3>1. c \notin StartEdge /\ (c \in end_o[s] \/ eng[c][s].end)
        BY <1>2, <2>4, OwnEngine
      <3>2. Over \/ (out.start /\ c \in start_r /\ c \in start_rr)
        BY <2>4, <2>r, <3>1 DEF StartEdge
      <3>3. ~NotYet(c)
        BY <2>3, <3>2 DEF NotYet
      <3>4. c \in end_o[s] => Done(c, s)
        BY <3>2 DEF FlagInv
      <3> QED
        BY <2>1, <2>2, <3>1, <3>3, <3>4
    <2>5. ASSUME (pc.fn = "poll" /\ r_cstate = "RDATA") \/ (pc.fn = "poll" /\ pc.step = 3)
                 \/ pc.fn = "sums"
          PROVE  ~NotYet(c)
      <3>1. ASSUME pc.fn = "poll", r_cstate = "RDATA" PROVE pc.step \in {2, 3}
        BY <3>1, AccessKinds DEF PhaseInv, TypeInv, HostType
      <3>2. pc.step \in {2, 3} => pc.step > 1
        OBVIOUS
      <3>3. Settled
        BY <2>5, <3>1, <3>2 DEF Settled
      <3>4. Over
        BY <2>5, <3>3 DEF Over, Late, StartInv
      <3> QED
        BY <2>3, <3>4
    <2> QED
      BY <1>0, <1>s, <2>1, <2>4, <2>5 DEF FlagInv
  <1> QED
    BY <1>1, <1>2

-----------------------------------------------------------------------------
(***************************************************************************)
(* The invariants together.                                                 *)
(***************************************************************************)
\* They hold after reset.
LEMMA ControlInit == Init => ControlInv
  <1> SUFFICES ASSUME Init PROVE ControlInv
    OBVIOUS
  <1>0. TypeInv /\ PhaseInv /\ L \in Nat
    BY TypeInit, RegisterFacts
  <1>1. /\ pc.fn = "config" /\ pc.chan = 0 /\ pc.step = 1
        /\ w_cstate = "WIDLE" /\ r_cstate = "RIDLE" /\ gap = 0
    BY DEF Init, Start, At
  <1>2. dma.ctl = out /\ out = out_prev /\ ~out.start
    BY DEF Init, Control0
  <1>3. ~Late /\ ~Settled
    BY <1>1 DEF Late, Settled
  <1>4. Expect(dma.ctl, pc, pc.step)
    BY <1>0, <1>1, <1>2 DEF Expect
  <1>5. WriteInv
    BY <1>1, <1>2, <1>4 DEF WriteInv, OneChange
  <1>6. StartInv /\ SwitchInv
    BY <1>2, <1>3 DEF StartInv, SwitchInv
  <1>7. ASSUME NEW c \in Channels
        PROVE  SeenInv(c) /\ ConfInv(c) /\ ParamsInv(c) /\ TokenInv(c) /\ FlagInv(c)
    <2>1. mem_edges[Clock(c)] = 0
      BY DEF Init, Clocks, Clock
    <2>2. SeenInv(c)
      BY <1>2, <2>1 DEF SeenInv
    <2>3. ~(0 > c)
      BY Numbers
    <2>4. ConfInv(c) /\ ParamsInv(c)
      BY <1>1, <1>2, <2>3 DEF ConfInv, Past, ParamsInv
    <2>5. NotYet(c) /\ ~Over
      BY <1>2, <1>3 DEF NotYet, Over
    <2>6. \A s \in Sides : Empty(c, s)
      BY DEF Init, Empty
    <2>7. c \notin start_r /\ c \notin start_rr
      BY DEF Init
    <2>8. TokenInv(c)
      BY <1>1, <1>3, <2>5, <2>6, <2>7 DEF TokenInv
    <2>9. FlagInv(c)
      BY <1>1, <1>2, <2>5 DEF FlagInv
    <2> QED
      BY <2>2, <2>4, <2>8, <2>9
  <1> QED
    BY <1>0, <1>5, <1>6, <1>7 DEF ControlInv, ChannelInv

\* What the host and the register file know of each other is theirs alone.
LEMMA HostBusSame ==
    ASSUME UNCHANGED <<host, bus>>, WriteInv, StartInv, SwitchInv
    PROVE  WriteInv' /\ StartInv' /\ SwitchInv'
  <1>0. /\ board' = board /\ run' = run /\ pc' = pc
        /\ w_cstate' = w_cstate /\ gap' = gap /\ dma' = dma /\ out' = out /\ out_prev' = out_prev
    BY DEF host, bus
  <1>1. Job' = Job /\ Access' = Access
    BY <1>0, SameAccess
  <1>2. /\ Expect(dma.ctl, pc, pc.step)' <=> Expect(dma.ctl, pc, pc.step)
        /\ Expect(dma.ctl, pc, pc.step + 1)' <=> Expect(dma.ctl, pc, pc.step + 1)
    BY <1>0, <1>1 DEF Expect, Configured, Enables, ParamsTo
  <1>3. WriteInv'
    BY <1>0, <1>1, <1>2 DEF WriteInv, Still, OneChange
  <1>4. StartInv'
    BY <1>0, <1>1 DEF StartInv, Late, Settled, Enables, Core, Good, AllParams, Word
  <1>5. SwitchInv'
    BY <1>0, <1>1 DEF SwitchInv, Past, Plain, AllParams, Word
  <1> QED
    BY <1>3, <1>4, <1>5

\* When nothing changes they hold on.
LEMMA ControlStutter ==
    ASSUME ControlInv, UNCHANGED vars
    PROVE  ControlInv'
  <1>1. TypeInv' /\ PhaseInv'
    BY TypeStep DEF ControlInv
  <1>2. WriteInv' /\ StartInv' /\ SwitchInv'
    BY HostBusSame DEF ControlInv, vars
  <1>0. /\ dma' = dma /\ out' = out /\ out_prev' = out_prev /\ pc' = pc /\ run' = run
        /\ board' = board /\ endWr' = endWr /\ r_cstate' = r_cstate /\ Job' = Job
        /\ lt_params' = lt_params /\ pipe' = pipe /\ start_r' = start_r /\ start_rr' = start_rr
        /\ start_pipe' = start_pipe /\ end_o' = end_o /\ eng' = eng /\ begun' = begun
        /\ mem_edges' = mem_edges
    BY DEF vars, host, bus, glue, Job
  <1>3. ASSUME NEW c \in Channels
        PROVE  (SeenInv(c) /\ ConfInv(c) /\ ParamsInv(c) /\ TokenInv(c) /\ FlagInv(c))'
    <2>1. SeenInv(c) /\ ConfInv(c) /\ ParamsInv(c) /\ TokenInv(c) /\ FlagInv(c)
      BY DEF ControlInv, ChannelInv
    <2>2. SeenInv(c)' /\ ConfInv(c)' /\ ParamsInv(c)'
      BY <1>0, <2>1 DEF SeenInv, Saw, SawTwice, Both, Word, Clock, ConfInv, Past, ParamsInv,
                        Plain, Good, AllParams
    <2>3. /\ NotYet(c)' <=> NotYet(c)
          /\ Over' <=> Over
          /\ Settled' <=> Settled
          /\ mem_edges'[Clock(c)'] = mem_edges[Clock(c)]
      BY <1>0 DEF NotYet, Over, Settled, Late, Clock
    <2>4. ASSUME NEW s \in Sides
          PROVE  /\ Token(c, s)' <=> Token(c, s)
                 /\ Empty(c, s)' <=> Empty(c, s)
                 /\ Done(c, s)' <=> Done(c, s)
                 /\ Enabled(s)' = Enabled(s)
      BY <1>0 DEF Token, Empty, Done, StartEdge, GoodPipe, GoodSum, GoodJob, Good, AllParams,
                  Enabled
    <2>5. TokenInv(c)'
      BY <1>0, <2>1, <2>3, <2>4 DEF TokenInv
    <2>6. "wr" \in Sides /\ "rd" \in Sides
      BY DEF Sides
    <2>7. FlagInv(c)'
      BY <1>0, <2>1, <2>3, <2>4, <2>6 DEF FlagInv
    <2> QED
      BY <2>2, <2>5, <2>7
  <1> QED
    BY <1>1, <1>2, <1>3 DEF ControlInv, ChannelInv

\* Every step keeps them.
LEMMA ControlStep == ControlInv /\ [Next]_vars => ControlInv'
  <1> SUFFICES ASSUME ControlInv, [Next]_vars PROVE ControlInv'
    OBVIOUS
  <1>0. /\ TypeInv /\ PhaseInv /\ WriteInv /\ StartInv /\ SwitchInv
        /\ \A c \in Channels :
              SeenInv(c) /\ ConfInv(c) /\ ParamsInv(c) /\ TokenInv(c) /\ FlagInv(c)
    BY DEF ControlInv, ChannelInv
  <1>t. TypeInv' /\ PhaseInv'
    BY <1>0, TypeStep
  <1>1. ASSUME NEW go \in BOOLEAN, BusTick(go) PROVE ControlInv'
    <2>1. WriteInv' /\ StartInv' /\ SwitchInv'
      BY <1>0, <1>1, BusTickWrite, BusTickStart, BusTickSwitch
    <2>2. ASSUME NEW c \in Channels
          PROVE  (SeenInv(c) /\ ConfInv(c) /\ ParamsInv(c) /\ TokenInv(c) /\ FlagInv(c))'
      <3>1. SeenInv(c)' /\ ConfInv(c)' /\ ParamsInv(c)'
        BY <1>0, <1>1, BusTickSeen, BusTickConf, BusTickParams
      <3>2. TokenInv(c)' /\ FlagInv(c)'
        BY <1>0, <1>1, BusTickToken, BusTickFlag
      <3> QED
        BY <3>1, <3>2
    <2> QED
      BY <1>t, <2>1, <2>2 DEF ControlInv, ChannelInv
  <1>2. ASSUME NEW d \in Clocks, NEW o \in Samples(d),
               NEW F \in SUBSET MayEnd(ClockedBy(d)), MemTick(d, o, F)
        PROVE  ControlInv'
    <2>1. WriteInv' /\ StartInv' /\ SwitchInv'
      BY <1>0, <1>2, HostBusSame DEF MemTick
    <2>2. ASSUME NEW c \in Channels
          PROVE  (SeenInv(c) /\ ConfInv(c) /\ ParamsInv(c) /\ TokenInv(c) /\ FlagInv(c))'
      <3>1. SeenInv(c)' /\ ConfInv(c)' /\ ParamsInv(c)'
        BY <1>0, <1>2, MemTickSeen, MemTickConf, MemTickParams
      <3>2. TokenInv(c)' /\ FlagInv(c)'
        BY <1>0, <1>2, MemTickToken, MemTickFlag
      <3> QED
        BY <3>1, <3>2
    <2> QED
      BY <1>t, <2>1, <2>2 DEF ControlInv, ChannelInv
  <1>3. CASE UNCHANGED vars
    BY <1>3, ControlStutter
  <1> QED
    BY <1>1, <1>2, <1>3 DEF Next, MemStep, Finished

\* They hold always.
LEMMA ControlHolds == Spec => []ControlInv
  BY ControlInit, ControlStep, PTL DEF Spec

-----------------------------------------------------------------------------
(***************************************************************************)
(* What the host and the engines get from it.                               *)
(***************************************************************************)
\* The parameters the host writes for a channel reach that channel's engines
\* whole and before their start, whatever the clocks of the channels
\* (FpgaController.cpp: configHBM, runHBMtest; hbm_benchmark.sv: lt_params).
THEOREM JobsConfigured == WholeSamples => (Spec => []JobAsConfigured)
  <1> SUFFICES ASSUME WholeSamples PROVE Spec => []JobAsConfigured
    OBVIOUS
  <1>1. ControlInv => JobAsConfigured
    <2> SUFFICES ASSUME ControlInv, NEW c \in Channels, NEW s \in Sides, eng[c][s].busy > 0
                 PROVE  /\ \A k \in ToSet(ParamRegs) : eng[c][s].job.prm[k] = <<run, c>>
                        /\ s = "rd" => (eng[c][s].job.lat <=> Job.lat /\ Job.latch = c)
      BY DEF JobAsConfigured
    <2>1. TokenInv(c) /\ eng[c][s].busy # 0
      BY DEF ControlInv, ChannelInv
    <2>2. Token(c, s)
      BY <2>1 DEF TokenInv, Empty
    <2>3. begun[c][s] = 1
      BY <2>1, <2>2 DEF Token
    <2>4. Good(eng[c][s].job, c)
      BY <2>2, <2>3 DEF Token, GoodJob
    <2> QED
      BY <2>4 DEF Good, AllParams, Registers
  <1> QED
    BY <1>1, ControlHolds, PTL

\* One write of the start bit begins every enabled engine once and no other, and
\* the poll of the end flags ends only when all of them have ended
\* (hbm_benchmark.sv: start_r, start_rr; FpgaController.cpp: readHBMData).
THEOREM OneRun == Spec => []OneRunPerStart
  <1>1. ControlInv => OneRunPerStart
    <2> SUFFICES ASSUME ControlInv, NEW c \in Channels, NEW s \in Sides
                 PROVE  /\ begun[c][s] <= (IF c \in Enabled(s) THEN 1 ELSE 0)
                        /\ Polled /\ c \in Enabled(s) => begun[c][s] = 1 /\ eng[c][s].busy = 0
      BY DEF OneRunPerStart
    <2>1. TokenInv(c) /\ FlagInv(c)
      BY DEF ControlInv, ChannelInv
    <2>2. IF c \in Enabled(s) THEN begun[c][s] \in {0, 1} ELSE begun[c][s] = 0
      BY <2>1 DEF TokenInv, Token, Empty
    <2>3. Polled /\ c \in Enabled(s) => begun[c][s] = 1 /\ eng[c][s].busy = 0
      BY <2>1 DEF Polled, FlagInv, Done
    <2> QED
      BY <2>2, <2>3
  <1> QED
    BY <1>1, ControlHolds, PTL

-----------------------------------------------------------------------------
(***************************************************************************)
(* The readout.  The bridge leaves at least one bus cycle between the write *)
(* that selects a channel and the read of its total.                        *)
(***************************************************************************)
\* While a total is read the register file shows the one asked for.
LEMMA SumStep ==
    ASSUME ReadGap >= 1, ControlInv, SumInv, [Next]_vars
    PROVE  SumInv'
  <1>0. /\ TypeInv /\ PhaseInv /\ WriteInv /\ StartInv
        /\ \A c \in Channels :
              SeenInv(c) /\ ConfInv(c) /\ ParamsInv(c) /\ TokenInv(c) /\ FlagInv(c)
    BY DEF ControlInv, ChannelInv
  <1>1. ASSUME NEW go \in BOOLEAN, BusTick(go) PROVE SumInv'
    <2>0. /\ pc \in Places /\ pc.step \in 1 .. Len(Calls) /\ pc.chan \in Channels /\ pc.side \in Sides
          /\ ReadGap \in Nat
      BY <1>0, Numbers DEF TypeInv, HostType, Places
    <2>m. WriteMove \/ ReadMove \/ LastMove \/ NoMove
      BY <1>0, <1>1, HostMoves
    <2>f. "poll" # "sums" /\ "run" # "sums" /\ "config" # "sums"
      OBVIOUS
    <2>1. ASSUME pc'.fn = "sums" PROVE pc'.chan \in Enabled(pc'.side) /\ run' = run /\ Job' = Job
      <3>1. Late'
        BY <2>1 DEF Late
      <3>2. run' = run /\ Job' = Job
        BY <1>0, <1>1, <3>1, BusTickPhases
      <3>3. pc'.chan \in Enabled(pc'.side)
        BY <2>m, <2>1, <2>f DEF WriteMove, ReadMove, LastMove, NoMove, Start, At, SumInv
      <3> QED
        BY <3>2, <3>3
    <2>2. (pc.fn = "sums" => pc.chan \in Enabled(pc.side))'
      BY <2>1 DEF Enabled
    <2>3. ASSUME pc'.fn = "sums", r_cstate' = "RDATA"
          PROVE  GoodSum(IF pc.side = "wr" THEN dma.sum_wr ELSE dma.sum_rd, pc.chan)'
      <3>1. NoMove
        BY <2>m, <2>3, <2>f DEF WriteMove, ReadMove, LastMove, Start, At
      <3>2. pc' = pc /\ run' = run /\ pc.fn = "sums"
        BY <2>3, <3>1 DEF NoMove
      <3>3. Access.op = "read" /\ gap = ReadGap /\ w_cstate = "WIDLE"
        BY <1>0, <2>3, <3>1 DEF NoMove, PhaseInv
      <3>4. pc.step = 2
        BY <2>0, <3>2, <3>3, AccessKinds
      <3>5. dma.ctl = out /\ Expect(dma.ctl, pc, pc.step)
        <4>1. gap >= 1 /\ w_cstate # "WBRSP"
          BY <3>3
        <4> QED
          BY <1>0, <3>3, <4>1 DEF WriteInv
      <3>6. pc.step > 1
        BY <3>4
      <3>7. out.chan = pc.chan
        BY <3>2, <3>5, <3>6 DEF Expect
      <3>8. dma'.sum_wr = eng[pc.chan]["wr"].sum /\ dma'.sum_rd = eng[pc.chan]["rd"].sum
        BY <1>0, <1>1, <3>3, <3>7 DEF BusTick, RegisterFile, TypeInv, BusType, Files
      <3>9. Done(pc.chan, pc.side)
        BY <1>0, <2>0, <3>2 DEF SumInv, FlagInv
      <3>10. GoodSum(eng[pc.chan][pc.side].sum, pc.chan)
        BY <3>9 DEF Done
      <3>11. (IF pc.side = "wr" THEN dma.sum_wr ELSE dma.sum_rd)' = eng[pc.chan][pc.side].sum
        BY <2>0, <3>2, <3>8 DEF Sides
      <3> QED
        BY <3>2, <3>10, <3>11 DEF GoodSum
    <2> QED
      BY <2>2, <2>3 DEF SumInv
  <1>2. CASE UNCHANGED <<host, bus>>
    <2>1. pc' = pc /\ run' = run /\ board' = board /\ r_cstate' = r_cstate /\ dma' = dma
      BY <1>2 DEF host, bus
    <2> QED
      BY <2>1 DEF SumInv, Enabled, Job, GoodSum
  <1> QED
    BY <1>1, <1>2 DEF Next, MemStep, MemTick, Finished, vars

\* A line of the report states its own channel's total of its own invocation.
LineOK(r) == r.sum.final /\ \A q \in ToSet(ParamRegs) : r.sum.prm[q] = <<r.run, r.chan>>

\* Every line that is added does.
LEMMA ReportStep ==
    ASSUME WholeSamples, ControlInv, SumInv, ReportIsOwnTotal, [Next]_vars
    PROVE  ReportIsOwnTotal'
  <1>0. TypeInv /\ PhaseInv /\ report \in [Sides -> Seq(Lines)] /\ pc.side \in Sides
    BY DEF ControlInv, TypeInv, HostType, Places
  <1>r. \A s \in Sides : \A k \in 1 .. Len(report[s]) : LineOK(report[s][k])
    BY DEF ReportIsOwnTotal, LineOK
  <1>1. CASE report' = report
    BY <1>1 DEF ReportIsOwnTotal
  <1>2. ASSUME NEW go \in BOOLEAN, BusTick(go), report' # report PROVE ReportIsOwnTotal'
    <2> DEFINE line == [run |-> run, chan |-> pc.chan,
                        sum |-> IF pc.side = "wr" THEN dma.sum_wr ELSE dma.sum_rd,
                        ops |-> NumOps[Job.latch]]
    <2>1. /\ r_cstate = "RDATA" /\ pc.fn = "sums"
          /\ report' = [report EXCEPT ![pc.side] = Append(@, line)]
      BY <1>0, <1>2, HostCases
    <2>2. LineOK(line)
      <3>1. GoodSum(line.sum, pc.chan)
        BY <2>1 DEF SumInv
      <3> QED
        BY <3>1 DEF LineOK, GoodSum, Registers
    <2> HIDE DEF line
    <2>3. ASSUME NEW s \in Sides, NEW k \in 1 .. Len(report'[s]) PROVE LineOK(report'[s][k])
      <3>1. CASE s # pc.side
        <4>1. report'[s] = report[s]
          BY <1>0, <2>1, <3>1
        <4> QED
          BY <1>r, <2>3, <4>1
      <3>2. CASE s = pc.side
        <4>1. report'[s] = Append(report[s], line) /\ report[s] \in Seq(Lines)
          BY <1>0, <2>1, <3>2
        <4>2. Len(report[s]) \in Nat /\ Len(report'[s]) = Len(report[s]) + 1
          BY <4>1
        <4>3. CASE k = Len(report[s]) + 1
          BY <2>2, <4>1, <4>3
        <4>4. CASE k # Len(report[s]) + 1
          <5>1. k \in 1 .. Len(report[s])
            BY <4>2, <4>4
          <5>2. report'[s][k] = report[s][k]
            BY <4>1, <5>1
          <5> QED
            BY <1>r, <5>1, <5>2
        <4> QED
          BY <4>3, <4>4
      <3> QED
        BY <3>1, <3>2
    <2> QED
      BY <2>3 DEF ReportIsOwnTotal, LineOK
  <1>3. ASSUME ~\E go \in BOOLEAN : BusTick(go) PROVE report' = report
    BY <1>3 DEF Next, MemStep, MemTick, Finished, vars, host
  <1> QED
    BY <1>1, <1>2, <1>3

\* What the host prints for a channel is that channel's total of that run, for
\* any clocks and any engine times, when the bridge leaves a bus cycle between a
\* write and a read (xdma_control.sv: the status registers follow hbm_channel).
THEOREM OwnTotals == WholeSamples /\ ReadGap >= 1 => (Spec => []ReportIsOwnTotal)
  <1> SUFFICES ASSUME WholeSamples, ReadGap >= 1 PROVE Spec => []ReportIsOwnTotal
    OBVIOUS
  <1>1. Init => SumInv /\ ReportIsOwnTotal
    <2> SUFFICES ASSUME Init PROVE SumInv /\ ReportIsOwnTotal
      OBVIOUS
    <2>1. pc.fn = "config"
      BY DEF Init, Start, At
    <2>2. \A s \in Sides : Len(report[s]) = 0
      BY DEF Init
    <2> QED
      BY <2>1, <2>2 DEF SumInv, ReportIsOwnTotal
  <1>2. ControlInv /\ SumInv /\ ReportIsOwnTotal /\ [Next]_vars => SumInv' /\ ReportIsOwnTotal'
    BY SumStep, ReportStep
  <1>3. Spec => []ControlInv
    BY ControlHolds
  <1> QED
    BY <1>1, <1>2, <1>3, PTL DEF Spec
=============================================================================
