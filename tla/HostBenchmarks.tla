--------------------------- MODULE HostBenchmarks ---------------------------
(***************************************************************************)
(* The four programs that measure the CPU's and the GPU's memory for        *)
(* comparison: cpu_benchmark/throughput.cpp (threads behind a barrier),     *)
(* gpu_benchmark/global_TH.cu (one kernel thread per start element) and the *)
(* pointer chases cpu_benchmark/latency_huge_table.cpp and                  *)
(* gpu_benchmark/global_latency.cu.  All have the same shape: a main        *)
(* program starts workers, each reads its share of an array, main waits for *)
(* all of them, divides an amount of work by a time and goes on to the next *)
(* setting.  All but the first read the array in several passes, of which   *)
(* only some are timed: the sweep is launched once to warm up and           *)
(* cIterations times on the clock, the chases go over the array once before *)
(* the timed pass.  A step is one element read, or one call.                *)
(***************************************************************************)
EXTENDS Integers, Sequences

CONSTANTS
    Programs,   \* kind, workers, size (array elements), rounds (settings in order)
    Iterations, \* 4, cIterations: the timed launches of a sweep
    Unroll,     \* 16, the elements GlobalCopy reads per turn of its loop
    WordBytes,  \* 8, the size of an element of the CPU chase
    IntMax,     \* 2^31 - 1
    NS,         \* clock ticks in a second (10^9)
    MaxTime     \* bound: ticks a round may take

Kinds == {"throughput", "sweep", "chase_cpu", "chase_gpu"}

\* The settings a program of each kind goes through.
Settings(kind) ==
    LET Pos == Nat \ {0} IN
    CASE kind = "throughput" -> [op : Pos, stride : Pos, burst : Pos]
      [] kind = "sweep"      -> [b : Pos, s : Pos]
      [] OTHER               -> [op : Pos, stride : Pos]

ASSUME ProgramsAssumption ==
    \A q \in Programs :
        /\ q.kind \in Kinds /\ q.workers \in Nat \ {0} /\ q.size \in Nat \ {0}
        /\ q.rounds \in Seq(Settings(q.kind)) /\ q.rounds # << >>
ASSUME NumbersAssumption ==
    /\ {Iterations, Unroll, WordBytes, IntMax, NS} \subseteq Nat \ {0}
    /\ MaxTime \in Nat /\ NS - 1 <= MaxTime

VARIABLES
    prog,      \* the program that runs
    round,     \* index of the setting: the globals burst and stride
    main,      \* "start", "join", "report", "exit"
    pass,      \* which pass over the array
    status,    \* what cudaGetLastError has to say: "success" or "error"
    created,   \* workers started in this round
    joined,    \* workers main has waited for in this round
    wpc,       \* per worker: "none", "new", "barrier", "reading", "done"
    bufs,      \* per worker: the burst its sum array was sized for
    k,         \* per worker: elements read in this pass
    work,      \* history: per worker, elements read in the timed passes of this round
    loc,       \* per worker: where the next read of a chase goes
    begin,     \* per worker: time_start
    t,         \* per worker: the time it reports
    now,       \* external: the clock
    seen,      \* history: elements read in this pass
    again,     \* history: an element was read twice in a pass of this round
    below,     \* history: a read in this round went in front of the array
    beyond,    \* history: one missed it by more than its size, or behind it
    finished   \* history: per worker, the clock at time_end

workers == <<wpc, bufs, k, work, loc, begin, t, finished>>
reads   == <<seen, again, below, beyond>>
vars    == <<prog, round, main, pass, status, created, joined, workers, now, reads>>

Workers == 0 .. prog.workers - 1
Set     == prog.rounds[round]
Threads == prog.kind = "throughput"
Kernel  == prog.kind \in {"sweep", "chase_gpu"}

-----------------------------------------------------------------------------
(***************************************************************************)
(* The passes of a round.                                                   *)
(***************************************************************************)
\* The GPU chase reads every element, chases, and reads the element it ended at.
Passes ==
    CASE prog.kind = "throughput" -> 1
      [] prog.kind = "sweep"      -> 1 + Iterations
      [] prog.kind = "chase_cpu"  -> 2
      [] prog.kind = "chase_gpu"  -> 3

InTimed ==
    CASE prog.kind = "throughput" -> TRUE
      [] prog.kind = "sweep"      -> pass > 1
      [] OTHER                    -> pass = 2

Chasing == prog.kind = "chase_cpu" \/ (prog.kind = "chase_gpu" /\ pass = 2)

\* The GPU chase is one kernel: if its launch fails there are no passes.
RoundOver == pass = Passes \/ (prog.kind = "chase_gpu" /\ status = "error")

-----------------------------------------------------------------------------
(***************************************************************************)
(* Where a worker reads.                                                    *)
(***************************************************************************)
\* C's remainder has the sign of the dividend.
CMod(a, n) == IF a >= 0 THEN a % n ELSE -((-a) % n)

Wrapped(x) == ((x + IntMax + 1) % (2 * (IntMax + 1))) - (IntMax + 1)

\* i*stride is a product of two ints: past 2^31 its value is undefined, either
\* the exact one (a loop kept in 64 bits) or the wrapped one.
IntProducts(x) == IF x <= IntMax THEN {x} ELSE {x, Wrapped(x)}

\* p[(start+i*stride+j) % work_group_size], start = op*stride*index
ThroughputLocs(w, n) ==
    { CMod(Set.op * Set.stride * w + x + (n % Set.burst), prog.size) :
        x \in IntProducts((n \div Set.burst) * Set.stride) }

\* GlobalCopy's start and step, and in[i + j*step] of its n-th read.
SweepStart(w) == Set.s * (w \div Set.b) + (w % Set.b)
SweepStepFlat == prog.workers
SweepStep == Set.s * (prog.workers \div Set.b)
SweepLoc(w, n) ==
    SweepStart(w) + (n \div Unroll) * Unroll * SweepStep + (n % Unroll) * SweepStep

\* p[i] = 8*(i+stride) % array_size is a byte offset, wrapped at the number of
\* elements: only the first eighth of the array is ever visited.
CpuNext(l) == ((WordBytes * (l + Set.stride)) % prog.size) \div WordBytes
\* h_a[i] = (i+1024*16) % N
GpuNext(l) == (l + Set.stride) % prog.size

Locs(w) ==
    CASE prog.kind = "throughput" -> ThroughputLocs(w, k[w])
      [] prog.kind = "sweep"      -> {SweepLoc(w, k[w])}
      [] prog.kind = "chase_gpu" /\ pass = 1 -> {k[w]}
      [] OTHER                    -> {loc[w]}

NextLoc(l) == IF prog.kind = "chase_cpu" THEN CpuNext(l) ELSE GpuNext(l)

\* The loop conditions.  GlobalCopy tests i < N once for Unroll elements.
More(w) ==
    CASE prog.kind = "throughput" -> k[w] < Set.op * Set.burst
      [] prog.kind = "sweep"      -> k[w] % Unroll # 0 \/ SweepLoc(w, k[w]) < prog.size
      [] prog.kind = "chase_gpu" /\ pass = 1 -> k[w] < prog.size
      [] prog.kind = "chase_gpu" /\ pass = 3 -> k[w] < 1
      [] OTHER                    -> k[w] < Set.op

\* The amount of work the program divides by the time, in elements.  The sweep
\* computes it whatever status says.
Claimed ==
    CASE prog.kind = "throughput" -> Set.op * Set.burst * prog.workers
      [] prog.kind = "sweep"      -> (Set.b * prog.size * Iterations) \div Set.s
      [] OTHER                    -> Set.op

-----------------------------------------------------------------------------
Fresh ==
    /\ main' = "start" /\ created' = 0 /\ joined' = 0
    /\ pass' = 1 /\ status' = "success"
    /\ wpc' = [w \in Workers |-> "none"]
    /\ k' = [w \in Workers |-> 0] /\ loc' = [w \in Workers |-> 0]
    /\ work' = [w \in Workers |-> 0]
    /\ bufs' = [w \in Workers |-> 0] /\ begin' = [w \in Workers |-> 0]
    /\ finished' = [w \in Workers |-> 0]
    /\ seen' = {} /\ again' = FALSE /\ below' = FALSE /\ beyond' = FALSE

Init ==
    /\ prog \in Programs
    /\ round = 1 /\ main = "start" /\ created = 0 /\ joined = 0
    /\ pass = 1 /\ status = "success"
    /\ wpc = [w \in Workers |-> "none"]
    /\ k = [w \in Workers |-> 0] /\ loc = [w \in Workers |-> 0]
    /\ work = [w \in Workers |-> 0]
    /\ bufs = [w \in Workers |-> 0] /\ begin = [w \in Workers |-> 0]
    /\ finished = [w \in Workers |-> 0] /\ t = [w \in Workers |-> 0]
    /\ now \in IF Threads THEN 0 .. NS - 1 ELSE {0}
    /\ seen = {} /\ again = FALSE /\ below = FALSE /\ beyond = FALSE

\* External: a kernel launch may fail, and then none of its threads runs.
Outcomes == IF Kernel THEN BOOLEAN ELSE {TRUE}
Launched(ok) == [w \in Workers |-> IF ok THEN "new" ELSE "done"]

\* pthread_create in a loop, or the first launch with all its threads.
Create ==
    /\ main = "start"
    /\ \/ /\ Threads
          /\ created' = created + 1
          /\ wpc' = [wpc EXCEPT ![created] = "new"]
          /\ main' = IF created + 1 = prog.workers THEN "join" ELSE main
          /\ UNCHANGED status
       \/ /\ ~Threads
          /\ created' = prog.workers /\ main' = "join"
          /\ \E ok \in Outcomes :
                /\ wpc' = Launched(ok)
                /\ status' = IF ok THEN status ELSE "error"
    /\ UNCHANGED <<prog, round, pass, joined, bufs, k, work, loc, begin, t, finished, now, reads>>

\* The next pass once the last is over: the stream runs the launches of a sweep
\* one after the other, a chase is one thread.  The status of the first launch
\* is taken, and thereby cleared, before the others.
NextPass ==
    /\ main = "join" /\ ~RoundOver /\ \A w \in Workers : wpc[w] = "done"
    /\ pass' = pass + 1
    /\ \/ /\ prog.kind = "sweep"
          /\ \E ok \in Outcomes :
                /\ wpc' = Launched(ok)
                /\ status' = IF ok THEN IF pass = 1 THEN "success" ELSE status ELSE "error"
       \/ /\ prog.kind # "sweep"
          /\ wpc' = [w \in Workers |-> "reading"] /\ UNCHANGED status
    /\ k' = [w \in Workers |-> 0] /\ seen' = {}
    /\ loc' = IF prog.kind = "chase_gpu" THEN loc ELSE [w \in Workers |-> 0]
    /\ UNCHANGED <<prog, round, main, created, joined, bufs, work, begin, t, finished, now,
                   again, below, beyond>>

\* A worker's first lines: the throughput thread sizes its sums and waits at the
\* barrier, the others go straight to their loop.
Arrive(w) ==
    /\ wpc[w] = "new"
    /\ wpc' = [wpc EXCEPT ![w] = IF Threads THEN "barrier" ELSE "reading"]
    /\ bufs' = [bufs EXCEPT ![w] = IF Threads THEN Set.burst ELSE 0]
    /\ UNCHANGED <<prog, round, main, pass, status, created, joined, k, work, loc, begin, t,
                   finished, now, reads>>

BarrierNone == TRUE
BarrierOpen == \A v \in Workers : wpc[v] \in {"barrier", "reading", "done"}

PassBarrier(w) ==
    /\ wpc[w] = "barrier" /\ BarrierOpen
    /\ wpc' = [wpc EXCEPT ![w] = "reading"]
    /\ begin' = [begin EXCEPT ![w] = now]
    /\ UNCHANGED <<prog, round, main, pass, status, created, joined, bufs, k, work, loc, t,
                   finished, now, reads>>

Read(w) ==
    /\ wpc[w] = "reading" /\ More(w)
    /\ \E l \in Locs(w) :
          /\ seen' = seen \cup {l}
          /\ again' = (again \/ l \in seen)
          /\ below' = (below \/ l < 0)
          /\ beyond' = (beyond \/ l \notin 1 - prog.size .. prog.size - 1)
          /\ loc' = [loc EXCEPT ![w] = IF Chasing THEN NextLoc(l) ELSE @]
    /\ k' = [k EXCEPT ![w] = @ + 1]
    /\ work' = [work EXCEPT ![w] = IF InTimed THEN @ + 1 ELSE @]
    /\ UNCHANGED <<prog, round, main, pass, status, created, joined, wpc, bufs, begin, t, finished, now>>

ElapsedNanos(from, to) == (to % NS) - (from % NS)
\* (tv_sec - tv_sec)*10e9 + tv_nsec - tv_nsec: 10e9 is ten seconds' worth.
Elapsed(from, to) ==
    ((to \div NS) - (from \div NS)) * 10 * NS + (to % NS) - (from % NS)

Finish(w) ==
    /\ wpc[w] = "reading" /\ ~More(w)
    /\ wpc' = [wpc EXCEPT ![w] = "done"]
    /\ finished' = [finished EXCEPT ![w] = now]
    /\ t' = [t EXCEPT ![w] = Elapsed(begin[w], now)]
    /\ UNCHANGED <<prog, round, main, pass, status, created, joined, bufs, k, work, loc, begin,
                   now, reads>>

\* Only the throughput threads look at the clock.
Tick ==
    /\ Threads /\ now < MaxTime /\ \E w \in Workers : wpc[w] = "reading"
    /\ now' = now + 1
    /\ UNCHANGED <<prog, round, main, pass, status, created, joined, workers, reads>>

\* pthread_join in order; cudaThreadSynchronize for the launches of a kernel.
Join ==
    /\ main = "join" /\ RoundOver
    /\ wpc[joined] = "done"
    /\ joined' = joined + 1
    /\ main' = IF joined + 1 = prog.workers THEN "report" ELSE main
    /\ UNCHANGED <<prog, round, pass, status, created, workers, now, reads>>

\* Writes the round's result and moves the globals on to the next setting.
Report ==
    /\ main = "report"
    /\ \/ /\ round < Len(prog.rounds)
          /\ round' = round + 1
          /\ Fresh
          /\ now' \in IF Threads THEN 0 .. NS - 1 ELSE {0}
          /\ UNCHANGED <<prog, t>>
       \/ /\ round = Len(prog.rounds)
          /\ main' = "exit"
          /\ UNCHANGED <<prog, round, pass, status, created, joined, workers, now, reads>>

Exited == main = "exit" /\ UNCHANGED vars

Next ==
    \/ Create
    \/ NextPass
    \/ \E w \in Workers : Arrive(w) \/ PassBarrier(w) \/ Read(w) \/ Finish(w)
    \/ Tick
    \/ Join
    \/ Report
    \/ Exited

Spec == Init /\ [][Next]_vars

-----------------------------------------------------------------------------
TypeOK ==
    /\ prog \in Programs
    /\ round \in DOMAIN prog.rounds
    /\ main \in {"start", "join", "report", "exit"}
    /\ pass \in 1 .. Passes /\ status \in {"success", "error"}
    /\ {created, joined} \subseteq 0 .. prog.workers
    /\ wpc \in [Workers -> {"none", "new", "barrier", "reading", "done"}]
    /\ \A f \in {bufs, k, work, begin, t, finished} : f \in [Workers -> Nat]
    /\ \A w \in Workers : loc[w] \in 0 .. prog.size - 1
    /\ now \in 0 .. MaxTime
    /\ {again, below, beyond} \subseteq BOOLEAN

\* When main divides work by time and its launches have succeeded, the workers
\* have read exactly the number of elements in the formula on the clock, each an
\* equal part of it, in however many passes; when a timed launch of the sweep has
\* failed, each has read less, so that its status, which main ignores, is exactly
\* what tells a result from a wrong one.  No pass of the GPU sweep or of a
\* chase has read an element twice.  And no read has missed the array, but for
\* throughput.cpp in settings where i*stride, a product of two ints, may not
\* fit for some i < op: those reads may fall in front of it, never behind.
ReportedWorkDone ==
    main = "report" =>
        /\ status = "success" => \A w \in Workers : prog.workers * work[w] = Claimed
        /\ prog.kind = "sweep" /\ status = "error" =>
              \A w \in Workers : prog.workers * work[w] < Claimed
        /\ ~Threads => ~again
        /\ ~beyond
        /\ below => Threads /\ Set.op * Set.stride > IntMax

\* Timed loops only run once every thread is at the barrier, with the burst
\* their sums were sized for, and a thread never reports less time than it
\* took, whichever second boundaries it crossed.
MeasuredTogether ==
    Threads =>
        \A w \in Workers :
            /\ wpc[w] = "reading" => bufs[w] = Set.burst
            /\ k[w] > 0 => \A v \in Workers : wpc[v] \in {"barrier", "reading", "done"}
            /\ wpc[w] = "done" => t[w] >= finished[w] - begin[w]
=============================================================================
