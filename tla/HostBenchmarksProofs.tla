------------------------ MODULE HostBenchmarksProofs ------------------------
(***************************************************************************)
(* The comparison programs, for every number of workers, array size, list   *)
(* of settings and clock: the timed loops of a round run together and with  *)
(* the buffers of their own setting, no thread reports less time than it    *)
(* took, main divides by the work of workers that all did their share, and  *)
(* when the rounds come out even these shares are all the work it claims.   *)
(***************************************************************************)
EXTENDS HostBenchmarks, RegisterTheorems, TLAPS

-----------------------------------------------------------------------------
TypeInv ==
    /\ prog \in Programs
    /\ round \in 1 .. Len(prog.rounds)
    /\ main \in {"start", "join", "report", "exit"}
    /\ pass \in 1 .. Passes /\ status \in {"success", "error"}
    /\ created \in 0 .. prog.workers /\ joined \in 0 .. prog.workers
    /\ main = "start" => created < prog.workers
    /\ main = "join" => joined < prog.workers
    /\ wpc \in [Workers -> {"none", "new", "barrier", "reading", "done"}]
    /\ bufs \in [Workers -> Nat] /\ k \in [Workers -> Nat] /\ work \in [Workers -> Nat]
    /\ begin \in [Workers -> Nat] /\ t \in [Workers -> Nat] /\ finished \in [Workers -> Nat]
    /\ loc \in [Workers -> 0 .. prog.size - 1]
    /\ now \in 0 .. MaxTime
    /\ again \in BOOLEAN /\ below \in BOOLEAN /\ beyond \in BOOLEAN

Arrived == {"barrier", "reading", "done"}
Timed   == {"reading", "done"}

\* Threads start in order and a kernel's all at once, the clock does not run
\* backwards, and only a worker that is past the barrier has read anything.
OrderInv ==
    /\ main = "start" /\ ~Threads => created = 0
    /\ \A w \in Workers : w >= created => wpc[w] = "none"
    /\ \A w \in Workers : begin[w] <= now
    /\ \A w \in Workers : k[w] > 0 => wpc[w] \in Timed

\* The threads of throughput.cpp.
ThreadInv ==
    Threads =>
        /\ \A w \in Workers : wpc[w] \in Arrived => bufs[w] = Set.burst
        /\ \A w \in Workers : wpc[w] \in Timed => \A v \in Workers : wpc[v] \in Arrived
        /\ \A w \in Workers : wpc[w] = "done" => t[w] >= finished[w] - begin[w]

\* The elements one worker of a thread or chase program reads in a pass: op bursts,
\* op steps of the chase, or the GPU chase's warm-up and its last read.
Share ==
    CASE Threads -> Set.op * Set.burst
      [] prog.kind = "chase_gpu" /\ pass = 1 -> prog.size
      [] prog.kind = "chase_gpu" /\ pass = 3 -> 1
      [] OTHER -> Set.op

\* What of the work was done in passes before this one.
Earlier == IF prog.kind = "chase_gpu" /\ pass = 3 THEN Set.op ELSE 0

ShareInv ==
    prog.kind # "sweep" =>
        /\ \A w \in Workers : k[w] <= Share
        /\ status = "success" =>
              \A w \in Workers : /\ wpc[w] = "done" => k[w] = Share
                                 /\ work[w] = Earlier + (IF InTimed THEN k[w] ELSE 0)

\* Main has waited for the workers it counts, after their last pass.
JoinInv ==
    /\ joined > 0 => main # "start" /\ RoundOver
    /\ \A w \in Workers : w < joined => wpc[w] = "done"
    /\ main \in {"report", "exit"} => joined = prog.workers

\* No read of the threads or of a chase falls behind the array, and none in
\* front of it while op*stride is an int.
InsideInv ==
    prog.kind # "sweep" =>
        ~beyond /\ (below => Threads /\ Set.op * Set.stride > IntMax)

Inv == TypeInv /\ OrderInv /\ ThreadInv /\ ShareInv /\ JoinInv /\ InsideInv

-----------------------------------------------------------------------------
\* The constants as numbers.
LEMMA Numbers ==
    /\ Iterations \in Nat \ {0} /\ Unroll \in Nat \ {0} /\ WordBytes \in Nat \ {0} /\ IntMax \in Nat \ {0}
    /\ NS \in Nat \ {0} /\ MaxTime \in Nat /\ NS - 1 <= MaxTime
  BY NumbersAssumption

\* A program has workers, an array and settings.
LEMMA ProgramFacts ==
    ASSUME NEW q \in Programs
    PROVE  /\ q.kind \in Kinds /\ q.workers \in Nat \ {0} /\ q.size \in Nat \ {0}
           /\ Len(q.rounds) \in Nat \ {0}
           /\ \A r \in 1 .. Len(q.rounds) : q.rounds[r] \in Settings(q.kind)
  <1>1. /\ q.kind \in Kinds /\ q.workers \in Nat \ {0} /\ q.size \in Nat \ {0}
        /\ q.rounds \in Seq(Settings(q.kind)) /\ q.rounds # << >>
    BY ProgramsAssumption
  <1>2. Len(q.rounds) \in Nat /\ Len(q.rounds) # 0
    BY <1>1
  <1>3. \A r \in 1 .. Len(q.rounds) : q.rounds[r] \in Settings(q.kind)
    BY <1>1
  <1> QED
    BY <1>1, <1>2, <1>3

\* The setting of the round.
LEMMA SetFacts ==
    ASSUME TypeInv
    PROVE  /\ prog.workers \in Nat \ {0} /\ prog.size \in Nat \ {0}
           /\ prog.kind \in Kinds
           /\ prog.kind # "sweep" => Set.op \in Nat \ {0} /\ Set.stride \in Nat \ {0}
           /\ prog.kind = "throughput" => Set.burst \in Nat \ {0}
  <1>1. /\ prog.workers \in Nat \ {0} /\ prog.size \in Nat \ {0} /\ prog.kind \in Kinds
        /\ Set \in Settings(prog.kind)
    BY ProgramFacts DEF TypeInv, Set
  <1>2. CASE prog.kind = "throughput"
    <2>1. Set \in [op : Nat \ {0}, stride : Nat \ {0}, burst : Nat \ {0}]
      BY <1>1, <1>2 DEF Settings
    <2> QED
      BY <1>1, <1>2, <2>1
  <1>3. CASE prog.kind # "throughput" /\ prog.kind # "sweep"
    <2>1. Set \in [op : Nat \ {0}, stride : Nat \ {0}]
      BY <1>1, <1>3 DEF Settings
    <2> QED
      BY <1>1, <1>3, <2>1
  <1>4. CASE prog.kind = "sweep"
    BY <1>1, <1>4
  <1> QED
    BY <1>2, <1>3, <1>4

\* A share is a number, in this round and the next.
LEMMA ShareType == TypeInv => (prog.kind # "sweep" => Share \in Nat)
  <1> SUFFICES ASSUME TypeInv, prog.kind # "sweep" PROVE Share \in Nat
    OBVIOUS
  <1>1. CASE Threads
    <2>1. Set.op \in Nat /\ Set.burst \in Nat
      BY <1>1, SetFacts DEF Threads
    <2> QED
      BY <1>1, <2>1 DEF Share, Threads
  <1>2. CASE ~Threads
    BY <1>2, SetFacts DEF Share
  <1> QED
    BY <1>1, <1>2

\* Every program has a first pass, and only throughput.cpp has no other.
LEMMA PassesType ==
    ASSUME prog.kind \in Kinds
    PROVE  Passes \in Nat \ {0} /\ (Threads <=> Passes = 1)
  BY Numbers DEF Passes, Kinds, Threads

-----------------------------------------------------------------------------
\* Ten seconds are counted for every second boundary: never less than passed.
LEMMA ElapsedCovers ==
    ASSUME NEW from \in Nat, NEW to \in Nat, from <= to
    PROVE  Elapsed(from, to) \in Nat /\ Elapsed(from, to) >= to - from
  <1> DEFINE fq == from \div NS
             fr == from % NS
             tq == to \div NS
             tr == to % NS
  <1>1. from = fq * NS + fr /\ fr \in 0 .. NS - 1 /\ fq \in Nat
    BY DivModNat, Numbers
  <1>2. to = tq * NS + tr /\ tr \in 0 .. NS - 1 /\ tq \in Nat
    BY DivModNat, Numbers
  <1>3. Elapsed(from, to) = (tq - fq) * 10 * NS + tr - fr
    BY DEF Elapsed
  <1> HIDE DEF fq, fr, tq, tr
  <1>4. tq >= fq
    <2> SUFFICES ASSUME tq + 1 <= fq PROVE FALSE
      BY <1>1, <1>2
    <2>1. (tq + 1) * NS <= fq * NS
      BY <1>1, <1>2, Numbers
    <2>2. (tq + 1) * NS = tq * NS + NS
      BY <1>2, Numbers
    <2> QED
      BY <1>1, <1>2, <2>1, <2>2, Numbers
  <1>5. PICK n \in Nat : n = (tq - fq) * NS
    BY <1>1, <1>2, <1>4, Numbers
  <1>6. (tq - fq) * 10 * NS = 10 * n
    BY <1>1, <1>2, <1>5, Numbers
  <1>7. to - from = n + tr - fr
    <2>1. (tq - fq) * NS = tq * NS - fq * NS
      BY <1>1, <1>2, Numbers
    <2> QED
      BY <1>1, <1>2, <1>5, <2>1, Numbers
  <1> QED
    BY <1>1, <1>2, <1>3, <1>5, <1>6, <1>7, Numbers

\* A chase stays in the array.
LEMMA NextLocType ==
    ASSUME TypeInv, prog.kind \in {"chase_cpu", "chase_gpu"}, NEW l \in 0 .. prog.size - 1
    PROVE  NextLoc(l) \in 0 .. prog.size - 1
  <1>1. CASE prog.kind = "chase_cpu"
    <2> DEFINE x == WordBytes * (l + Set.stride)
               y == x % prog.size
    <2>1. x \in Nat
      BY <1>1, SetFacts, Numbers
    <2>2. y \in 0 .. prog.size - 1
      <3> HIDE DEF x
      <3> QED
        BY <2>1, SetFacts, DivModNat
    <2>3. NextLoc(l) = y \div WordBytes
      BY <1>1 DEF NextLoc, CpuNext
    <2> HIDE DEF y
    <2>4. y = (y \div WordBytes) * WordBytes + (y % WordBytes)
            /\ y % WordBytes \in 0 .. WordBytes - 1 /\ y \div WordBytes \in Nat
      <3>1. y \in Nat /\ WordBytes \in Nat \ {0}
        BY <2>2, SetFacts, Numbers
      <3> QED
        BY <3>1, DivModNat
    <2>5. PICK d \in Nat : d = y \div WordBytes
      BY <2>4
    <2>6. d <= d * WordBytes
      BY <2>5, Numbers
    <2> QED
      BY <2>2, <2>3, <2>4, <2>5, <2>6, SetFacts, Numbers
  <1>2. CASE prog.kind = "chase_gpu"
    <2>1. l + Set.stride \in Nat
      BY <1>2, SetFacts
    <2>2. (l + Set.stride) % prog.size \in 0 .. prog.size - 1
      BY <2>1, SetFacts, DivModNat
    <2> QED
      BY <1>2, <2>2 DEF NextLoc, GpuNext
  <1> QED
    BY <1>1, <1>2

\* A program begins with fresh workers and an unread array.
LEMMA InitInv == Init => Inv
  <1> SUFFICES ASSUME Init PROVE Inv
    OBVIOUS
  <1>1. prog \in Programs /\ prog.workers \in Nat \ {0} /\ prog.size \in Nat \ {0}
          /\ Len(prog.rounds) \in Nat \ {0}
    BY ProgramFacts DEF Init
  <1>2. now \in 0 .. MaxTime
    BY Numbers DEF Init
  <1>3. TypeInv
    <2>1. /\ again \in BOOLEAN /\ below \in BOOLEAN /\ beyond \in BOOLEAN
          /\ pass = 1 /\ status \in {"success", "error"}
      BY DEF Init
    <2>0. pass \in 1 .. Passes
      BY <1>1, <2>1, PassesType, ProgramFacts
    <2>2. /\ wpc \in [Workers -> {"none", "new", "barrier", "reading", "done"}]
          /\ bufs \in [Workers -> Nat] /\ k \in [Workers -> Nat] /\ work \in [Workers -> Nat]
          /\ begin \in [Workers -> Nat] /\ t \in [Workers -> Nat] /\ finished \in [Workers -> Nat]
      BY DEF Init
    <2>3. loc \in [Workers -> 0 .. prog.size - 1]
      BY <1>1 DEF Init
    <2>4. /\ round \in 1 .. Len(prog.rounds) /\ main \in {"start", "join", "report", "exit"}
          /\ created \in 0 .. prog.workers /\ joined \in 0 .. prog.workers
          /\ main = "start" => created < prog.workers
          /\ main = "join" => joined < prog.workers
      BY <1>1 DEF Init
    <2> QED
      BY <1>1, <1>2, <2>0, <2>1, <2>2, <2>3, <2>4 DEF TypeInv
  <1>4. /\ \A w \in Workers : wpc[w] = "none" /\ k[w] = 0 /\ work[w] = 0 /\ begin[w] = 0
        /\ pass = 1 /\ created = 0
    BY DEF Init
  <1>5. OrderInv /\ ThreadInv
    BY <1>2, <1>4, Numbers DEF OrderInv, ThreadInv, Arrived, Timed
  <1>6. prog.kind # "sweep" => Share \in Nat
    BY <1>3, ShareType
  <1>7. ShareInv
    BY <1>4, <1>6 DEF ShareInv, Earlier
  <1>8. JoinInv /\ InsideInv
    BY DEF JoinInv, InsideInv, Init, Workers
  <1> QED
    BY <1>3, <1>5, <1>7, <1>8 DEF Inv

\* What no step of a pass changes.
SameRound == UNCHANGED <<prog, round, pass>>

\* The derived values of a pass stay the same through it.
LEMMA RoundFacts ==
    ASSUME SameRound
    PROVE  /\ Workers' = Workers /\ Set' = Set /\ Threads' = Threads /\ Share' = Share
           /\ Passes' = Passes /\ InTimed' = InTimed /\ Chasing' = Chasing /\ Earlier' = Earlier
           /\ prog' = prog /\ round' = round /\ pass' = pass
  BY DEF SameRound, Workers, Set, Threads, Share, Passes, InTimed, Chasing, Earlier

\* pthread_create and the kernel launch: a worker that starts was not started yet,
\* and one whose launch failed is through without a read.
LEMMA CreateInv == ASSUME Inv, Create PROVE Inv'
  <1>0. TypeInv /\ OrderInv /\ ThreadInv /\ ShareInv /\ JoinInv /\ InsideInv
    BY DEF Inv
  <1>1. /\ SameRound /\ main = "start"
        /\ UNCHANGED <<joined, bufs, k, work, loc, begin, t, finished, now, seen, again, below, beyond>>
    BY DEF Create, SameRound, reads
  <1>2. /\ Workers' = Workers /\ Set' = Set /\ Threads' = Threads /\ Share' = Share
        /\ Passes' = Passes /\ InTimed' = InTimed /\ Chasing' = Chasing /\ Earlier' = Earlier
        /\ prog' = prog /\ round' = round /\ pass' = pass
    BY <1>1, RoundFacts
  <1>3. /\ prog.workers \in Nat \ {0} /\ created \in Nat /\ created < prog.workers
        /\ \A w \in Workers : w \in Nat /\ w < prog.workers
    BY <1>0, <1>1, SetFacts DEF TypeInv, Workers
  <1>4. joined = 0
    BY <1>0, <1>1 DEF JoinInv, TypeInv
  <1>5. CASE /\ Threads /\ created' = created + 1
             /\ wpc' = [wpc EXCEPT ![created] = "new"]
             /\ main' = IF created + 1 = prog.workers THEN "join" ELSE main
             /\ UNCHANGED status
    <2>1. created \in Workers /\ wpc[created] = "none"
      BY <1>0, <1>3 DEF OrderInv, Workers
    <2>2. \A w \in Workers : IF w = created THEN wpc'[w] = "new" ELSE wpc'[w] = wpc[w]
      BY <1>0, <1>5 DEF TypeInv
    <2>3. TypeInv'
      <3>1. wpc' \in [Workers -> {"none", "new", "barrier", "reading", "done"}]
        BY <1>0, <1>5 DEF TypeInv
      <3>2. /\ created' \in 0 .. prog.workers /\ main' \in {"start", "join", "report", "exit"}
            /\ main' = "start" => created' < prog.workers
            /\ main' = "join" => joined' < prog.workers
        BY <1>1, <1>3, <1>4, <1>5
      <3> QED
        BY <1>0, <1>1, <1>2, <1>5, <3>1, <3>2 DEF TypeInv
    <2>4. OrderInv'
      <3>1. \A w \in Workers : w >= created + 1 => wpc'[w] = "none"
        BY <1>0, <1>3, <2>2 DEF OrderInv
      <3>2. \A w \in Workers : k[w] > 0 => wpc'[w] \in Timed
        BY <1>0, <2>1, <2>2 DEF OrderInv, Timed
      <3> QED
        BY <1>0, <1>1, <1>2, <1>5, <3>1, <3>2 DEF OrderInv
    <2>5. \A w \in Workers : wpc[w] \notin Timed
      BY <1>0, <1>5, <2>1 DEF ThreadInv, Arrived
    <2>6. \A w \in Workers : wpc'[w] \notin Timed
      BY <2>2, <2>5 DEF Timed
    <2>7. ThreadInv'
      <3>1. \A w \in Workers : wpc'[w] \in Arrived => wpc[w] \in Arrived
        BY <2>2 DEF Arrived
      <3> QED
        BY <1>0, <1>1, <1>2, <2>6, <3>1 DEF ThreadInv, Timed
    <2>8. ShareInv'
      BY <1>0, <1>1, <1>2, <1>5, <2>6 DEF ShareInv, Timed
    <2>9. JoinInv' /\ InsideInv'
      <3>1. main' \notin {"report", "exit"}
        BY <1>1, <1>5
      <3>2. \A w \in Workers : ~(w < joined')
        BY <1>1, <1>3, <1>4
      <3> QED
        BY <1>0, <1>1, <1>2, <1>4, <3>1, <3>2 DEF JoinInv, InsideInv
    <2> QED
      BY <2>3, <2>4, <2>7, <2>8, <2>9 DEF Inv
  <1>6. CASE /\ ~Threads /\ created' = prog.workers /\ main' = "join"
             /\ \E ok \in Outcomes : /\ wpc' = Launched(ok)
                                     /\ status' = IF ok THEN status ELSE "error"
    <2>1. PICK ok \in BOOLEAN : /\ wpc' = [w \in Workers |-> IF ok THEN "new" ELSE "done"]
                               /\ status' = IF ok THEN status ELSE "error"
      BY <1>6 DEF Outcomes, Launched
    <2>2. \A w \in Workers : k[w] = 0
      <3>1. \A w \in Workers : wpc[w] = "none"
        BY <1>0, <1>1, <1>3, <1>6 DEF OrderInv
      <3>2. \A w \in Workers : k[w] \in Nat /\ ~(k[w] > 0)
        <4>1. \A w \in Workers : wpc[w] \notin Timed
          BY <3>1 DEF Timed
        <4> QED
          BY <1>0, <4>1 DEF OrderInv, TypeInv
      <3> QED
        BY <3>2
    <2>3. TypeInv'
      <3>1. wpc' \in [Workers -> {"none", "new", "barrier", "reading", "done"}]
        BY <2>1
      <3>2. status' \in {"success", "error"}
        BY <1>0, <2>1 DEF TypeInv
      <3>3. /\ created' \in 0 .. prog.workers /\ main' \in {"start", "join", "report", "exit"}
            /\ main' # "start" /\ joined' < prog.workers
        BY <1>1, <1>3, <1>4, <1>6
      <3> QED
        BY <1>0, <1>1, <1>2, <3>1, <3>2, <3>3 DEF TypeInv
    <2>4. OrderInv' /\ ThreadInv'
      <3>1. \A w \in Workers : ~(w >= created')
        BY <1>3, <1>6
      <3> QED
        BY <1>0, <1>1, <1>2, <1>6, <2>2, <3>1 DEF OrderInv, ThreadInv
    <2>5. ShareInv'
      <3>1. status' = "success" => status = "success" /\ \A w \in Workers : wpc'[w] # "done"
        BY <2>1
      <3> QED
        BY <1>0, <1>1, <1>2, <3>1 DEF ShareInv
    <2>6. JoinInv' /\ InsideInv'
      <3>1. \A w \in Workers : ~(w < joined')
        BY <1>1, <1>3, <1>4
      <3> QED
        BY <1>0, <1>1, <1>2, <1>4, <1>6, <3>1 DEF JoinInv, InsideInv
    <2> QED
      BY <2>3, <2>4, <2>5, <2>6 DEF Inv
  <1> QED
    BY <1>5, <1>6 DEF Create

\* A further pass begins where all workers are through with the last: what they
\* read on the clock is then all of it, and main has not begun to wait.
LEMMA NextPassInv == ASSUME Inv, NextPass PROVE Inv'
  <1>0. TypeInv /\ OrderInv /\ ThreadInv /\ ShareInv /\ JoinInv /\ InsideInv
    BY DEF Inv
  <1>1. /\ main = "join" /\ ~RoundOver /\ pass' = pass + 1
        /\ \A w \in Workers : wpc[w] = "done"
        /\ k' = [w \in Workers |-> 0]
        /\ loc' = IF prog.kind = "chase_gpu" THEN loc ELSE [w \in Workers |-> 0]
        /\ UNCHANGED <<prog, round, main, created, joined, bufs, work, begin, t, finished, now,
                       again, below, beyond>>
    BY DEF NextPass
  <1>2. Workers' = Workers /\ Set' = Set /\ Threads' = Threads /\ Passes' = Passes
    BY <1>1 DEF Workers, Set, Threads, Passes
  <1>3. /\ Passes \in Nat \ {0} /\ pass \in 1 .. Passes /\ pass # Passes /\ ~Threads
        /\ prog.kind \in Kinds /\ prog.workers \in Nat \ {0} /\ prog.size \in Nat \ {0}
    <2>1. /\ prog.kind \in Kinds /\ prog.workers \in Nat \ {0} /\ prog.size \in Nat \ {0}
      BY <1>0, SetFacts
    <2>2. Passes \in Nat \ {0} /\ (Threads <=> Passes = 1)
      BY <2>1, PassesType
    <2>3. pass \in 1 .. Passes /\ pass # Passes
      BY <1>0, <1>1 DEF TypeInv, RoundOver
    <2>4. Passes # 1
      BY <2>2, <2>3
    <2> QED
      BY <2>1, <2>2, <2>3, <2>4
  <1>4. joined = 0
    BY <1>0, <1>1 DEF JoinInv, TypeInv
  <1>5. /\ wpc' \in [Workers -> {"new", "reading", "done"}] /\ status' \in {"success", "error"}
        /\ status' = "success" => \A w \in Workers : wpc'[w] # "done"
        /\ prog.kind # "sweep" => status' = status
    <2>1. CASE prog.kind = "sweep"
      <3>1. PICK ok \in BOOLEAN :
               /\ wpc' = [w \in Workers |-> IF ok THEN "new" ELSE "done"]
               /\ status' = IF ok THEN IF pass = 1 THEN "success" ELSE status ELSE "error"
        BY <2>1 DEF NextPass, Outcomes, Launched
      <3>2. status' \in {"success", "error"} /\ (status' = "success" => ok)
        BY <1>0, <3>1 DEF TypeInv
      <3>3. ok => \A w \in Workers : wpc'[w] # "done"
        BY <3>1
      <3>4. wpc' \in [Workers -> {"new", "reading", "done"}]
        BY <3>1
      <3> QED
        BY <2>1, <3>2, <3>3, <3>4
    <2>2. CASE prog.kind # "sweep"
      <3>1. wpc' = [w \in Workers |-> "reading"] /\ status' = status
        BY <2>2 DEF NextPass
      <3> QED
        BY <1>0, <3>1 DEF TypeInv
    <2> QED
      BY <2>1, <2>2
  <1>6. TypeInv'
    <2>1. wpc' \in [Workers -> {"none", "new", "barrier", "reading", "done"}]
      BY <1>5
    <2>2. pass' \in 1 .. Passes /\ k' \in [Workers -> Nat]
      BY <1>1, <1>3
    <2>3. loc' \in [Workers -> 0 .. prog.size - 1]
      BY <1>0, <1>1, <1>3 DEF TypeInv
    <2> QED
      BY <1>0, <1>1, <1>2, <1>5, <2>1, <2>2, <2>3 DEF TypeInv
  <1>7. OrderInv' /\ ThreadInv'
    <2>1. \A w \in Workers : ~(w >= created) /\ k'[w] = 0
      BY <1>0, <1>1 DEF OrderInv
    <2> QED
      BY <1>0, <1>1, <1>2, <1>3, <2>1 DEF OrderInv, ThreadInv
  <1>8. ShareInv'
    <2> SUFFICES ASSUME prog.kind # "sweep"
                 PROVE  ShareInv'
      BY <1>1 DEF ShareInv
    <2>1. Share' \in Nat /\ \A w \in Workers : k'[w] = 0
      <3>1. (prog.kind # "sweep" => Share \in Nat)'
        BY <1>6, ShareType, PTL
      <3> QED
        BY <1>1, <3>1
    <2>2. ASSUME status = "success", NEW w \in Workers PROVE work[w] = Earlier'
      <3>1. k[w] = Share /\ work[w] = Earlier + (IF InTimed THEN k[w] ELSE 0)
        BY <1>0, <1>1, <2>2 DEF ShareInv
      <3>2. Set.op \in Nat
        BY <1>0, SetFacts
      <3>3. CASE prog.kind = "chase_cpu"
        <4>1. pass = 1 /\ ~InTimed /\ Earlier = 0
          BY <1>3, <3>3 DEF Passes, InTimed, Earlier
        <4> QED
          BY <1>1, <3>1, <3>3, <4>1 DEF Earlier
      <3>4. CASE prog.kind = "chase_gpu" /\ pass = 1
        <4>1. ~InTimed /\ Earlier = 0
          BY <3>4 DEF InTimed, Earlier
        <4> QED
          BY <1>1, <3>1, <3>4, <4>1 DEF Earlier
      <3>5. CASE prog.kind = "chase_gpu" /\ pass = 2
        <4>1. InTimed /\ Earlier = 0 /\ Share = Set.op
          BY <1>3, <3>5 DEF InTimed, Earlier, Share, Threads
        <4>2. Earlier' = Set.op
          BY <1>1, <1>2, <3>5 DEF Earlier
        <4> QED
          BY <3>1, <3>2, <4>1, <4>2
      <3> QED
        BY <1>3, <3>3, <3>4, <3>5 DEF Kinds, Threads, Passes
    <2>3. Earlier' \in Nat
      BY <1>0, <1>2, SetFacts DEF Earlier
    <2> QED
      BY <1>1, <1>2, <1>5, <2>1, <2>2, <2>3 DEF ShareInv
  <1>9. JoinInv' /\ InsideInv'
    <2>1. \A w \in Workers : ~(w < joined')
      BY <1>1, <1>3, <1>4 DEF Workers
    <2> QED
      BY <1>0, <1>1, <1>2, <1>4, <2>1 DEF JoinInv, InsideInv
  <1> QED
    BY <1>6, <1>7, <1>8, <1>9 DEF Inv

\* A thread sizes its sums for the setting of the round.
LEMMA ArriveInv == ASSUME Inv, NEW w \in Workers, Arrive(w) PROVE Inv'
  <1>0. TypeInv /\ OrderInv /\ ThreadInv /\ ShareInv /\ JoinInv /\ InsideInv
    BY DEF Inv
  <1>1. /\ SameRound /\ wpc[w] = "new"
        /\ wpc' = [wpc EXCEPT ![w] = IF Threads THEN "barrier" ELSE "reading"]
        /\ bufs' = [bufs EXCEPT ![w] = IF Threads THEN Set.burst ELSE 0]
        /\ UNCHANGED <<main, status, created, joined, k, work, loc, begin, t, finished, now, seen, again, below, beyond>>
    BY DEF Arrive, SameRound, reads
  <1>2. /\ Workers' = Workers /\ Set' = Set /\ Threads' = Threads /\ Share' = Share
        /\ Passes' = Passes /\ InTimed' = InTimed /\ Chasing' = Chasing /\ Earlier' = Earlier
        /\ prog' = prog /\ round' = round /\ pass' = pass
    BY <1>1, RoundFacts DEF SameRound
  <1>3. wpc \in [Workers -> {"none", "new", "barrier", "reading", "done"}] /\ bufs \in [Workers -> Nat]
    BY <1>0 DEF TypeInv
  <1>4. \A v \in Workers : v # w => wpc'[v] = wpc[v] /\ bufs'[v] = bufs[v]
    BY <1>1, <1>3
  <1>5. wpc'[w] = IF Threads THEN "barrier" ELSE "reading"
    BY <1>1, <1>3
  <1>6. TypeInv'
    <2>1. wpc' \in [Workers -> {"none", "new", "barrier", "reading", "done"}]
      BY <1>1, <1>3
    <2>2. bufs' \in [Workers -> Nat]
      BY <1>0, <1>1, <1>3, SetFacts DEF Threads
    <2> QED
      BY <1>0, <1>1, <1>2, <2>1, <2>2 DEF TypeInv
  <1>7. OrderInv'
    <2>1. ~(w >= created)
      BY <1>0, <1>1 DEF OrderInv
    <2>2. ~(k[w] > 0)
      BY <1>0, <1>1 DEF OrderInv, Timed
    <2> QED
      BY <1>0, <1>1, <1>2, <1>4, <2>1, <2>2 DEF OrderInv
  <1>8. ThreadInv'
    <2> SUFFICES ASSUME Threads PROVE ThreadInv'
      BY <1>2 DEF ThreadInv
    <2>1. wpc'[w] = "barrier" /\ bufs'[w] = Set.burst
      BY <1>1, <1>3
    <2>2. \A v \in Workers : wpc'[v] \in Arrived => bufs'[v] = Set.burst
      BY <1>0, <1>4, <2>1 DEF ThreadInv
    <2>3. \A v \in Workers : wpc'[v] \notin Timed
      <3>1. \A v \in Workers : wpc[v] \notin Timed
        BY <1>0, <1>1 DEF ThreadInv, Arrived
      <3> QED
        BY <1>4, <2>1, <3>1 DEF Timed
    <2> QED
      BY <1>2, <2>2, <2>3 DEF ThreadInv, Timed
  <1>9. ShareInv' /\ JoinInv' /\ InsideInv'
    <2>1. \A v \in Workers : wpc'[v] = "done" <=> wpc[v] = "done"
      BY <1>1, <1>4, <1>5
    <2> QED
      BY <1>0, <1>1, <1>2, <2>1 DEF ShareInv, JoinInv, InsideInv, RoundOver
  <1> QED
    BY <1>6, <1>7, <1>8, <1>9 DEF Inv

\* A thread passes the barrier once all have arrived, and looks at the clock.
LEMMA PassBarrierInv == ASSUME Inv, NEW w \in Workers, PassBarrier(w) PROVE Inv'
  <1>0. TypeInv /\ OrderInv /\ ThreadInv /\ ShareInv /\ JoinInv /\ InsideInv
    BY DEF Inv
  <1>1. /\ SameRound /\ wpc[w] = "barrier" /\ BarrierOpen
        /\ wpc' = [wpc EXCEPT ![w] = "reading"] /\ begin' = [begin EXCEPT ![w] = now]
        /\ UNCHANGED <<main, status, created, joined, bufs, k, work, loc, t, finished, now, seen, again, below, beyond>>
    BY DEF PassBarrier, SameRound, reads
  <1>2. /\ Workers' = Workers /\ Set' = Set /\ Threads' = Threads /\ Share' = Share
        /\ Passes' = Passes /\ InTimed' = InTimed /\ Chasing' = Chasing /\ Earlier' = Earlier
        /\ prog' = prog /\ round' = round /\ pass' = pass
    BY <1>1, RoundFacts DEF SameRound
  <1>3. /\ wpc \in [Workers -> {"none", "new", "barrier", "reading", "done"}]
        /\ begin \in [Workers -> Nat] /\ now \in Nat
    BY <1>0, Numbers DEF TypeInv
  <1>4. \A v \in Workers : v # w => wpc'[v] = wpc[v] /\ begin'[v] = begin[v]
    BY <1>1, <1>3
  <1>5. wpc'[w] = "reading" /\ begin'[w] = now
    BY <1>1, <1>3
  <1>6. TypeInv'
    <2>1. wpc' \in [Workers -> {"none", "new", "barrier", "reading", "done"}]
            /\ begin' \in [Workers -> Nat]
      BY <1>1, <1>3
    <2> QED
      BY <1>0, <1>1, <1>2, <2>1 DEF TypeInv
  <1>7. OrderInv'
    <2>1. ~(w >= created)
      BY <1>0, <1>1 DEF OrderInv
    <2>2. \A v \in Workers : begin'[v] <= now
      BY <1>0, <1>3, <1>4, <1>5 DEF OrderInv
    <2>3. \A v \in Workers : k[v] > 0 => wpc'[v] \in Timed
      BY <1>0, <1>4, <1>5 DEF OrderInv, Timed
    <2> QED
      BY <1>0, <1>1, <1>2, <1>4, <2>1, <2>2, <2>3 DEF OrderInv
  <1>8. ThreadInv'
    <2>1. \A v \in Workers : wpc'[v] \in Arrived
      BY <1>1, <1>4, <1>5 DEF BarrierOpen, Arrived
    <2>2. \A v \in Workers : wpc[v] \in Arrived
      BY <1>1 DEF BarrierOpen, Arrived
    <2>3. \A v \in Workers : wpc'[v] = "done" => v # w /\ wpc[v] = "done"
      BY <1>4, <1>5
    <2> QED
      BY <1>0, <1>1, <1>2, <1>4, <2>1, <2>2, <2>3 DEF ThreadInv
  <1>9. ShareInv' /\ JoinInv' /\ InsideInv'
    <2>1. \A v \in Workers : wpc'[v] = "done" <=> wpc[v] = "done"
      BY <1>1, <1>4, <1>5
    <2> QED
      BY <1>0, <1>1, <1>2, <2>1 DEF ShareInv, JoinInv, InsideInv, RoundOver
  <1> QED
    BY <1>6, <1>7, <1>8, <1>9 DEF Inv

\* C's remainder stays within the array's size on either side of zero.
LEMMA CModBounds ==
    ASSUME NEW a \in Int, NEW m \in Nat \ {0}
    PROVE  CMod(a, m) \in 1 - m .. m - 1 /\ (a >= 0 => CMod(a, m) >= 0)
  <1>1. CASE a >= 0
    <2>1. a % m \in 0 .. m - 1
      BY <1>1, DivModNat
    <2> QED
      BY <1>1, <2>1 DEF CMod
  <1>2. CASE a < 0
    <2>1. (-a) % m \in 0 .. m - 1
      BY <1>2, DivModNat
    <2> QED
      BY <1>2, <2>1 DEF CMod
  <1> QED
    BY <1>1, <1>2

\* A wrapped int is a number.
LEMMA WrappedType == ASSUME NEW x \in Nat PROVE Wrapped(x) \in Int
  <1>1. PICK m \in Nat \ {0}, y \in Nat : m = 2 * (IntMax + 1) /\ y = x + IntMax + 1
    BY Numbers
  <1>2. y % m \in 0 .. m - 1
    BY DivModNat
  <1> QED
    BY <1>1, <1>2, Numbers DEF Wrapped

\* Where the threads of throughput.cpp read: never behind the array, and not in
\* front of it as long as op*stride is an int.
LEMMA ThroughputInside ==
    ASSUME TypeInv, Threads, NEW w \in Workers,
           NEW n \in Nat, n < Set.op * Set.burst, NEW l \in ThroughputLocs(w, n)
    PROVE  /\ l \in 1 - prog.size .. prog.size - 1
           /\ l < 0 => Set.op * Set.stride > IntMax
  <1>1. /\ Set.op \in Nat \ {0} /\ Set.stride \in Nat \ {0} /\ Set.burst \in Nat \ {0}
        /\ prog.size \in Nat \ {0} /\ w \in Nat
    BY SetFacts DEF Threads, Workers
  <1>2. PICK q \in Nat, r \in Nat : q = n \div Set.burst /\ r = n % Set.burst
                                  /\ n = q * Set.burst + r
    <2>1. n = (n \div Set.burst) * Set.burst + (n % Set.burst)
            /\ n % Set.burst \in 0 .. Set.burst - 1 /\ n \div Set.burst \in Nat
      BY <1>1, DivModNat
    <2> QED
      BY <1>1, <2>1
  <1>3. q < Set.op
    <2> SUFFICES ASSUME q >= Set.op PROVE FALSE
      BY <1>1
    <2>1. q * Set.burst >= Set.op * Set.burst
      BY <1>1
    <2>2. PICK all \in Nat, part \in Nat : all = Set.op * Set.burst /\ part = q * Set.burst
      BY <1>1
    <2>3. n = part + r /\ part >= all /\ n < all
      BY <1>2, <2>1, <2>2
    <2> QED
      BY <2>3
  <1>4. PICK y \in Nat, z \in Nat : y = q * Set.stride /\ z = Set.op * Set.stride /\ y <= z
    <2>1. q * Set.stride <= Set.op * Set.stride
      BY <1>1, <1>3
    <2>2. q * Set.stride \in Nat /\ Set.op * Set.stride \in Nat
      BY <1>1
    <2> QED
      BY <2>1, <2>2
  <1>5. PICK x \in IntProducts(y) : l = CMod(Set.op * Set.stride * w + x + r, prog.size)
    BY <1>2, <1>4 DEF ThroughputLocs
  <1>6. x \in Int /\ (z <= IntMax => x \in Nat)
    BY <1>4, WrappedType, Numbers DEF IntProducts
  <1>7. PICK c \in Nat : c = Set.op * Set.stride * w
    BY <1>1
  <1>8. PICK a \in Int : a = c + x + r
    BY <1>6
  <1>9. z <= IntMax => a >= 0
    BY <1>6, <1>8
  <1>10. l = CMod(a, prog.size)
    BY <1>5, <1>7, <1>8
  <1>11. l \in 1 - prog.size .. prog.size - 1 /\ (a >= 0 => l >= 0)
    BY <1>1, <1>10, CModBounds
  <1> QED
    BY <1>1, <1>4, <1>9, <1>11, Numbers

\* A worker of a thread or chase program goes on until it has read its share.
LEMMA MoreIsShare ==
    ASSUME TypeInv, prog.kind # "sweep", NEW w \in Workers
    PROVE  More(w) <=> k[w] < Share
  <1>1. prog.kind \in {"throughput", "chase_cpu", "chase_gpu"}
    BY SetFacts DEF Kinds
  <1> QED
    BY <1>1 DEF More, Share, Threads

\* A read is one more of the worker's share, and inside the array.
LEMMA ReadStepInv == ASSUME Inv, NEW w \in Workers, Read(w) PROVE Inv'
  <1>0. TypeInv /\ OrderInv /\ ThreadInv /\ ShareInv /\ JoinInv /\ InsideInv
    BY DEF Inv
  <1>1. /\ SameRound /\ wpc[w] = "reading" /\ More(w)
        /\ k' = [k EXCEPT ![w] = @ + 1]
        /\ work' = [work EXCEPT ![w] = IF InTimed THEN @ + 1 ELSE @]
        /\ UNCHANGED <<main, status, created, joined, wpc, bufs, begin, t, finished, now>>
    BY DEF Read, SameRound
  <1>2. PICK l \in Locs(w) :
          /\ again' = (again \/ l \in seen)
          /\ below' = (below \/ l < 0)
          /\ beyond' = (beyond \/ l \notin 1 - prog.size .. prog.size - 1)
          /\ loc' = [loc EXCEPT ![w] = IF Chasing THEN NextLoc(l) ELSE @]
    BY DEF Read
  <1>3. /\ Workers' = Workers /\ Set' = Set /\ Threads' = Threads /\ Share' = Share
        /\ Passes' = Passes /\ InTimed' = InTimed /\ Chasing' = Chasing /\ Earlier' = Earlier
        /\ prog' = prog /\ round' = round /\ pass' = pass
    BY <1>1, RoundFacts DEF SameRound
  <1>4. /\ k \in [Workers -> Nat] /\ loc \in [Workers -> 0 .. prog.size - 1] /\ k[w] \in Nat
        /\ work \in [Workers -> Nat] /\ work[w] \in Nat
    BY <1>0 DEF TypeInv
  <1>5. /\ k'[w] = k[w] + 1 /\ work'[w] = IF InTimed THEN work[w] + 1 ELSE work[w]
        /\ \A v \in Workers : v # w => k'[v] = k[v] /\ work'[v] = work[v]
    BY <1>1, <1>4
  <1>6. prog.kind \in {"chase_cpu", "chase_gpu"} => l \in 0 .. prog.size - 1
    <2>1. CASE prog.kind = "chase_gpu" /\ pass = 1
      <3>1. l = k[w] /\ k[w] < prog.size
        BY <1>1, <1>2, <2>1 DEF Locs, More
      <3> QED
        BY <1>0, <1>4, <3>1, SetFacts
    <2>2. CASE ~(prog.kind = "chase_gpu" /\ pass = 1)
      BY <1>2, <1>4, <2>2 DEF Locs
    <2> QED
      BY <2>1, <2>2
  <1>7. TypeInv'
    <2>1. k' \in [Workers -> Nat] /\ work' \in [Workers -> Nat]
      BY <1>1, <1>4
    <2>2. Chasing => NextLoc(l) \in 0 .. prog.size - 1
      BY <1>0, <1>6, NextLocType DEF Chasing
    <2>3. loc' \in [Workers -> 0 .. prog.size - 1]
      BY <1>2, <1>4, <2>2
    <2>4. again' \in BOOLEAN
      BY <1>2
    <2>5. below' \in BOOLEAN /\ beyond' \in BOOLEAN
      BY <1>2
    <2> QED
      BY <1>0, <1>1, <1>3, <2>1, <2>3, <2>4, <2>5 DEF TypeInv
  <1>8. OrderInv'
    <2>1. \A v \in Workers : k'[v] > 0 => wpc[v] \in Timed
      BY <1>0, <1>1, <1>5 DEF OrderInv, Timed
    <2> QED
      BY <1>0, <1>1, <1>3, <2>1 DEF OrderInv
  <1>9. ThreadInv'
    BY <1>0, <1>1, <1>3 DEF ThreadInv
  <1>10. ASSUME prog.kind # "sweep" PROVE k[w] < Share /\ Share \in Nat
    <2>1. Share \in Nat
      BY <1>0, <1>10, ShareType
    <2>2. More(w) <=> k[w] < Share
      BY <1>0, <1>10, MoreIsShare
    <2> QED
      BY <1>1, <2>1, <2>2
  <1>11. ShareInv'
    <2> SUFFICES ASSUME prog.kind # "sweep", NEW v \in Workers
                 PROVE  /\ k'[v] <= Share
                        /\ status = "success" =>
                              /\ wpc[v] = "done" => k'[v] = Share
                              /\ work'[v] = Earlier + (IF InTimed THEN k'[v] ELSE 0)
      BY <1>1, <1>3 DEF ShareInv
    <2>1. CASE v = w
      <3>1. k'[w] <= Share /\ wpc[w] # "done"
        BY <1>1, <1>4, <1>5, <1>10
      <3>2. Earlier \in Nat
        BY <1>0, SetFacts DEF Earlier
      <3>3. status = "success" => work'[w] = Earlier + (IF InTimed THEN k'[w] ELSE 0)
        BY <1>0, <1>4, <1>5, <3>2 DEF ShareInv
      <3> QED
        BY <2>1, <3>1, <3>3
    <2>2. CASE v # w
      BY <1>0, <1>5, <2>2 DEF ShareInv
    <2> QED
      BY <2>1, <2>2
  <1>12. JoinInv'
    BY <1>0, <1>1, <1>3 DEF JoinInv, RoundOver
  <1>13. InsideInv'
    <2> SUFFICES ASSUME prog.kind # "sweep"
                 PROVE  ~beyond' /\ (below' => Threads /\ Set.op * Set.stride > IntMax)
      BY <1>3 DEF InsideInv
    <2>1. ~beyond /\ (below => Threads /\ Set.op * Set.stride > IntMax)
      BY <1>0 DEF InsideInv
    <2>2. CASE Threads
      <3>1. l \in ThroughputLocs(w, k[w]) /\ k[w] < Set.op * Set.burst
        BY <1>1, <1>2, <2>2 DEF Locs, More, Threads
      <3>2. l \in 1 - prog.size .. prog.size - 1 /\ (l < 0 => Set.op * Set.stride > IntMax)
        BY <1>0, <1>4, <2>2, <3>1, ThroughputInside
      <3> QED
        BY <1>2, <2>1, <2>2, <3>2
    <2>3. CASE ~Threads
      <3>1. l \in 0 .. prog.size - 1
        BY <1>0, <1>6, <2>3, SetFacts DEF Threads, Kinds
      <3>2. ~(l < 0) /\ l \in 1 - prog.size .. prog.size - 1
        BY <1>0, <3>1, SetFacts
      <3> QED
        BY <1>2, <2>1, <3>2
    <2> QED
      BY <2>2, <2>3
  <1> QED
    BY <1>7, <1>8, <1>9, <1>11, <1>12, <1>13 DEF Inv

\* A worker that is through has done its share and reports at least its time.
LEMMA FinishInv == ASSUME Inv, NEW w \in Workers, Finish(w) PROVE Inv'
  <1>0. TypeInv /\ OrderInv /\ ThreadInv /\ ShareInv /\ JoinInv /\ InsideInv
    BY DEF Inv
  <1>1. /\ SameRound /\ wpc[w] = "reading" /\ ~More(w)
        /\ wpc' = [wpc EXCEPT ![w] = "done"]
        /\ finished' = [finished EXCEPT ![w] = now]
        /\ t' = [t EXCEPT ![w] = Elapsed(begin[w], now)]
        /\ UNCHANGED <<main, status, created, joined, bufs, k, work, loc, begin, now, seen, again, below, beyond>>
    BY DEF Finish, SameRound, reads
  <1>2. /\ Workers' = Workers /\ Set' = Set /\ Threads' = Threads /\ Share' = Share
        /\ Passes' = Passes /\ InTimed' = InTimed /\ Chasing' = Chasing /\ Earlier' = Earlier
        /\ prog' = prog /\ round' = round /\ pass' = pass
    BY <1>1, RoundFacts DEF SameRound
  <1>3. /\ wpc \in [Workers -> {"none", "new", "barrier", "reading", "done"}]
        /\ t \in [Workers -> Nat] /\ finished \in [Workers -> Nat]
        /\ now \in Nat /\ begin[w] \in Nat /\ k[w] \in Nat
    BY <1>0, Numbers DEF TypeInv
  <1>4. Elapsed(begin[w], now) \in Nat /\ Elapsed(begin[w], now) >= now - begin[w]
    BY <1>0, <1>3, ElapsedCovers DEF OrderInv
  <1>5. \A v \in Workers : v # w => wpc'[v] = wpc[v] /\ t'[v] = t[v] /\ finished'[v] = finished[v]
    BY <1>1, <1>3
  <1>6. wpc'[w] = "done" /\ t'[w] = Elapsed(begin[w], now) /\ finished'[w] = now
    BY <1>1, <1>3
  <1>7. TypeInv'
    <2>1. /\ wpc' \in [Workers -> {"none", "new", "barrier", "reading", "done"}]
          /\ t' \in [Workers -> Nat] /\ finished' \in [Workers -> Nat]
      BY <1>1, <1>3, <1>4
    <2> QED
      BY <1>0, <1>1, <1>2, <2>1 DEF TypeInv
  <1>8. OrderInv'
    <2>1. ~(w >= created)
      BY <1>0, <1>1 DEF OrderInv
    <2>2. \A v \in Workers : k[v] > 0 => wpc'[v] \in Timed
      BY <1>0, <1>5, <1>6 DEF OrderInv, Timed
    <2> QED
      BY <1>0, <1>1, <1>2, <1>5, <2>1, <2>2 DEF OrderInv
  <1>9. ThreadInv'
    <2> SUFFICES ASSUME Threads PROVE ThreadInv'
      BY <1>2 DEF ThreadInv
    <2>1. \A v \in Workers : wpc[v] \in Arrived
      BY <1>0, <1>1 DEF ThreadInv, Timed
    <2>2. \A v \in Workers : wpc'[v] \in Arrived
      BY <1>5, <1>6, <2>1 DEF Arrived
    <2>3. ASSUME NEW v \in Workers, wpc'[v] = "done"
          PROVE  t'[v] >= finished'[v] - begin[v]
      <3>1. CASE v = w
        BY <1>4, <1>6, <3>1
      <3>2. CASE v # w
        BY <1>0, <1>5, <2>3, <3>2 DEF ThreadInv
      <3> QED
        BY <3>1, <3>2
    <2> QED
      BY <1>0, <1>1, <1>2, <2>1, <2>2, <2>3 DEF ThreadInv
  <1>10. ASSUME prog.kind # "sweep" PROVE k[w] >= Share /\ Share \in Nat
    <2>1. Share \in Nat
      BY <1>0, <1>10, ShareType
    <2>2. More(w) <=> k[w] < Share
      BY <1>0, <1>10, MoreIsShare
    <2> QED
      BY <1>1, <1>3, <2>1, <2>2
  <1>11. ShareInv'
    <2> SUFFICES ASSUME prog.kind # "sweep", status = "success", NEW v \in Workers, wpc'[v] = "done"
                 PROVE  k[v] = Share
      BY <1>0, <1>1, <1>2 DEF ShareInv
    <2>1. k[v] <= Share
      BY <1>0 DEF ShareInv
    <2>2. CASE v = w
      BY <1>3, <1>10, <2>1, <2>2
    <2>3. CASE v # w
      BY <1>0, <1>5, <2>3 DEF ShareInv
    <2> QED
      BY <2>2, <2>3
  <1>12. JoinInv' /\ InsideInv'
    <2>1. \A v \in Workers : wpc[v] = "done" => wpc'[v] = "done"
      BY <1>5, <1>6
    <2> QED
      BY <1>0, <1>1, <1>2, <2>1 DEF JoinInv, InsideInv, RoundOver
  <1> QED
    BY <1>7, <1>8, <1>9, <1>11, <1>12 DEF Inv

\* The clock runs on.
LEMMA TickInv == ASSUME Inv, Tick PROVE Inv'
  <1>0. TypeInv /\ OrderInv /\ ThreadInv /\ ShareInv /\ JoinInv /\ InsideInv
    BY DEF Inv
  <1>1. /\ SameRound /\ now < MaxTime /\ now' = now + 1
        /\ UNCHANGED <<main, status, created, joined, wpc, bufs, k, work, loc, begin, t, finished,
                       seen, again, below, beyond>>
    BY DEF Tick, SameRound, workers, reads
  <1>2. /\ Workers' = Workers /\ Set' = Set /\ Threads' = Threads /\ Share' = Share
        /\ Passes' = Passes /\ InTimed' = InTimed /\ Chasing' = Chasing /\ Earlier' = Earlier
        /\ prog' = prog /\ round' = round /\ pass' = pass
    BY <1>1, RoundFacts DEF SameRound
  <1>3. now \in Nat /\ now' \in 0 .. MaxTime
    BY <1>0, <1>1, Numbers DEF TypeInv
  <1>4. TypeInv'
    BY <1>0, <1>1, <1>2, <1>3 DEF TypeInv
  <1>5. \A w \in Workers : begin[w] <= now'
    BY <1>0, <1>1, <1>3 DEF OrderInv, TypeInv
  <1>6. OrderInv'
    BY <1>0, <1>1, <1>2, <1>5 DEF OrderInv
  <1>7. ThreadInv' /\ ShareInv' /\ JoinInv' /\ InsideInv'
    BY <1>0, <1>1, <1>2 DEF ThreadInv, ShareInv, JoinInv, InsideInv, RoundOver
  <1> QED
    BY <1>4, <1>6, <1>7 DEF Inv

\* Main waits for the workers in order.
LEMMA JoinStepInv == ASSUME Inv, Join PROVE Inv'
  <1>0. TypeInv /\ OrderInv /\ ThreadInv /\ ShareInv /\ JoinInv /\ InsideInv
    BY DEF Inv
  <1>1. /\ SameRound /\ main = "join" /\ RoundOver /\ wpc[joined] = "done" /\ joined' = joined + 1
        /\ main' = IF joined + 1 = prog.workers THEN "report" ELSE main
        /\ UNCHANGED <<status, created, wpc, bufs, k, work, loc, begin, t, finished, now, seen, again, below, beyond>>
    BY DEF Join, SameRound, workers, reads
  <1>2. /\ Workers' = Workers /\ Set' = Set /\ Threads' = Threads /\ Share' = Share
        /\ Passes' = Passes /\ InTimed' = InTimed /\ Chasing' = Chasing /\ Earlier' = Earlier
        /\ prog' = prog /\ round' = round /\ pass' = pass
    BY <1>1, RoundFacts DEF SameRound
  <1>3. joined \in Nat /\ prog.workers \in Nat /\ joined < prog.workers
    BY <1>0, <1>1, SetFacts DEF TypeInv
  <1>4. TypeInv'
    <2>1. /\ joined' \in 0 .. prog.workers /\ main' \in {"start", "join", "report", "exit"}
          /\ main' # "start"
          /\ main' = "join" => joined' < prog.workers
      BY <1>1, <1>3
    <2> QED
      BY <1>0, <1>1, <1>2, <2>1 DEF TypeInv
  <1>5. JoinInv'
    <2>1. \A w \in Workers : w < joined + 1 => wpc[w] = "done"
      <3>1. \A w \in Workers : w < joined + 1 => w < joined \/ w = joined
        BY <1>3 DEF Workers
      <3> QED
        BY <1>0, <1>1, <3>1 DEF JoinInv
    <2>2. main' \in {"report", "exit"} => joined' = prog.workers
      BY <1>1
    <2>3. main' # "start" /\ RoundOver'
      BY <1>1, <1>2 DEF RoundOver
    <2> QED
      BY <1>1, <1>2, <2>1, <2>2, <2>3 DEF JoinInv
  <1>6. OrderInv' /\ ThreadInv' /\ ShareInv' /\ InsideInv'
    BY <1>0, <1>1, <1>2 DEF OrderInv, ThreadInv, ShareInv, InsideInv
  <1> QED
    BY <1>4, <1>5, <1>6 DEF Inv

\* The next setting starts from fresh workers.
LEMMA ReportInv == ASSUME Inv, Report PROVE Inv'
  <1>0. TypeInv /\ OrderInv /\ ThreadInv /\ ShareInv /\ JoinInv /\ InsideInv
    BY DEF Inv
  <1>1. CASE round < Len(prog.rounds) /\ round' = round + 1 /\ Fresh
               /\ now' \in (IF Threads THEN 0 .. NS - 1 ELSE {0}) /\ UNCHANGED <<prog, t>>
    <2>1. /\ prog' = prog /\ Workers' = Workers /\ Threads' = Threads /\ t' = t
          /\ prog.workers \in Nat \ {0} /\ prog.size \in Nat \ {0}
      BY <1>0, <1>1, SetFacts DEF Workers, Threads
    <2>2. round' \in 1 .. Len(prog.rounds)
      BY <1>0, <1>1, ProgramFacts DEF TypeInv
    <2>3. now' \in 0 .. MaxTime
      BY <1>1, Numbers
    <2>4. /\ \A w \in Workers : wpc'[w] = "none" /\ k'[w] = 0 /\ work'[w] = 0 /\ begin'[w] = 0
          /\ pass' = 1 /\ created' = 0
      BY <1>1 DEF Fresh
    <2>5. TypeInv'
      <3>1. /\ again' \in BOOLEAN /\ below' \in BOOLEAN /\ beyond' \in BOOLEAN
            /\ status' \in {"success", "error"}
        BY <1>1 DEF Fresh
      <3>0. pass' \in 1 .. Passes'
        <4>1. Passes' = Passes /\ Passes \in Nat \ {0}
          BY <1>0, <2>1, SetFacts, PassesType DEF Passes
        <4> QED
          BY <2>4, <4>1
      <3>2. /\ wpc' \in [Workers -> {"none", "new", "barrier", "reading", "done"}]
            /\ bufs' \in [Workers -> Nat] /\ k' \in [Workers -> Nat] /\ work' \in [Workers -> Nat]
            /\ begin' \in [Workers -> Nat] /\ finished' \in [Workers -> Nat]
        BY <1>1 DEF Fresh
      <3>3. loc' \in [Workers -> 0 .. prog.size - 1]
        BY <1>1, <2>1 DEF Fresh
      <3>4. /\ main' \in {"start", "join", "report", "exit"}
            /\ created' \in 0 .. prog.workers /\ joined' \in 0 .. prog.workers
            /\ main' = "start" => created' < prog.workers
            /\ main' = "join" => joined' < prog.workers
        BY <1>1, <2>1 DEF Fresh
      <3> QED
        BY <1>0, <2>1, <2>2, <2>3, <3>0, <3>1, <3>2, <3>3, <3>4 DEF TypeInv
    <2>6. OrderInv' /\ ThreadInv'
      BY <2>1, <2>3, <2>4, Numbers DEF OrderInv, ThreadInv, Arrived, Timed
    <2>7. ShareInv'
      <3>1. (prog.kind # "sweep" => Share \in Nat)'
        BY <2>5, ShareType, PTL
      <3> QED
        BY <2>1, <2>4, <3>1 DEF ShareInv, Earlier
    <2>8. JoinInv' /\ InsideInv'
      BY <1>1, <2>1 DEF Fresh, JoinInv, InsideInv, Workers
    <2> QED
      BY <2>5, <2>6, <2>7, <2>8 DEF Inv
  <1>2. CASE main' = "exit" /\ main = "report"
               /\ UNCHANGED <<prog, round, pass, status, created, joined, workers, now, reads>>
    <2>1. /\ SameRound
          /\ UNCHANGED <<status, created, joined, wpc, bufs, k, work, loc, begin, t, finished, now,
                         seen, again, below, beyond>>
      BY <1>2 DEF SameRound, workers, reads
    <2>2. /\ Workers' = Workers /\ Set' = Set /\ Threads' = Threads /\ Share' = Share
          /\ Passes' = Passes /\ InTimed' = InTimed /\ Chasing' = Chasing /\ Earlier' = Earlier
          /\ prog' = prog /\ round' = round /\ pass' = pass
      BY <2>1, RoundFacts DEF SameRound
    <2>3. TypeInv'
      BY <1>0, <1>2, <2>1, <2>2 DEF TypeInv
    <2>4. OrderInv' /\ ThreadInv' /\ ShareInv' /\ JoinInv' /\ InsideInv'
      BY <1>0, <1>2, <2>1, <2>2 DEF OrderInv, ThreadInv, ShareInv, JoinInv, InsideInv, RoundOver
    <2> QED
      BY <2>3, <2>4 DEF Inv
  <1> QED
    BY <1>1, <1>2 DEF Report

\* The invariant holds throughout a program.
THEOREM Invariance == Spec => []Inv
  <1>1. Inv /\ [Next]_vars => Inv'
    <2> SUFFICES ASSUME Inv, [Next]_vars PROVE Inv'
      OBVIOUS
    <2>1. ASSUME UNCHANGED vars PROVE Inv'
      <3>1. UNCHANGED <<prog, round, main, pass, status, created, joined, wpc, bufs, k, work, loc, begin, t, finished,
                        now, seen, again, below, beyond>>
        BY <2>1 DEF vars, workers, reads
      <3>2. /\ Workers' = Workers /\ Set' = Set /\ Threads' = Threads /\ Share' = Share
            /\ Passes' = Passes /\ InTimed' = InTimed /\ Earlier' = Earlier
        BY <3>1, RoundFacts DEF SameRound
      <3> QED
        BY <3>1, <3>2 DEF Inv, TypeInv, OrderInv, ThreadInv, ShareInv, JoinInv, InsideInv, RoundOver
    <2> QED
      BY <2>1, CreateInv, NextPassInv, ArriveInv, PassBarrierInv, ReadStepInv, FinishInv, TickInv, JoinStepInv,
         ReportInv DEF Next, Exited
  <1> QED
    BY <1>1, InitInv, PTL DEF Spec

\* Types, and the chases' positions within the array.
THEOREM TypeCorrect == Spec => []TypeOK
  <1>1. Inv => TypeOK
    <2> SUFFICES ASSUME TypeInv PROVE TypeOK
      BY DEF Inv
    <2>1. DOMAIN prog.rounds = 1 .. Len(prog.rounds)
      BY ProgramsAssumption DEF TypeInv
    <2> QED
      BY <2>1 DEF TypeInv, TypeOK
  <1> QED
    BY <1>1, Invariance, PTL

\* No thread's timed loop begins before all are at the barrier, every thread sums
\* into an array of its round's burst, and none reports less time than it took.
THEOREM TimedTogether == Spec => []MeasuredTogether
  <1>1. Inv => MeasuredTogether
    BY DEF Inv, OrderInv, ThreadInv, MeasuredTogether, Arrived, Timed
  <1> QED
    BY <1>1, Invariance, PTL

\* When main divides work by time, every thread has read its op*burst elements and
\* a chase whose launch succeeded its op, on the clock; no read has fallen behind
\* the array, and none in front of it while op*stride is an int.
WorkShared ==
    main = "report" /\ prog.kind # "sweep" =>
        /\ status = "success" =>
              \A w \in Workers : work[w] = IF Threads THEN Set.op * Set.burst ELSE Set.op
        /\ ~beyond
        /\ below => Threads /\ Set.op * Set.stride > IntMax

\* Main reports only work that was done: pthread_join has been passed for every
\* worker, and each read exactly its share in the timed pass, whatever the
\* settings are: they need not come out even.
THEOREM SharesDone == Spec => []WorkShared
  <1>1. Inv => WorkShared
    <2> SUFFICES ASSUME Inv, main = "report", prog.kind # "sweep", status = "success",
                        NEW w \in Workers
                 PROVE  work[w] = IF Threads THEN Set.op * Set.burst ELSE Set.op
      BY DEF WorkShared, Inv, InsideInv
    <2>0. TypeInv /\ ShareInv /\ JoinInv
      BY DEF Inv
    <2>1. prog.workers \in Nat \ {0} /\ joined = prog.workers /\ w < prog.workers
      BY <2>0, SetFacts DEF JoinInv, Workers
    <2>2. wpc[w] = "done" /\ RoundOver
      BY <2>0, <2>1 DEF JoinInv
    <2>3. k[w] = Share /\ work[w] = Earlier + (IF InTimed THEN k[w] ELSE 0) /\ Share \in Nat
      BY <2>0, <2>2, ShareType DEF ShareInv
    <2>4. pass = Passes
      BY <2>2 DEF RoundOver
    <2>5. Set.op \in Nat
      BY <2>0, SetFacts
    <2>6. CASE prog.kind \in {"throughput", "chase_cpu"}
      <3>1. InTimed /\ Earlier = 0
        BY <2>4, <2>6 DEF InTimed, Earlier, Passes
      <3>2. Share = IF Threads THEN Set.op * Set.burst ELSE Set.op
        BY <2>6 DEF Share, Threads
      <3> QED
        BY <2>3, <3>1, <3>2
    <2>7. CASE prog.kind = "chase_gpu"
      <3>1. ~InTimed /\ Earlier = Set.op /\ ~Threads
        BY <2>4, <2>7 DEF InTimed, Earlier, Passes, Threads
      <3> QED
        BY <2>3, <2>5, <3>1
    <2> QED
      BY <2>0, <2>6, <2>7, SetFacts DEF Kinds
  <1> QED
    BY <1>1, Invariance, PTL

-----------------------------------------------------------------------------
(***************************************************************************)
(* All the work.  The rounds come out even: a sweep's threads are whole     *)
(* groups of b, its array whole turns of the unrolled loop and its groups   *)
(* apart; a chase is one worker that does not come round to its start.  The *)
(* settings of the programs do: 8192 threads in groups of 16 to 128, s =    *)
(* 256 and 2^29 elements; 100 steps of 32 words in 2^22 bytes; 160 steps of *)
(* 16384 in 5242880 elements.                                               *)
(***************************************************************************)
Even(q, r) ==
    /\ q.kind = "sweep" =>
          /\ r.b <= r.s /\ q.workers % r.b = 0
          /\ q.size % (Unroll * (r.s * (q.workers \div r.b))) = 0
    /\ q.kind = "chase_cpu" => q.workers = 1 /\ WordBytes * (r.op * r.stride) <= q.size
    /\ q.kind = "chase_gpu" => q.workers = 1 /\ r.op * r.stride <= q.size
EvenRounds == \A q \in Programs : \A i \in 1 .. Len(q.rounds) : Even(q, q.rounds[i])

\* The elements one worker reads in a pass, of a sweep too.
Part == IF prog.kind = "sweep" THEN prog.size \div SweepStep ELSE Share

\* The n-th element worker w reads in a pass, but for the last read of the GPU chase.
Place(w, n) ==
    CASE prog.kind = "sweep" -> SweepStart(w) + n * SweepStep
      [] prog.kind = "chase_gpu" /\ pass = 1 -> n
      [] OTHER -> n * Set.stride

LastRead == prog.kind = "chase_gpu" /\ pass = 3

\* A worker has read no more than its part of a pass, and all of it when it is
\* through and its launch succeeded.
PartInv ==
    ~Threads =>
        /\ \A w \in Workers : k[w] <= Part
        /\ status = "success" => \A w \in Workers : wpc[w] = "done" => k[w] = Part

\* A chase is at the next place of its part; the GPU's begins there.
ChaseInv ==
    ~Threads =>
        /\ Chasing => \A w \in Workers : k[w] < Part => loc[w] = Place(w, k[w])
        /\ prog.kind = "chase_gpu" /\ pass = 1 => \A w \in Workers : loc[w] = 0

\* What the workers have read in a pass are the first elements of their parts.
SeenInv ==
    ~Threads =>
        /\ IF LastRead THEN \A w \in Workers : k[w] = 0 => seen = {}
           ELSE \A l \in seen : \E w \in Workers : \E n \in 0 .. k[w] - 1 : l = Place(w, n)
        /\ ~again /\ ~below /\ ~beyond

\* A sweep has read its parts of all earlier timed passes and k of this one,
\* unless one of these launches failed.
SweepInv ==
    prog.kind = "sweep" =>
        /\ pass = 1 => \A w \in Workers : work[w] = 0
        /\ pass > 1 /\ status = "success" =>
              \A w \in Workers : work[w] = (pass - 2) * Part + k[w]

ReadInv == PartInv /\ ChaseInv /\ SeenInv /\ SweepInv

\* A sweep of which a timed launch has failed is a whole part behind that.
FailInv ==
    prog.kind = "sweep" =>
        /\ main = "start" => pass = 1
        /\ pass > 1 /\ status = "error" =>
              \A w \in Workers :
                  IF wpc[w] = "done" THEN work[w] <= (pass - 2) * Part
                  ELSE work[w] + Part <= (pass - 2) * Part + k[w]

\* Quotient and remainder are determined.
LEMMA TermsUnique ==
    ASSUME NEW m \in Nat \ {0}, NEW a \in Nat, NEW c \in Nat,
           NEW x \in 0 .. m - 1, NEW y \in 0 .. m - 1, a * m + x = c * m + y
    PROVE  a = c /\ x = y
  <1>1. ASSUME NEW i \in Nat, NEW j \in Nat, i < j PROVE i * m + m <= j * m
    <2>1. (i + 1) * m <= j * m
      BY <1>1
    <2> QED
      BY <2>1
  <1>2. PICK p \in Nat, q \in Nat : p = a * m /\ q = c * m
    OBVIOUS
  <1>3. ~(a < c)
    <2> SUFFICES ASSUME a < c PROVE FALSE
      OBVIOUS
    <2>1. p + m <= q /\ p + x = q + y
      BY <1>1, <1>2
    <2> QED
      BY <2>1
  <1>4. ~(c < a)
    <2> SUFFICES ASSUME c < a PROVE FALSE
      OBVIOUS
    <2>1. q + m <= p /\ p + x = q + y
      BY <1>1, <1>2
    <2> QED
      BY <2>1
  <1>5. a = c
    BY <1>3, <1>4
  <1> QED
    BY <1>2, <1>5

\* The shape of a sweep: its threads are groups of b, its array Part steps.
LEMMA SweepShape ==
    ASSUME EvenRounds, TypeInv, prog.kind = "sweep"
    PROVE  /\ Set.b \in Nat \ {0} /\ Set.s \in Nat \ {0} /\ Set.b <= Set.s
           /\ prog.workers \div Set.b \in Nat \ {0}
           /\ prog.workers = (prog.workers \div Set.b) * Set.b
           /\ SweepStep \in Nat \ {0} /\ SweepStep = Set.s * (prog.workers \div Set.b)
           /\ Part \in Nat /\ prog.size = Part * SweepStep
           /\ Part % Unroll = 0
  <1>1. /\ prog.workers \in Nat \ {0} /\ prog.size \in Nat \ {0}
        /\ Set.b \in Nat \ {0} /\ Set.s \in Nat \ {0}
    <2>1. Set \in [b : Nat \ {0}, s : Nat \ {0}]
      BY ProgramFacts DEF TypeInv, Set, Settings
    <2> QED
      BY <2>1, ProgramFacts DEF TypeInv
  <1>2. /\ Set.b <= Set.s /\ prog.workers % Set.b = 0
        /\ prog.size % (Unroll * SweepStep) = 0
    BY DEF EvenRounds, Even, TypeInv, Set, SweepStep
  <1>3. PICK g \in Nat : g = prog.workers \div Set.b /\ prog.workers = g * Set.b
    <2>1. /\ prog.workers = (prog.workers \div Set.b) * Set.b + (prog.workers % Set.b)
          /\ prog.workers \div Set.b \in Nat
      BY <1>1, DivModNat
    <2> QED
      BY <1>1, <1>2, <2>1
  <1>4. g # 0
    BY <1>1, <1>3
  <1>5. SweepStep = Set.s * g /\ SweepStep \in Nat \ {0}
    BY <1>1, <1>3, <1>4 DEF SweepStep
  <1>6. PICK m \in Nat \ {0} : m = SweepStep
    BY <1>5
  <1>7. PICK um \in Nat \ {0} : um = Unroll * m
    BY <1>6, Numbers
  <1>8. PICK u \in Nat : prog.size = u * um
    <2>1. prog.size = (prog.size \div um) * um + (prog.size % um) /\ prog.size \div um \in Nat
      BY <1>1, <1>7, DivModNat
    <2>2. prog.size % um = 0
      BY <1>2, <1>6, <1>7
    <2> QED
      BY <1>1, <1>7, <2>1, <2>2
  <1>9. PICK p \in Nat : p = u * Unroll
    BY <1>8, Numbers
  <1>10. prog.size = p * m
    <2>1. u * (Unroll * m) = (u * Unroll) * m
      BY <1>6, <1>8, Numbers
    <2> QED
      BY <1>7, <1>8, <1>9, <2>1
  <1>11. prog.size \div m = p
    <2>1. /\ prog.size = (prog.size \div m) * m + (prog.size % m)
          /\ prog.size % m \in 0 .. m - 1 /\ prog.size \div m \in Nat
      BY <1>1, <1>6, DivModNat
    <2>2. p * m + 0 = (prog.size \div m) * m + (prog.size % m) /\ 0 \in 0 .. m - 1
      BY <1>6, <1>9, <1>10, <2>1
    <2> QED
      BY <1>6, <1>9, <2>1, <2>2, TermsUnique
  <1>12. Part = p
    BY <1>6, <1>11 DEF Part
  <1>13. p % Unroll = 0
    <2>1. p = u * Unroll + 0 /\ 0 \in 0 .. Unroll - 1
      BY <1>8, <1>9, Numbers
    <2> QED
      BY <1>8, <1>9, <2>1, ModUnique, Numbers
  <1> QED
    BY <1>1, <1>2, <1>3, <1>4, <1>5, <1>6, <1>9, <1>10, <1>12, <1>13

\* Every thread of a sweep begins within the first step, at its own element.
LEMMA SweepStarts ==
    ASSUME EvenRounds, TypeInv, prog.kind = "sweep", NEW w \in Workers
    PROVE  /\ SweepStart(w) \in 0 .. SweepStep - 1
           /\ \A v \in Workers : SweepStart(v) = SweepStart(w) => v = w
  <1>1. /\ Set.b \in Nat \ {0} /\ Set.s \in Nat \ {0} /\ Set.b <= Set.s
        /\ prog.workers \div Set.b \in Nat \ {0}
        /\ prog.workers = (prog.workers \div Set.b) * Set.b
        /\ SweepStep = Set.s * (prog.workers \div Set.b) /\ prog.workers \in Nat
    BY SweepShape, SetFacts
  <1>2. PICK g \in Nat, b \in Nat \ {0}, s \in Nat \ {0} :
            /\ g = prog.workers \div Set.b /\ b = Set.b /\ s = Set.s
            /\ prog.workers = g * b /\ SweepStep = s * g /\ b <= s
    BY <1>1
  <1>3. ASSUME NEW v \in Workers
        PROVE  /\ v = (v \div b) * b + (v % b) /\ v % b \in 0 .. s - 1
               /\ v \div b \in Nat /\ v \div b < g /\ v % b \in Nat
               /\ SweepStart(v) = (v \div b) * s + (v % b)
    <2>1. v \in Nat /\ v < g * b
      BY <1>1, <1>2 DEF Workers
    <2>2. v = (v \div b) * b + (v % b) /\ v % b \in 0 .. b - 1 /\ v \div b \in Nat
      BY <1>2, <2>1, DivModNat
    <2>3. PICK q \in Nat : q = v \div b
      BY <2>2
    <2>4. q < g
      <3> SUFFICES ASSUME q >= g PROVE FALSE
        BY <1>2, <2>3
      <3>1. q * b >= g * b
        BY <1>2, <2>3
      <3>2. PICK qb \in Nat, gb \in Nat : qb = q * b /\ gb = g * b
        BY <1>2, <2>3
      <3> QED
        BY <2>1, <2>2, <2>3, <3>1, <3>2
    <2>5. SweepStart(v) = q * s + (v % b)
      BY <1>2, <2>3 DEF SweepStart
    <2>6. PICK r \in 0 .. b - 1 : r = v % b
      BY <2>2
    <2>7. b <= s
      BY <1>2
    <2>8. r \in 0 .. s - 1 /\ r \in Nat
      BY <2>7
    <2> QED
      BY <2>2, <2>3, <2>4, <2>5, <2>6, <2>8
  <1>4. SweepStart(w) \in 0 .. SweepStep - 1
    <2>1. PICK q \in Nat, r \in 0 .. s - 1 : q < g /\ SweepStart(w) = q * s + r
      BY <1>3
    <2>2. (q + 1) * s <= g * s
      BY <1>2, <2>1
    <2>3. PICK qs \in Nat, gs \in Nat : qs = q * s /\ gs = g * s
      BY <1>2, <2>1
    <2>4. (q + 1) * s = q * s + s /\ s * g = g * s
      OBVIOUS
    <2>5. SweepStep = gs /\ SweepStart(w) = qs + r
      BY <1>2, <2>1, <2>3, <2>4
    <2>6. qs + s <= gs
      BY <2>2, <2>3, <2>4
    <2>7. qs + r \in 0 .. gs - 1
      BY <2>6
    <2> QED
      BY <2>5, <2>7
  <1>5. ASSUME NEW v \in Workers, SweepStart(v) = SweepStart(w) PROVE v = w
    <2>1. PICK q1 \in Nat, r1 \in 0 .. s - 1 :
              v = q1 * b + r1 /\ SweepStart(v) = q1 * s + r1
      BY <1>3
    <2>2. PICK q2 \in Nat, r2 \in 0 .. s - 1 :
              w = q2 * b + r2 /\ SweepStart(w) = q2 * s + r2
      BY <1>3
    <2>3. q1 * s + r1 = q2 * s + r2
      BY <1>5, <2>1, <2>2
    <2>4. q1 = q2 /\ r1 = r2
      BY <2>3, TermsUnique
    <2> QED
      BY <2>1, <2>2, <2>4
  <1> QED
    BY <1>4, <1>5

\* The unrolled loop goes on by whole steps.
LEMMA SweepPlaces ==
    ASSUME EvenRounds, TypeInv, prog.kind = "sweep", NEW w \in Workers, NEW n \in Nat
    PROVE  SweepLoc(w, n) = Place(w, n)
  <1>1. PICK m \in Nat \ {0}, x \in Nat : m = SweepStep /\ x = SweepStart(w)
    BY SweepShape, SweepStarts
  <1>2. PICK q \in Nat, r \in Nat : q = n \div Unroll /\ r = n % Unroll /\ n = q * Unroll + r
    <2>1. n = (n \div Unroll) * Unroll + (n % Unroll) /\ n % Unroll \in 0 .. Unroll - 1
            /\ n \div Unroll \in Nat
      BY Numbers, DivModNat
    <2> QED
      BY <2>1, Numbers
  <1>3. SweepLoc(w, n) = x + q * Unroll * m + r * m
    BY <1>1, <1>2 DEF SweepLoc
  <1>4. (q * Unroll + r) * m = q * Unroll * m + r * m
    BY <1>1, <1>2, Numbers
  <1>5. Place(w, n) = x + n * m
    BY <1>1 DEF Place
  <1>6. PICK a \in Nat, c \in Nat : a = q * Unroll * m /\ c = r * m
    BY <1>1, <1>2, Numbers
  <1> QED
    BY <1>1, <1>2, <1>3, <1>4, <1>5, <1>6

\* No two reads of a sweep or a chase go to one element.
LEMMA PlacesDiffer ==
    ASSUME EvenRounds, TypeInv, ~Threads, ~LastRead,
           NEW w \in Workers, NEW v \in Workers, NEW n \in Nat, NEW i \in Nat,
           Place(w, n) = Place(v, i)
    PROVE  w = v /\ n = i
  <1>1. CASE prog.kind = "sweep"
    <2>1. PICK m \in Nat \ {0} : m = SweepStep
      BY <1>1, SweepShape
    <2>2. PICK x \in 0 .. m - 1, y \in 0 .. m - 1 : x = SweepStart(w) /\ y = SweepStart(v)
      BY <1>1, <2>1, SweepStarts
    <2>3. n * m + x = i * m + y
      BY <1>1, <2>1, <2>2 DEF Place
    <2>4. n = i /\ x = y
      BY <2>1, <2>2, <2>3, TermsUnique
    <2> QED
      BY <1>1, <2>2, <2>4, SweepStarts
  <1>2. CASE prog.kind # "sweep"
    <2>1. PICK m \in Nat \ {0} : Place(w, n) = n * m /\ Place(v, i) = i * m
      <3>1. CASE prog.kind = "chase_gpu" /\ pass = 1
        <4>1. Place(w, n) = n * 1 /\ Place(v, i) = i * 1 /\ 1 \in Nat \ {0}
          BY <3>1 DEF Place
        <4> QED
          BY <4>1
      <3>2. CASE ~(prog.kind = "chase_gpu" /\ pass = 1)
        BY <1>2, <3>2, SetFacts DEF Place
      <3> QED
        BY <3>1, <3>2
    <2>2. prog.workers = 1
      BY <1>2, SetFacts DEF EvenRounds, Even, TypeInv, Set, Kinds, Threads
    <2>3. n * m + 0 = i * m + 0 /\ 0 \in 0 .. m - 1
      <3>1. n * m = i * m
        BY <2>1
      <3> QED
        BY <3>1
    <2>4. n = i
      BY <2>1, <2>3, TermsUnique
    <2> QED
      BY <2>2, <2>4 DEF Workers
  <1> QED
    BY <1>1, <1>2

\* A part is a number, in this round and the next.
LEMMA PartType == EvenRounds /\ TypeInv => Part \in Nat /\ (prog.kind # "sweep" => Set.stride \in Nat)
  BY SweepShape, ShareType, SetFacts DEF Part

\* The parts and places of a pass stay the same through it.
LEMMA PartSame ==
    ASSUME SameRound
    PROVE  /\ prog' = prog /\ pass' = pass /\ Workers' = Workers /\ Threads' = Threads
           /\ Part' = Part /\ Chasing' = Chasing /\ LastRead' = LastRead
           /\ \A w, n : Place(w, n)' = Place(w, n)
  BY RoundFacts DEF SameRound, Part, Place, SweepStep, SweepStart, Set, LastRead

\* A sweep's loop goes on exactly until its part is read, and stays in the array.
LEMMA SweepMore ==
    ASSUME EvenRounds, TypeInv, prog.kind = "sweep", NEW w \in Workers, k[w] <= Part
    PROVE  /\ More(w) <=> k[w] < Part
           /\ k[w] < Part => Place(w, k[w]) \in 0 .. prog.size - 1
  <1>0. PICK m \in Nat \ {0} : m = SweepStep
    BY SweepShape
  <1>1. PICK n \in Nat, p \in Nat, x \in 0 .. m - 1 :
            /\ n = k[w] /\ m = SweepStep /\ p = Part /\ x = SweepStart(w)
            /\ prog.size = p * m /\ p % Unroll = 0 /\ n <= p
    <2>1. k[w] \in Nat
      BY DEF TypeInv
    <2> QED
      BY <1>0, <2>1, SweepShape, SweepStarts
  <1>2. More(w) <=> n % Unroll # 0 \/ x + n * m < p * m
    <2>1. SweepLoc(w, n) = x + n * m
      BY <1>1, SweepPlaces DEF Place
    <2> QED
      BY <1>1, <2>1 DEF More
  <1>3. Place(w, k[w]) = x + n * m
    BY <1>1 DEF Place
  <1>4. PICK a \in Nat, c \in Nat : a = n * m /\ c = p * m
    OBVIOUS
  <1>5. ASSUME n < p PROVE a + m <= c
    <2>1. (n + 1) * m <= p * m
      BY <1>5
    <2>2. (n + 1) * m = n * m + m
      OBVIOUS
    <2> QED
      BY <1>4, <2>1, <2>2
  <1>6. ASSUME n < p PROVE x + a \in 0 .. c - 1
    BY <1>5, <1>6
  <1>7. ASSUME ~(n < p) PROVE n % Unroll = 0 /\ ~(x + a < c)
    <2>1. n = p
      BY <1>1, <1>7
    <2>2. a = c
      BY <1>4, <2>1
    <2>3. n % Unroll = 0
      BY <1>1, <2>1
    <2> QED
      BY <2>2, <2>3
  <1>8. More(w) <=> n < p
    <2>1. CASE n < p
      BY <1>2, <1>4, <1>6, <2>1
    <2>2. CASE ~(n < p)
      BY <1>2, <1>4, <1>7, <2>2
    <2> QED
      BY <2>1, <2>2
  <1> QED
    BY <1>1, <1>3, <1>4, <1>6, <1>8

\* A chase goes to the next place of its part.
LEMMA ChaseNext ==
    ASSUME EvenRounds, TypeInv, Chasing, NEW w \in Workers,
           NEW n \in Nat, n + 1 < Set.op
    PROVE  NextLoc(Place(w, n)) = Place(w, n + 1)
  <1>1. PICK op \in Nat \ {0}, m \in Nat \ {0}, N \in Nat \ {0}, W \in Nat \ {0} :
            op = Set.op /\ m = Set.stride /\ N = prog.size /\ W = WordBytes
    BY SetFacts, Numbers DEF Chasing
  <1>2. Place(w, n) = n * m /\ Place(w, n + 1) = (n + 1) * m
    BY <1>1 DEF Place, Chasing
  <1>3. PICK a \in Nat, z \in Nat : a = (n + 1) * m /\ z = op * m
    OBVIOUS
  <1>4. n * m + m = a
    BY <1>3
  <1>5. a < z
    <2>1. ((n + 1) + 1) * m <= op * m
      BY <1>1
    <2>2. ((n + 1) + 1) * m = (n + 1) * m + m
      OBVIOUS
    <2> QED
      BY <1>3, <2>1, <2>2
  <1>6. CASE prog.kind = "chase_gpu"
    <2>1. z <= N
      BY <1>1, <1>3, <1>6 DEF EvenRounds, Even, TypeInv, Set
    <2>2. a = 0 * N + a /\ a \in 0 .. N - 1
      BY <1>5, <2>1
    <2>3. a % N = a
      BY <2>2, ModUnique
    <2>4. NextLoc(n * m) = (n * m + m) % N
      BY <1>1, <1>6 DEF NextLoc, GpuNext
    <2> QED
      BY <1>2, <1>3, <1>4, <2>3, <2>4
  <1>7. CASE prog.kind = "chase_cpu"
    <2>1. W * z <= N
      BY <1>1, <1>3, <1>7 DEF EvenRounds, Even, TypeInv, Set
    <2>2. PICK wa \in Nat, wz \in Nat : wa = W * a /\ wz = W * z
      OBVIOUS
    <2>3. wa < wz
      <3>1. W * (a + 1) <= W * z
        BY <1>5
      <3>2. W * (a + 1) = W * a + W
        OBVIOUS
      <3> QED
        BY <2>2, <3>1, <3>2
    <2>4. wa = 0 * N + wa /\ wa \in 0 .. N - 1
      BY <2>1, <2>2, <2>3
    <2>5. wa % N = wa
      BY <2>4, ModUnique
    <2>6. wa \div W = a
      <3>1. wa = (wa \div W) * W + (wa % W) /\ wa % W \in 0 .. W - 1 /\ wa \div W \in Nat
        BY DivModNat
      <3>2. a * W = W * a
        OBVIOUS
      <3>3. a * W + 0 = (wa \div W) * W + (wa % W) /\ 0 \in 0 .. W - 1
        BY <2>2, <3>1, <3>2
      <3> QED
        BY <3>1, <3>3, TermsUnique
    <2>7. NextLoc(n * m) = ((W * (n * m + m)) % N) \div W
      BY <1>1, <1>7 DEF NextLoc, CpuNext
    <2> QED
      BY <1>2, <1>3, <1>4, <2>2, <2>5, <2>6, <2>7
  <1> QED
    BY <1>6, <1>7 DEF Chasing

\* A worker goes on until it has read its part.
LEMMA MoreIsPart ==
    ASSUME EvenRounds, TypeInv, ~Threads, NEW w \in Workers, k[w] <= Part
    PROVE  More(w) <=> k[w] < Part
  <1>1. CASE prog.kind = "sweep"
    BY <1>1, SweepMore
  <1>2. CASE prog.kind # "sweep"
    BY <1>2, MoreIsShare DEF Part
  <1> QED
    BY <1>1, <1>2

\* The place a worker reads next: in the array, and the next of its part.
LEMMA ReadPlace ==
    ASSUME EvenRounds, TypeInv, ReadInv, ~Threads, NEW w \in Workers, k[w] < Part,
           NEW l \in Locs(w)
    PROVE  l \in 0 .. prog.size - 1 /\ (~LastRead => l = Place(w, k[w]))
  <1>0. k[w] \in Nat /\ k[w] <= Part /\ loc[w] \in 0 .. prog.size - 1 /\ Part \in Nat
    BY PartType DEF TypeInv, ReadInv, PartInv
  <1>1. CASE prog.kind = "sweep"
    <2>1. l = SweepLoc(w, k[w])
      BY <1>1 DEF Locs
    <2>2. l = Place(w, k[w])
      BY <1>0, <1>1, <2>1, SweepPlaces
    <2> QED
      BY <1>0, <1>1, <2>2, SweepMore
  <1>2. CASE prog.kind = "chase_gpu" /\ pass = 1
    <2>1. l = k[w]
      BY <1>2 DEF Locs
    <2>2. Part = prog.size /\ prog.size \in Nat
      BY <1>2, SetFacts DEF Part, Share
    <2>3. Place(w, k[w]) = k[w]
      BY <1>2 DEF Place
    <2> QED
      BY <1>0, <2>1, <2>2, <2>3
  <1>3. CASE Chasing
    <2>1. l = loc[w]
      BY <1>3 DEF Locs, Chasing
    <2> QED
      BY <1>0, <1>3, <2>1 DEF ReadInv, ChaseInv
  <1>4. CASE LastRead
    <2>1. l = loc[w]
      BY <1>4 DEF Locs, LastRead
    <2> QED
      BY <1>0, <1>4, <2>1
  <1>5. prog.kind = "chase_gpu" => pass \in 1 .. 3
    BY DEF TypeInv, Passes
  <1> QED
    BY <1>1, <1>2, <1>3, <1>4, <1>5, SetFacts DEF Kinds, Threads, Chasing, LastRead

\* A read goes to the next element of the worker's part, which nobody has read.
LEMMA ReadKeepsReads ==
    ASSUME EvenRounds, Inv, ReadInv, NEW w \in Workers, Read(w)
    PROVE  ReadInv'
  <1>0. TypeInv /\ ShareInv /\ PartInv /\ ChaseInv /\ SeenInv /\ SweepInv
    BY DEF Inv, ReadInv
  <1>1. /\ SameRound /\ wpc[w] = "reading" /\ More(w) /\ wpc' = wpc /\ status' = status
        /\ k' = [k EXCEPT ![w] = @ + 1]
        /\ work' = [work EXCEPT ![w] = IF InTimed THEN @ + 1 ELSE @]
    BY DEF Read, SameRound
  <1>2. PICK l \in Locs(w) :
          /\ seen' = seen \cup {l}
          /\ again' = (again \/ l \in seen)
          /\ below' = (below \/ l < 0)
          /\ beyond' = (beyond \/ l \notin 1 - prog.size .. prog.size - 1)
          /\ loc' = [loc EXCEPT ![w] = IF Chasing THEN NextLoc(l) ELSE @]
    BY DEF Read
  <1>3. /\ prog' = prog /\ pass' = pass /\ Workers' = Workers /\ Threads' = Threads
        /\ Part' = Part /\ Chasing' = Chasing /\ LastRead' = LastRead
        /\ \A v, n : Place(v, n)' = Place(v, n)
    BY <1>1, PartSame
  <1> SUFFICES ASSUME ~Threads PROVE ReadInv'
    BY <1>3 DEF ReadInv, PartInv, ChaseInv, SeenInv, SweepInv, Threads
  <1>5. /\ Part \in Nat /\ \A v \in Workers : k[v] \in Nat /\ work[v] \in Nat
        /\ k \in [Workers -> Nat] /\ loc \in [Workers -> 0 .. prog.size - 1]
        /\ work \in [Workers -> Nat]
    BY <1>0, PartType DEF TypeInv
  <1>6. /\ k'[w] = k[w] + 1 /\ work'[w] = IF InTimed THEN work[w] + 1 ELSE work[w]
        /\ \A v \in Workers : v # w => k'[v] = k[v] /\ work'[v] = work[v]
    BY <1>1, <1>5
  <1>7. k[w] < Part
    BY <1>0, <1>1, MoreIsPart DEF PartInv
  <1>8. l \in 0 .. prog.size - 1 /\ (~LastRead => l = Place(w, k[w]))
    BY <1>0, <1>7, ReadPlace
  <1>9. l \notin seen
    <2> SUFFICES ASSUME l \in seen PROVE FALSE
      OBVIOUS
    <2>1. CASE LastRead
      <3>1. Part = 1
        BY <2>1 DEF LastRead, Part, Share
      <3>2. k[w] = 0
        BY <1>5, <1>7, <3>1
      <3> QED
        BY <1>0, <2>1, <3>2 DEF SeenInv
    <2>2. CASE ~LastRead
      <3>0. PICK v \in Workers : \E n \in 0 .. k[v] - 1 : l = Place(v, n)
        BY <1>0, <2>2 DEF SeenInv
      <3>1. PICK n \in 0 .. k[v] - 1 : l = Place(v, n)
        BY <3>0
      <3>2. n \in Nat /\ n < k[v]
        BY <1>5
      <3>3. v = w /\ n = k[w]
        BY <1>0, <1>5, <1>8, <2>2, <3>1, <3>2, PlacesDiffer
      <3> QED
        BY <1>5, <3>2, <3>3
    <2> QED
      BY <2>1, <2>2
  <1>10. PartInv'
    <2>1. ASSUME NEW v \in Workers
          PROVE  k'[v] <= Part /\ (status = "success" /\ wpc[v] = "done" => k'[v] = Part)
      <3>1. CASE v = w
        BY <1>1, <1>5, <1>6, <1>7, <3>1
      <3>2. CASE v # w
        BY <1>0, <1>6, <3>2 DEF PartInv
      <3> QED
        BY <3>1, <3>2
    <2> QED
      BY <1>1, <1>3, <2>1 DEF PartInv
  <1>11. ChaseInv'
    <2>1. ASSUME Chasing, NEW v \in Workers, k'[v] < Part PROVE loc'[v] = Place(v, k'[v])
      <3>1. CASE v = w
        <4>1. loc'[w] = NextLoc(Place(w, k[w]))
          BY <1>2, <1>5, <1>8, <2>1 DEF Chasing, LastRead
        <4>2. Part = Set.op
          BY <2>1 DEF Part, Share, Chasing, Threads
        <4>3. k[w] + 1 < Set.op
          BY <1>6, <2>1, <3>1, <4>2
        <4> QED
          BY <1>0, <1>5, <1>6, <2>1, <3>1, <4>1, <4>3, ChaseNext
      <3>2. CASE v # w
        <4>1. loc'[v] = loc[v] /\ k'[v] = k[v]
          BY <1>2, <1>5, <1>6, <3>2
        <4> QED
          BY <1>0, <2>1, <4>1 DEF ChaseInv
      <3> QED
        BY <3>1, <3>2
    <2>2. ASSUME prog.kind = "chase_gpu", pass = 1, NEW v \in Workers PROVE loc'[v] = 0
      <3>1. loc[v] = 0 /\ ~Chasing
        BY <1>0, <2>2 DEF ChaseInv, Chasing
      <3> QED
        BY <1>2, <1>5, <3>1
    <2> QED
      BY <1>3, <2>1, <2>2 DEF ChaseInv
  <1>12. SeenInv'
    <2>1. ASSUME LastRead, NEW v \in Workers, k'[v] = 0 PROVE seen' = {}
      <3>1. prog.workers = 1
        BY <1>0, <2>1 DEF LastRead, EvenRounds, Even, TypeInv
      <3>2. v = w
        BY <3>1 DEF Workers
      <3> QED
        BY <1>5, <1>6, <2>1, <3>2
    <2>2. ASSUME ~LastRead, NEW e \in seen'
          PROVE  \E v \in Workers : \E n \in 0 .. k'[v] - 1 : e = Place(v, n)
      <3>1. CASE e = l
        <4>1. k[w] \in 0 .. k'[w] - 1
          BY <1>5, <1>6
        <4> QED
          BY <1>8, <2>2, <3>1, <4>1
      <3>2. CASE e \in seen
        <4>0. PICK v \in Workers : \E n \in 0 .. k[v] - 1 : e = Place(v, n)
          BY <1>0, <2>2, <3>2 DEF SeenInv
        <4>1. PICK n \in 0 .. k[v] - 1 : e = Place(v, n)
          BY <4>0
        <4>2. k'[v] = k[v] \/ k'[v] = k[v] + 1
          BY <1>6
        <4>3. n \in 0 .. k'[v] - 1
          BY <1>5, <4>2
        <4> QED
          BY <4>1, <4>3
      <3> QED
        BY <1>2, <2>2, <3>1, <3>2
    <2>3. ~again'
      BY <1>0, <1>2, <1>9 DEF SeenInv
    <2>4. ~(l < 0) /\ l \in 1 - prog.size .. prog.size - 1
      BY <1>0, <1>8, SetFacts
    <2>5. ~below' /\ ~beyond'
      BY <1>0, <1>2, <2>4 DEF SeenInv
    <2> QED
      BY <1>3, <2>1, <2>2, <2>3, <2>5 DEF SeenInv
  <1>13. SweepInv'
    <2> SUFFICES ASSUME prog.kind = "sweep", NEW v \in Workers
                 PROVE  /\ pass = 1 => work'[v] = 0
                        /\ pass > 1 /\ status = "success" => work'[v] = (pass - 2) * Part + k'[v]
      BY <1>1, <1>3 DEF SweepInv
    <2>1. InTimed <=> pass > 1
      BY DEF InTimed
    <2>2. pass \in Nat /\ pass >= 1 /\ (pass > 1 => (pass - 2) * Part \in Nat)
      <3>1. pass \in Nat /\ pass >= 1
        BY <1>0, SetFacts, PassesType DEF TypeInv
      <3>2. pass > 1 => pass - 2 \in Nat
        BY <3>1
      <3> QED
        BY <1>5, <3>1, <3>2
    <2>3. /\ pass = 1 => work[v] = 0
          /\ pass > 1 /\ status = "success" => work[v] = (pass - 2) * Part + k[v]
      BY <1>0 DEF SweepInv
    <2>4. CASE v = w
      BY <1>5, <1>6, <2>1, <2>2, <2>3, <2>4
    <2>5. CASE v # w
      BY <1>6, <2>3, <2>5
    <2> QED
      BY <2>4, <2>5
  <1> QED
    BY <1>10, <1>11, <1>12, <1>13 DEF ReadInv

\* A worker stops when it has read its part.
LEMMA FinishKeepsReads ==
    ASSUME EvenRounds, Inv, ReadInv, NEW w \in Workers, Finish(w)
    PROVE  ReadInv'
  <1>0. TypeInv /\ PartInv /\ ChaseInv /\ SeenInv /\ SweepInv
    BY DEF Inv, ReadInv
  <1>1. /\ SameRound /\ ~More(w) /\ wpc' = [wpc EXCEPT ![w] = "done"]
        /\ UNCHANGED <<status, k, work, loc, seen, again, below, beyond>>
    BY DEF Finish, SameRound, reads
  <1>2. /\ prog' = prog /\ pass' = pass /\ Workers' = Workers /\ Threads' = Threads
        /\ Part' = Part /\ Chasing' = Chasing /\ LastRead' = LastRead
        /\ \A v, n : Place(v, n)' = Place(v, n)
    BY <1>1, PartSame
  <1>3. ChaseInv' /\ SeenInv' /\ SweepInv'
    BY <1>0, <1>1, <1>2 DEF ChaseInv, SeenInv, SweepInv
  <1>4. PartInv'
    <2> SUFFICES ASSUME ~Threads PROVE PartInv'
      BY <1>2 DEF PartInv
    <2>1. Part \in Nat /\ k[w] \in Nat /\ k[w] <= Part
      BY <1>0, PartType DEF TypeInv, PartInv
    <2>2. k[w] = Part
      BY <1>0, <1>1, <2>1, MoreIsPart
    <2>3. \A v \in Workers : wpc'[v] = "done" => wpc[v] = "done" \/ v = w
      BY <1>0, <1>1 DEF TypeInv
    <2> QED
      BY <1>0, <1>1, <1>2, <2>2, <2>3 DEF PartInv
  <1> QED
    BY <1>3, <1>4 DEF ReadInv

\* Steps that neither read nor finish, nor begin a pass.
LEMMA OthersKeepReads ==
    ASSUME EvenRounds, Inv, ReadInv, SameRound, UNCHANGED <<k, work, loc, seen, again, below, beyond>>,
           status' = "success" => status = "success",
           status' = "success" => \A w \in Workers : wpc'[w] = "done" => wpc[w] = "done"
    PROVE  ReadInv'
  <1>1. /\ prog' = prog /\ pass' = pass /\ Workers' = Workers /\ Threads' = Threads
        /\ Part' = Part /\ Chasing' = Chasing /\ LastRead' = LastRead
        /\ \A v, n : Place(v, n)' = Place(v, n)
    BY PartSame
  <1>2. PartInv'
    BY <1>1 DEF ReadInv, PartInv
  <1>3. ChaseInv' /\ SeenInv' /\ SweepInv'
    BY <1>1 DEF ReadInv, ChaseInv, SeenInv, SweepInv
  <1> QED
    BY <1>2, <1>3 DEF ReadInv

NothingRead ==
    /\ \A w \in Workers : wpc[w] = "none" /\ k[w] = 0 /\ loc[w] = 0 /\ work[w] = 0
    /\ seen = {} /\ ~again /\ ~below /\ ~beyond /\ pass = 1

\* A new round has read nothing.
LEMMA FreshReads == EvenRounds /\ TypeInv /\ NothingRead => ReadInv
  <1> SUFFICES ASSUME EvenRounds, TypeInv, NothingRead PROVE ReadInv
    OBVIOUS
  <1>1. Part \in Nat /\ (prog.kind # "sweep" => Set.stride \in Nat)
    BY PartType
  <1>2. ASSUME NEW w \in Workers, Chasing PROVE loc[w] = Place(w, k[w])
    BY <1>1, <1>2 DEF Place, NothingRead, Chasing
  <1>3. PartInv /\ ChaseInv
    BY <1>1, <1>2 DEF PartInv, ChaseInv, NothingRead
  <1>4. SeenInv /\ SweepInv
    BY DEF SeenInv, SweepInv, NothingRead
  <1> QED
    BY <1>3, <1>4 DEF ReadInv

\* A further pass has read nothing yet, and the parts of the last one, if it was
\* timed and its launch succeeded, have become work done earlier.
LEMMA NextPassKeepsReads ==
    ASSUME EvenRounds, Inv, Inv', ReadInv, NextPass
    PROVE  ReadInv'
  <1>0. TypeInv /\ TypeInv' /\ PartInv /\ ChaseInv /\ SeenInv /\ SweepInv
    BY DEF Inv, ReadInv
  <1>1. /\ pass' = pass + 1 /\ prog' = prog /\ round' = round
        /\ \A w \in Workers : wpc[w] = "done"
        /\ k' = [w \in Workers |-> 0] /\ seen' = {}
        /\ loc' = IF prog.kind = "chase_gpu" THEN loc ELSE [w \in Workers |-> 0]
        /\ UNCHANGED <<work, again, below, beyond>>
    BY DEF NextPass
  <1>2. /\ Workers' = Workers /\ Threads' = Threads /\ Set' = Set /\ SweepStep' = SweepStep
        /\ \A w \in Workers : k'[w] = 0
        /\ pass \in Nat /\ pass >= 1
    BY <1>0, <1>1, SetFacts, PassesType DEF Workers, Threads, Set, SweepStep, TypeInv
  <1>3. Part' \in Nat
    <2>1. EvenRounds' /\ TypeInv'
      BY <1>0 DEF EvenRounds, Even
    <2>2. (EvenRounds /\ TypeInv => Part \in Nat /\ (prog.kind # "sweep" => Set.stride \in Nat))'
      BY PartType, PTL
    <2> QED
      BY <2>1, <2>2
  <1>4. status' = "success" => \A w \in Workers : wpc'[w] # "done"
    <2>1. CASE prog.kind = "sweep"
      BY <1>0, <2>1 DEF NextPass, Launched
    <2>2. CASE prog.kind # "sweep"
      BY <2>2 DEF NextPass
    <2> QED
      BY <2>1, <2>2
  <1>5. PartInv'
    BY <1>2, <1>3, <1>4 DEF PartInv
  <1>6. SeenInv'
    BY <1>0, <1>1, <1>2 DEF SeenInv
  <1>7. ChaseInv'
    <2> SUFFICES ASSUME ~Threads, Chasing', NEW w \in Workers PROVE loc'[w] = Place(w, 0)'
      <3>1. pass' # 1
        BY <1>1, <1>2
      <3> QED
        BY <1>2, <3>1 DEF ChaseInv
    <2>1. loc'[w] = 0
      <3>1. CASE prog.kind = "chase_cpu"
        BY <1>1, <3>1
      <3>2. CASE prog.kind = "chase_gpu"
        <4>1. pass = 1
          BY <1>1, <1>2, <3>2 DEF Chasing
        <4> QED
          BY <1>0, <1>1, <3>2, <4>1 DEF ChaseInv
      <3> QED
        BY <1>1, <3>1, <3>2 DEF Chasing
    <2>2. Set.stride \in Nat
      BY <1>0, <1>1, SetFacts DEF Chasing
    <2>3. Place(w, 0)' = 0
      BY <1>1, <1>2, <2>2 DEF Place, Chasing
    <2> QED
      BY <1>2, <2>1, <2>3
  <1>8. SweepInv'
    <2> SUFFICES ASSUME prog.kind = "sweep", status' = "success", NEW w \in Workers
                 PROVE  work[w] = ((pass + 1) - 2) * Part' + 0
      BY <1>1, <1>2 DEF SweepInv
    <2>1. Part' = Part
      BY <1>1, <1>2 DEF Part
    <2>2. CASE pass = 1
      BY <1>0, <1>3, <2>2 DEF SweepInv
    <2>3. CASE pass > 1
      <3>1. status = "success"
        BY <2>3 DEF NextPass
      <3>2. k[w] = Part
        BY <1>0, <1>1, <3>1 DEF PartInv, Threads
      <3>3. work[w] = (pass - 2) * Part + Part
        BY <1>0, <2>3, <3>1, <3>2 DEF SweepInv
      <3>4. PICK q \in Nat, p \in Nat : q = pass - 2 /\ p = Part
        BY <1>2, <1>3, <2>1, <2>3
      <3>5. q * p + p = (q + 1) * p + 0
        OBVIOUS
      <3>6. (pass + 1) - 2 = q + 1
        BY <1>2, <3>4
      <3> QED
        BY <2>1, <3>3, <3>4, <3>5, <3>6
    <2> QED
      BY <1>2, <2>2, <2>3
  <1> QED
    BY <1>5, <1>6, <1>7, <1>8 DEF ReadInv

\* Every step keeps it.
LEMMA ReadInvStep == ASSUME EvenRounds, Inv, ReadInv, Inv', [Next]_vars PROVE ReadInv'
  <1>0. TypeInv /\ TypeInv'
    BY DEF Inv
  <1>1. ASSUME UNCHANGED vars PROVE ReadInv'
    BY <1>1, OthersKeepReads DEF vars, workers, reads, SameRound
  <1>2. ASSUME Create PROVE ReadInv'
    <2>1. SameRound /\ UNCHANGED <<k, work, loc, seen, again, below, beyond>>
      BY <1>2 DEF Create, SameRound, reads
    <2>2. /\ status' = "success" => status = "success"
          /\ status' = "success" => \A w \in Workers : wpc'[w] = "done" => wpc[w] = "done"
      <3>1. CASE wpc' = [wpc EXCEPT ![created] = "new"] /\ status' = status
        BY <1>0, <3>1 DEF TypeInv
      <3>2. CASE \E ok \in Outcomes : /\ wpc' = Launched(ok)
                                      /\ status' = IF ok THEN status ELSE "error"
        BY <3>2 DEF Launched
      <3> QED
        BY <1>2, <3>1, <3>2 DEF Create
    <2> QED
      BY <2>1, <2>2, OthersKeepReads
  <1>3. ASSUME NEW w \in Workers, Arrive(w) \/ PassBarrier(w) PROVE ReadInv'
    <2>1. SameRound /\ UNCHANGED <<status, k, work, loc, seen, again, below, beyond>>
      BY <1>3 DEF Arrive, PassBarrier, SameRound, reads
    <2>2. \E a \in {"barrier", "reading"} : wpc' = [wpc EXCEPT ![w] = a]
      BY <1>3 DEF Arrive, PassBarrier
    <2>3. \A v \in Workers : wpc'[v] = "done" => wpc[v] = "done"
      BY <1>0, <2>2 DEF TypeInv
    <2> QED
      BY <2>1, <2>3, OthersKeepReads
  <1>4. ASSUME Tick \/ Join PROVE ReadInv'
    BY <1>4, OthersKeepReads DEF Tick, Join, SameRound, workers, reads
  <1>5. ASSUME Report PROVE ReadInv'
    <2>1. CASE prog' = prog /\ Fresh
      <3>1. Workers' = Workers
        BY <2>1 DEF Workers
      <3>2. \A w \in Workers' : wpc'[w] = "none" /\ k'[w] = 0 /\ loc'[w] = 0 /\ work'[w] = 0
        BY <2>1, <3>1 DEF Fresh
      <3>3. seen' = {} /\ ~again' /\ ~below' /\ ~beyond' /\ pass' = 1
        BY <2>1 DEF Fresh
      <3>4. NothingRead' /\ EvenRounds'
        BY <3>2, <3>3 DEF NothingRead, EvenRounds, Even
      <3> QED
        BY <1>0, <3>4, FreshReads, PTL
    <2>2. CASE UNCHANGED <<prog, round, pass, status, created, joined, workers, now, reads>>
      BY <2>2, OthersKeepReads DEF SameRound, workers, reads
    <2> QED
      BY <1>5, <2>1, <2>2 DEF Report
  <1> QED
    BY <1>1, <1>2, <1>3, <1>4, <1>5, ReadKeepsReads, FinishKeepsReads, NextPassKeepsReads
    DEF Next, Exited

\* A failed launch leaves its whole part unread, and later ones do not make up
\* for it.
LEMMA FailStep ==
    ASSUME EvenRounds, Inv, ReadInv, FailInv, Inv', [Next]_vars
    PROVE  FailInv'
  <1>0. TypeInv /\ TypeInv' /\ PartInv /\ SweepInv
    BY DEF Inv, ReadInv
  <1>1. pass \in Nat /\ pass >= 1
    BY <1>0, SetFacts, PassesType DEF TypeInv
  <1>2. Part \in Nat /\ \A w \in Workers : k[w] \in Nat /\ work[w] \in Nat
    BY <1>0, PartType DEF TypeInv
  <1>3. pass > 1 => (pass - 2) * Part \in Nat
    BY <1>1, <1>2
  <1>4. ASSUME SameRound, main' = "start" => main = "start",
               UNCHANGED <<status, k, work>>,
               \A w \in Workers : wpc'[w] = "done" <=> wpc[w] = "done"
        PROVE  FailInv'
    <2>1. Workers' = Workers /\ Part' = Part /\ prog' = prog /\ pass' = pass
      BY <1>4, PartSame DEF SameRound
    <2> QED
      BY <1>4, <2>1 DEF FailInv
  <1>5. CASE UNCHANGED vars
    BY <1>4, <1>5 DEF vars, workers, SameRound
  <1>6. CASE Create
    <2>1. main = "start" /\ prog' = prog /\ pass' = pass
      BY <1>6 DEF Create
    <2> QED
      BY <1>1, <2>1 DEF FailInv
  <1>7. CASE NextPass
    <2>1. /\ main' = main /\ main = "join" /\ prog' = prog /\ round' = round
          /\ pass' = pass + 1 /\ work' = work /\ k' = [w \in Workers |-> 0]
          /\ \A w \in Workers : wpc[w] = "done"
      BY <1>7 DEF NextPass
    <2> SUFFICES ASSUME prog.kind = "sweep", status' = "error", NEW w \in Workers
                 PROVE  IF wpc'[w] = "done" THEN work[w] <= (pass - 1) * Part
                        ELSE work[w] + Part <= (pass - 1) * Part + 0
      <3>1. Workers' = Workers /\ Part' = Part
        BY <2>1 DEF Workers, Part, SweepStep, Set, Share, Threads
      <3>2. (pass + 1) - 2 = pass - 1
        BY <1>1
      <3> QED
        BY <2>1, <3>1, <3>2 DEF FailInv
    <2>2. PICK ok \in Outcomes :
              /\ wpc' = Launched(ok)
              /\ status' = IF ok THEN IF pass = 1 THEN "success" ELSE status ELSE "error"
      BY <1>7 DEF NextPass
    <2>3. CASE pass = 1
      <3>1. ~ok /\ work[w] = 0
        BY <1>0, <2>2, <2>3 DEF SweepInv
      <3>2. wpc'[w] = "done"
        BY <2>2, <3>1 DEF Launched
      <3>3. (pass - 1) * Part = 0
        BY <1>2, <2>3
      <3> QED
        BY <3>1, <3>2, <3>3
    <2>4. CASE pass > 1
      <3>1. PICK q \in Nat, p \in Nat : q = pass - 2 /\ p = Part
        BY <1>1, <1>2, <2>4
      <3>2. pass - 1 = q + 1 /\ (q + 1) * p = q * p + p /\ q * p \in Nat
        BY <1>1, <3>1
      <3>3. CASE status = "error"
        <4>1. work[w] <= q * p
          BY <2>1, <2>4, <3>1, <3>3 DEF FailInv
        <4>2. work[w] + p <= q * p + p
          BY <1>2, <3>1, <3>2, <4>1
        <4> QED
          BY <1>2, <3>1, <3>2, <4>1, <4>2
      <3>4. CASE status = "success"
        <4>1. k[w] = p
          BY <1>0, <2>1, <3>1, <3>4 DEF PartInv, Threads
        <4>2. work[w] = q * p + p
          BY <1>0, <2>4, <3>1, <3>4, <4>1 DEF SweepInv
        <4>3. ~ok
          BY <2>2, <2>4, <3>4
        <4>4. wpc'[w] = "done"
          BY <2>2, <4>3 DEF Launched
        <4> QED
          BY <3>1, <3>2, <4>2, <4>4
      <3> QED
        BY <1>0, <3>3, <3>4 DEF TypeInv
    <2> QED
      BY <1>1, <2>3, <2>4
  <1>8. ASSUME NEW w \in Workers, Arrive(w) \/ PassBarrier(w) PROVE FailInv'
    <2>1. /\ SameRound /\ UNCHANGED <<main, status, k, work>> /\ wpc[w] # "done"
      BY <1>8 DEF Arrive, PassBarrier, SameRound
    <2>2. \E a \in {"barrier", "reading"} : wpc' = [wpc EXCEPT ![w] = a]
      BY <1>8 DEF Arrive, PassBarrier
    <2>3. \A v \in Workers : wpc'[v] = "done" <=> wpc[v] = "done"
      BY <1>0, <2>1, <2>2 DEF TypeInv
    <2> QED
      BY <1>4, <2>1, <2>3
  <1>9. ASSUME NEW w \in Workers, Read(w) PROVE FailInv'
    <2>1. /\ SameRound /\ main' = main /\ status' = status /\ wpc' = wpc /\ wpc[w] = "reading"
          /\ k' = [k EXCEPT ![w] = @ + 1]
          /\ work' = [work EXCEPT ![w] = IF InTimed THEN @ + 1 ELSE @]
      BY <1>9 DEF Read, SameRound
    <2>2. Workers' = Workers /\ Part' = Part /\ prog' = prog /\ pass' = pass
      BY <2>1, PartSame DEF SameRound
    <2>3. /\ k'[w] = k[w] + 1 /\ work'[w] \in {work[w], work[w] + 1}
          /\ \A v \in Workers : v # w => k'[v] = k[v] /\ work'[v] = work[v]
      BY <1>0, <2>1 DEF TypeInv
    <2> SUFFICES ASSUME prog.kind = "sweep", pass > 1, status = "error", NEW v \in Workers
                 PROVE  IF wpc[v] = "done" THEN work'[v] <= (pass - 2) * Part
                        ELSE work'[v] + Part <= (pass - 2) * Part + k'[v]
      BY <2>1, <2>2 DEF FailInv
    <2>4. IF wpc[v] = "done" THEN work[v] <= (pass - 2) * Part
          ELSE work[v] + Part <= (pass - 2) * Part + k[v]
      BY DEF FailInv
    <2> QED
      BY <1>2, <1>3, <2>1, <2>3, <2>4
  <1>10. ASSUME NEW w \in Workers, Finish(w) PROVE FailInv'
    <2>1. /\ SameRound /\ UNCHANGED <<main, status, k, work>> /\ wpc[w] = "reading"
          /\ wpc' = [wpc EXCEPT ![w] = "done"]
      BY <1>10 DEF Finish, SameRound
    <2>2. Workers' = Workers /\ Part' = Part /\ prog' = prog /\ pass' = pass
      BY <2>1, PartSame DEF SameRound
    <2> SUFFICES ASSUME prog.kind = "sweep", pass > 1, status = "error", NEW v \in Workers
                 PROVE  IF wpc'[v] = "done" THEN work[v] <= (pass - 2) * Part
                        ELSE work[v] + Part <= (pass - 2) * Part + k[v]
      BY <2>1, <2>2 DEF FailInv
    <2>3. IF wpc[v] = "done" THEN work[v] <= (pass - 2) * Part
          ELSE work[v] + Part <= (pass - 2) * Part + k[v]
      BY DEF FailInv
    <2>4. k[v] <= Part
      BY <1>0 DEF PartInv, Threads
    <2>5. v # w => wpc'[v] = wpc[v]
      BY <1>0, <2>1 DEF TypeInv
    <2> QED
      BY <1>2, <1>3, <2>1, <2>3, <2>4, <2>5
  <1>11. CASE Tick \/ Join
    BY <1>4, <1>11 DEF Tick, Join, SameRound, workers
  <1>12. CASE Report
    <2>1. CASE prog' = prog /\ Fresh
      BY <2>1 DEF FailInv, Fresh
    <2>2. CASE main' = "exit" /\ UNCHANGED <<prog, round, pass, status, created, joined, workers, now, reads>>
      BY <1>4, <2>2 DEF SameRound, workers
    <2> QED
      BY <1>12, <2>1, <2>2 DEF Report
  <1> QED
    BY <1>5, <1>6, <1>7, <1>8, <1>9, <1>10, <1>11, <1>12 DEF Next, Exited

\* The parts of all the timed launches of a sweep make up the work in its formula.
LEMMA SweepWork ==
    ASSUME EvenRounds, TypeInv, prog.kind = "sweep"
    PROVE  prog.workers * (Iterations * Part) = Claimed
  <1>1. PICK g \in Nat, b \in Nat, s \in Nat \ {0}, p \in Nat, i \in Nat :
            /\ b = Set.b /\ s = Set.s /\ p = Part /\ i = Iterations
            /\ prog.workers = g * b /\ prog.size = p * (s * g)
    BY SweepShape, Numbers
  <1>2. PICK c \in Nat : c = (g * b) * (i * p)
    OBVIOUS
  <1>3. b * (p * (s * g)) * i = c * s
    BY <1>2
  <1>4. PICK x \in Nat : x = c * s
    OBVIOUS
  <1>5. x \div s = c
    <2>1. x = (x \div s) * s + (x % s) /\ x % s \in 0 .. s - 1 /\ x \div s \in Nat
      BY DivModNat
    <2>2. c * s + 0 = (x \div s) * s + (x % s) /\ 0 \in 0 .. s - 1
      BY <1>4, <2>1
    <2> QED
      BY <2>1, <2>2, TermsUnique
  <1>6. Claimed = (Set.b * prog.size * Iterations) \div Set.s
    BY DEF Claimed
  <1>7. Claimed = c
    BY <1>1, <1>3, <1>4, <1>5, <1>6
  <1> QED
    BY <1>1, <1>2, <1>7

\* So do the shares of the threads and of a chase.
LEMMA SharesMakeWork ==
    ASSUME EvenRounds, TypeInv, prog.kind # "sweep"
    PROVE  prog.workers * (IF Threads THEN Set.op * Set.burst ELSE Set.op) = Claimed
  <1>1. CASE Threads
    <2>1. Claimed = Set.op * Set.burst * prog.workers
      BY <1>1 DEF Claimed, Threads
    <2>2. Set.op \in Nat /\ Set.burst \in Nat /\ prog.workers \in Nat
      BY <1>1, SetFacts DEF Threads
    <2> QED
      BY <1>1, <2>1, <2>2
  <1>2. CASE ~Threads
    <2>1. prog.workers = 1
      BY <1>2, SetFacts DEF EvenRounds, Even, TypeInv, Set, Kinds, Threads
    <2>2. Claimed = Set.op /\ Set.op \in Nat
      BY <1>2, SetFacts DEF Claimed, Threads
    <2> QED
      BY <1>2, <2>1, <2>2
  <1> QED
    BY <1>1, <1>2

\* What each program divides by the time is what its workers have read on the
\* clock: equal parts of all the timed passes, when their launches succeed.  If a
\* timed launch of the sweep fails it is more than what they have read.  No pass of a sweep or a chase reads an element twice or misses the array, and
\* throughput.cpp reads in front of it at most, if op*stride is not an int
\* (global_TH.cu: GlobalCopy, its cIterations launches and the bandwidth formula;
\* throughput.cpp; latency_huge_table.cpp and global_latency.cu: the chases).
THEOREM WorkDone == EvenRounds => (Spec => []ReportedWorkDone)
  <1> SUFFICES ASSUME EvenRounds PROVE Spec => []ReportedWorkDone
    OBVIOUS
  <1>1. Init => ReadInv
    <2> SUFFICES ASSUME Init PROVE ReadInv
      OBVIOUS
    <2>1. TypeInv
      BY InitInv DEF Inv
    <2>2. seen = {} /\ ~again /\ ~below /\ ~beyond /\ pass = 1
      BY DEF Init
    <2>3. \A w \in Workers : wpc[w] = "none" /\ k[w] = 0 /\ loc[w] = 0 /\ work[w] = 0
      BY DEF Init
    <2> QED
      BY <2>1, <2>2, <2>3, FreshReads DEF NothingRead
  <1>2. Inv /\ Inv' /\ ReadInv /\ [Next]_vars => ReadInv'
    BY ReadInvStep
  <1>3. Inv /\ ReadInv /\ FailInv /\ WorkShared => ReportedWorkDone
    <2> SUFFICES ASSUME Inv, ReadInv, FailInv, WorkShared, main = "report"
                 PROVE  /\ status = "success" => \A w \in Workers : prog.workers * work[w] = Claimed
                        /\ prog.kind = "sweep" /\ status = "error" =>
                              \A w \in Workers : prog.workers * work[w] < Claimed
                        /\ ~Threads => ~again
                        /\ ~beyond
                        /\ below => Threads /\ Set.op * Set.stride > IntMax
      BY DEF ReportedWorkDone
    <2>1. TypeInv /\ JoinInv
      BY DEF Inv
    <2>2. ASSUME status = "success", NEW w \in Workers PROVE prog.workers * work[w] = Claimed
      <3>1. CASE prog.kind = "sweep"
        <4>1. prog.workers \in Nat \ {0} /\ joined = prog.workers /\ w < prog.workers
          BY <2>1, SetFacts DEF JoinInv, Workers
        <4>2. wpc[w] = "done" /\ pass = Passes
          BY <2>1, <3>1, <4>1 DEF JoinInv, RoundOver
        <4>3. Passes = 1 + Iterations /\ Iterations \in Nat \ {0}
          BY <3>1, Numbers DEF Passes
        <4>4. k[w] = Part
          BY <2>2, <3>1, <4>2 DEF ReadInv, PartInv, Threads
        <4>5. work[w] = (Iterations - 1) * Part + Part
          BY <2>2, <3>1, <4>2, <4>3, <4>4 DEF ReadInv, SweepInv
        <4>6. Part \in Nat
          BY <2>1, PartType
        <4>7. work[w] = Iterations * Part
          BY <4>3, <4>5, <4>6
        <4> QED
          BY <2>1, <3>1, <4>7, SweepWork
      <3>2. CASE prog.kind # "sweep"
        BY <2>1, <2>2, <3>2, SharesMakeWork DEF WorkShared
      <3> QED
        BY <3>1, <3>2
    <2>3. ~Threads => ~again /\ ~below /\ ~beyond
      BY DEF ReadInv, SeenInv
    <2>4. Threads => ~beyond /\ (below => Set.op * Set.stride > IntMax)
      BY DEF WorkShared, Threads
    <2>5. ASSUME prog.kind = "sweep", status = "error", NEW w \in Workers
          PROVE  prog.workers * work[w] < Claimed
      <3>1. prog.workers \in Nat \ {0} /\ joined = prog.workers /\ w < prog.workers
        BY <2>1, SetFacts DEF JoinInv, Workers
      <3>2. wpc[w] = "done" /\ pass = 1 + Iterations /\ Iterations \in Nat \ {0}
        BY <2>1, <2>5, <3>1, Numbers DEF JoinInv, RoundOver, Passes
      <3>3. PICK i \in Nat, p \in Nat \ {0}, n \in Nat \ {0}, x \in Nat :
                i = Iterations - 1 /\ p = Part /\ n = prog.workers /\ x = work[w]
        <4>1. Part \in Nat /\ SweepStep \in Nat /\ prog.size = Part * SweepStep
              /\ prog.size \in Nat \ {0}
          BY <2>1, <2>5, SweepShape, SetFacts
        <4>2. Part # 0
          BY <4>1
        <4>3. work[w] \in Nat /\ Iterations - 1 \in Nat
          BY <2>1, <3>2 DEF TypeInv
        <4> QED
          BY <3>1, <4>1, <4>2, <4>3
      <3>4. x <= i * p
        <4>1. pass - 2 = i /\ pass > 1
          BY <3>2, <3>3
        <4> QED
          BY <2>5, <3>2, <3>3, <4>1 DEF FailInv
      <3>5. Claimed = n * ((i + 1) * p)
        <4>1. Iterations = i + 1
          BY <3>2, <3>3
        <4> QED
          BY <2>1, <2>5, <3>3, <4>1, SweepWork
      <3>6. x < (i + 1) * p
        <4>1. (i + 1) * p = i * p + p /\ i * p \in Nat
          OBVIOUS
        <4> QED
          BY <3>4, <4>1
      <3>7. n * x < n * ((i + 1) * p)
        <4>1. PICK y \in Nat : y = (i + 1) * p
          OBVIOUS
        <4>2. n * (y - x) > 0
          <5>1. y - x \in Nat \ {0}
            BY <3>6, <4>1
          <5> QED
            BY <5>1
        <4>3. n * (y - x) = n * y - n * x
          OBVIOUS
        <4> QED
          BY <4>1, <4>2, <4>3
      <3> QED
        BY <3>3, <3>5, <3>7
    <2> QED
      BY <2>2, <2>3, <2>4, <2>5
  <1>4. Init => FailInv
    BY DEF Init, FailInv
  <1>5. Inv /\ Inv' /\ ReadInv /\ FailInv /\ [Next]_vars => FailInv'
    BY FailStep
  <1> QED
    BY <1>1, <1>2, <1>3, <1>4, <1>5, Invariance, SharesDone, PTL DEF Spec
=============================================================================
