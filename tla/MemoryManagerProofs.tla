------------------------ MODULE MemoryManagerProofs -------------------------
(***************************************************************************)
(* The memory manager's promises for every number of threads, every buffer  *)
(* and every page size, with free interleaving with allocate.               *)
(***************************************************************************)
EXTENDS MemoryManager, RegisterTheorems, FiniteSetTheorems, TLAPS

-----------------------------------------------------------------------------
(***************************************************************************)
(* The inductive invariant.                                                 *)
(***************************************************************************)
InAlloc == {"scan", "acquire", "split", "link"}
InFree  == {"walk", "clear", "release", "passed"}
Made    == 1 .. made
Aligned(n) == n % PageSize = 0

TypeInv ==
    /\ addr \in [Ids -> 0 .. Total] /\ size \in [Ids -> 0 .. Total] /\ free \in [Ids -> BOOLEAN]
    /\ next \in [Ids -> Ids \cup {Nil}] /\ made \in Ids
    /\ memoryMutex \in Threads \cup {Nil}
    /\ pc \in [Threads -> {"idle"} \cup InAlloc \cup InFree]
    /\ current \in [Threads -> Ids \cup {Nil}]
    /\ rounded \in [Threads -> Nat] /\ ptr \in [Threads -> Nat]
    /\ live \subseteq [addr : Nat, size : Nat]
    /\ dirty \subseteq Nat

\* The chunks made so far are whole pages, and every byte of the buffer is in
\* exactly one of them.
Covers(i, x) == addr[i] <= x /\ x < addr[i] + size[i]
Apart(i, j)  == addr[i] + size[i] <= addr[j] \/ addr[j] + size[j] <= addr[i]
LayoutInv ==
    /\ \A i \in Made : /\ Aligned(addr[i]) /\ Aligned(size[i]) /\ size[i] > 0
                       /\ addr[i] + size[i] <= Total
    /\ \A i, j \in Made : i # j => Apart(i, j)
    /\ \A x \in 0 .. Total - 1 : \E i \in Made : Covers(i, x)

\* The list runs upwards, and to the neighbour except where the remainder of a
\* split is not linked yet.
Neighbour(i) == IF next[i] = Nil THEN addr[i] + size[i] = Total
                ELSE addr[next[i]] = addr[i] + size[i]
ListInv ==
    \A i \in Made :
        /\ next[i] # Nil => next[i] \in Made /\ addr[i] < addr[next[i]]
        /\ Neighbour(i) \/ \E t \in Threads : pc[t] = "link" /\ current[t] = i

MutexInv == \A t \in Threads : pc[t] \in InAlloc <=> memoryMutex = t

AllocInv ==
    \A t \in Threads :
        /\ pc[t] # "idle" => current[t] \in Made
        /\ pc[t] \in InAlloc => rounded[t] > 0 /\ Aligned(rounded[t])
        /\ pc[t] \in {"acquire", "split"} => rounded[t] <= size[current[t]]
        /\ pc[t] = "link" => /\ rounded[t] = size[current[t]]
                             /\ made # current[t] /\ next[made] = next[current[t]]
                             /\ addr[made] = addr[current[t]] + size[current[t]]

FreeInv ==
    \A t \in Threads :
        /\ pc[t] \in InFree => \E i \in Made : addr[i] = ptr[t]
        /\ pc[t] \in {"clear", "release", "passed"} => addr[current[t]] = ptr[t]

\* Thread t has chunk i in hand: allocate has acquired it, or free is on its way
\* to it or working on it.
InHand(t, i) ==
    \/ pc[t] \in {"split", "link", "clear", "release"} /\ current[t] = i
    \/ pc[t] = "walk" /\ addr[i] = ptr[t] /\ addr[current[t]] <= ptr[t]

\* A chunk is free, or held by a client, or in the hands of one thread.
OwnerInv ==
    /\ \A b \in live : \E i \in Made : ~free[i] /\ addr[i] = b.addr /\ size[i] = b.size
    /\ \A i \in Made, t \in Threads : InHand(t, i) =>
          /\ ~free[i]
          /\ \A b \in live : b.addr # addr[i]
          /\ \A u \in Threads : InHand(u, i) => u = t

\* What is on offer, about to be split off or about to be released reads as zero.
Clean(i) == \A x \in dirty : ~Covers(i, x)
ZeroInv ==
    /\ \A i \in Made : free[i] => Clean(i)
    /\ \A t \in Threads : pc[t] \in {"split", "release"} => Clean(current[t])
    /\ \A x \in dirty : x < Total

Inv == TypeInv /\ LayoutInv /\ ListInv /\ MutexInv /\ AllocInv /\ FreeInv /\ OwnerInv /\ ZeroInv

-----------------------------------------------------------------------------
(***************************************************************************)
(* Pages.                                                                   *)
(***************************************************************************)
\* A whole number of pages is a multiple of the page size, and the other way around.
LEMMA AlignedMultiple ==
    /\ \A n \in Nat : Aligned(n) => n = (n \div PageSize) * PageSize /\ n \div PageSize \in Nat
    /\ \A q \in Nat : q * PageSize \in Nat /\ Aligned(q * PageSize)
  <1>1. PageSize \in Nat \ {0}
    BY SizesAssumption
  <1>2. ASSUME NEW n \in Nat, Aligned(n)
        PROVE  n = (n \div PageSize) * PageSize /\ n \div PageSize \in Nat
    <2>1. /\ n = (n \div PageSize) * PageSize + (n % PageSize) /\ n \div PageSize \in Nat
      BY <1>1, DivModNat
    <2>2. n % PageSize = 0
      BY <1>2 DEF Aligned
    <2>3. (n \div PageSize) * PageSize \in Nat
      BY <1>1, <2>1
    <2> QED
      BY <2>1, <2>2, <2>3
  <1>3. ASSUME NEW q \in Nat
        PROVE  q * PageSize \in Nat /\ Aligned(q * PageSize)
    <2>1. q * PageSize \in Nat /\ q * PageSize = q * PageSize + 0 /\ 0 \in 0 .. PageSize - 1
      BY <1>1
    <2> QED
      BY <1>1, <2>1, ModUnique DEF Aligned
  <1> QED
    BY <1>2, <1>3

\* Whole pages added to and taken from whole pages.
LEMMA AlignedSum ==
    ASSUME NEW a \in Nat, NEW b \in Nat, Aligned(a), Aligned(b)
    PROVE  Aligned(a + b) /\ (b <= a => Aligned(a - b))
  <1> DEFINE p == a \div PageSize
             q == b \div PageSize
  <1>1. PageSize \in Nat \ {0}
    BY SizesAssumption
  <1>2. a = p * PageSize /\ b = q * PageSize /\ p \in Nat /\ q \in Nat
    BY AlignedMultiple
  <1> HIDE DEF p, q
  <1>3. a + b = (p + q) * PageSize
    BY <1>1, <1>2
  <1>4. b <= a => a - b = (p - q) * PageSize /\ p - q \in Nat
    BY <1>1, <1>2
  <1> QED
    BY <1>2, <1>3, <1>4, AlignedMultiple

\* allocate rounds up to whole pages, at least one; the addition does not wrap.
LEMMA RoundedSizeRight ==
    ASSUME NEW n \in Sizes
    PROVE  roundedSize(n) \in Nat /\ roundedSize(n) > 0 /\ Aligned(roundedSize(n))
  <1>1. /\ PageSize \in Nat \ {0} /\ SizeMod \in Nat \ {0} /\ n \in Nat \ {0}
        /\ n + PageSize - 1 \in Nat /\ n + PageSize - 1 < SizeMod
    BY SizesAssumption
  <1> DEFINE x == n + PageSize - 1
  <1>2. x % SizeMod = x
    <2>1. x = 0 * SizeMod + x /\ x \in 0 .. SizeMod - 1
      BY <1>1
    <2> HIDE DEF x
    <2> QED
      BY <1>1, <2>1, ModUnique
  <1>3. x \div PageSize \in Nat /\ x \div PageSize # 0
    <2>1. x = (x \div PageSize) * PageSize + (x % PageSize) /\ x % PageSize \in 0 .. PageSize - 1
            /\ x \div PageSize \in Nat
      BY <1>1, DivModNat
    <2>2. x >= PageSize
      BY <1>1
    <2> HIDE DEF x
    <2> QED
      BY <1>1, <2>1, <2>2
  <1>4. roundedSize(n) = (x \div PageSize) * PageSize
    BY <1>2 DEF roundedSize
  <1> HIDE DEF x
  <1> QED
    BY <1>1, <1>3, <1>4, AlignedMultiple

\* A buffer has no more chunks than pages: chunks begin on different pages.
LEMMA PageCount ==
    ASSUME NEW n \in Nat, NEW f \in [1 .. n -> Nat],
           \A i \in 1 .. n : Aligned(f[i]) /\ f[i] < Total,
           \A i, j \in 1 .. n : i # j => f[i] # f[j]
    PROVE  n <= Total \div PageSize
  <1> DEFINE N == Total \div PageSize
             g == [i \in 1 .. n |-> f[i] \div PageSize]
  <1>1. PageSize \in Nat \ {0} /\ Total \in Nat /\ N \in Nat /\ Total = N * PageSize
    BY SizesAssumption, AlignedMultiple DEF Aligned
  <1>2. \A i \in 1 .. n : g[i] \in Nat /\ f[i] = g[i] * PageSize
    BY AlignedMultiple
  <1> HIDE DEF N
  <1>3. g \in [1 .. n -> 0 .. N - 1]
    <2> SUFFICES ASSUME NEW i \in 1 .. n PROVE g[i] < N
      BY <1>1, <1>2
    <2>1. g[i] \in Nat /\ g[i] * PageSize < N * PageSize
      BY <1>1, <1>2
    <2> HIDE DEF g
    <2> QED
      BY <1>1, <2>1
  <1>4. \A i, j \in 1 .. n : i # j => g[i] # g[j]
    BY <1>2
  <1> HIDE DEF g
  <1>5. /\ IsFiniteSet(1 .. n) /\ Cardinality(1 .. n) = n
        /\ IsFiniteSet(0 .. N - 1) /\ Cardinality(0 .. N - 1) = N
    <2>1. IsFiniteSet(1 .. n) /\ Cardinality(1 .. n) = IF 1 > n THEN 0 ELSE n - 1 + 1
      BY FS_Interval
    <2>2. N - 1 \in Int /\ 0 \in Int
      BY <1>1
    <2>3. IsFiniteSet(0 .. N - 1) /\ Cardinality(0 .. N - 1) = IF 0 > N - 1 THEN 0 ELSE N - 1 - 0 + 1
      BY <2>2, FS_Interval
    <2> QED
      BY <1>1, <2>1, <2>3
  <1>6. ~(Cardinality(0 .. N - 1) < Cardinality(1 .. n))
    BY <1>3, <1>4, <1>5, FS_PigeonHole
  <1> QED
    BY <1>1, <1>5, <1>6 DEF N

\* The chunks made are chunks, and the head of the list is one.
LEMMA MadeAreIds ==
    ASSUME TypeInv
    PROVE  1 \in Made /\ made \in Made /\ Made \subseteq Ids /\ Nil \notin Made /\ made \in Nat
           /\ Total \div PageSize \in Nat
  <1>1. Total \div PageSize \in Nat
    BY SizesAssumption, AlignedMultiple DEF Aligned
  <1> QED
    BY <1>1 DEF TypeInv, Made, Ids, Nil

\* The fields of a chunk.
LEMMA ChunkFields ==
    ASSUME TypeInv, LayoutInv, NEW i \in Made
    PROVE  /\ addr[i] \in Nat /\ size[i] \in Nat /\ size[i] > 0 /\ addr[i] + size[i] <= Total
           /\ Aligned(addr[i]) /\ Aligned(size[i]) /\ free[i] \in BOOLEAN
           /\ next[i] \in Ids \cup {Nil}
  <1>1. i \in Ids /\ Total \in Nat
    BY MadeAreIds, SizesAssumption
  <1> QED
    BY <1>1 DEF TypeInv, LayoutInv

\* Chunks that begin at the same byte are the same chunk.
LEMMA OneChunkPerAddress ==
    ASSUME TypeInv, LayoutInv, NEW i \in Made, NEW j \in Made, addr[i] = addr[j]
    PROVE  i = j
  <1>1. /\ addr[i] \in Nat /\ addr[j] \in Nat /\ size[i] \in Nat /\ size[j] \in Nat
        /\ size[i] > 0 /\ size[j] > 0
    BY ChunkFields
  <1>2. i # j => Apart(i, j)
    BY DEF LayoutInv
  <1> QED
    BY <1>1, <1>2 DEF Apart

\* One chunk, the whole buffer.
LEMMA InitInv == Init => Inv
  <1> SUFFICES ASSUME Init PROVE Inv
    OBVIOUS
  <1> USE DEF Init
  <1>1. PageSize \in Nat \ {0} /\ Total \in Nat \ {0} /\ Aligned(Total)
    BY SizesAssumption DEF Aligned
  <1>2. Total \div PageSize \in Nat /\ Total \div PageSize # 0 /\ 1 \in Ids
    <2>1. Total = (Total \div PageSize) * PageSize /\ Total \div PageSize \in Nat
      BY <1>1, AlignedMultiple
    <2>2. Total \div PageSize # 0
      BY <1>1, <2>1
    <2> QED
      BY <2>1, <2>2 DEF Ids
  <1>3. Made = {1}
    BY DEF Made
  <1>4. TypeInv
    <2>1. free \in [Ids -> BOOLEAN]
      OBVIOUS
    <2>2. addr \in [Ids -> 0 .. Total] /\ size \in [Ids -> 0 .. Total] /\ next \in [Ids -> Ids \cup {Nil}]
            /\ made \in Ids
      BY <1>1, <1>2
    <2>3. memoryMutex \in Threads \cup {Nil} /\ pc \in [Threads -> {"idle"}]
            /\ current \in [Threads -> Ids \cup {Nil}]
            /\ rounded \in [Threads -> Nat] /\ ptr \in [Threads -> Nat]
      OBVIOUS
    <2>4. live \subseteq [addr : Nat, size : Nat] /\ dirty \subseteq Nat
      OBVIOUS
    <2> QED
      BY <2>1, <2>2, <2>3, <2>4 DEF TypeInv
  <1>5. LayoutInv
    <2>1. addr[1] = 0 /\ size[1] = Total
      BY <1>2
    <2>2. Aligned(0)
      BY <1>1, AlignedSum
    <2> QED
      BY <1>1, <1>3, <2>1, <2>2 DEF LayoutInv, Covers
  <1>6. ListInv
    BY <1>1, <1>2, <1>3 DEF ListInv, Neighbour
  <1>7. MutexInv
    BY ThreadsAssumption DEF MutexInv, InAlloc
  <1>8. AllocInv /\ FreeInv
    BY DEF AllocInv, FreeInv, InAlloc, InFree
  <1>9. OwnerInv /\ ZeroInv
    BY DEF OwnerInv, InHand, ZeroInv, Clean
  <1> QED
    BY <1>4, <1>5, <1>6, <1>7, <1>8, <1>9 DEF Inv

\* allocate takes the lock and begins at the head.
LEMMA AllocBeginInv ==
    ASSUME Inv, NEW t \in Threads, NEW n \in Sizes, AllocBegin(t, n)
    PROVE  Inv'
  <1> USE DEF Inv
  <1>0. /\ pc[t] = "idle" /\ memoryMutex = Nil /\ memoryMutex' = t
        /\ rounded' = [rounded EXCEPT ![t] = roundedSize(n)]
        /\ current' = [current EXCEPT ![t] = 1] /\ pc' = [pc EXCEPT ![t] = "scan"]
        /\ UNCHANGED <<addr, size, free, next, made, ptr, live, dirty>>
    BY DEF AllocBegin, LockFree, chunks
  <1>1. 1 \in Made /\ 1 \in Ids /\ Made' = Made
    BY <1>0, MadeAreIds DEF Made
  <1>2. TypeInv'
    BY <1>0, <1>1, RoundedSizeRight DEF TypeInv, InAlloc
  <1>3. LayoutInv'
    BY <1>0, <1>1 DEF LayoutInv, Apart, Covers
  <1>4. ListInv'
    BY <1>0, <1>1 DEF ListInv, Neighbour, TypeInv
  <1>5. MutexInv'
    BY <1>0, ThreadsAssumption DEF MutexInv, InAlloc, TypeInv
  <1>6. AllocInv'
    BY <1>0, <1>1, RoundedSizeRight DEF AllocInv, InAlloc, TypeInv
  <1>7. FreeInv'
    BY <1>0, <1>1 DEF FreeInv, InFree, TypeInv
  <1>8. OwnerInv'
    BY <1>0, <1>1 DEF OwnerInv, InHand, TypeInv
  <1>9. ZeroInv'
    BY <1>0, <1>1 DEF ZeroInv, Clean, Covers, TypeInv
  <1> QED
    BY <1>2, <1>3, <1>4, <1>5, <1>6, <1>7, <1>8, <1>9

\* The next chunk, or the end of an allocate that found none.
LEMMA AllocAdvanceInv ==
    ASSUME Inv, NEW t \in Threads, pc[t] \in {"scan", "acquire"}, AllocAdvance(t)
    PROVE  Inv'
  <1> USE DEF Inv
  <1> DEFINE nx == next[current[t]]
  <1>0. /\ current' = [current EXCEPT ![t] = nx]
        /\ pc' = [pc EXCEPT ![t] = IF nx = Nil THEN "idle" ELSE "scan"]
        /\ memoryMutex' = IF nx = Nil THEN Nil ELSE memoryMutex
        /\ UNCHANGED <<addr, size, free, next, made, rounded, ptr, live, dirty>>
    BY DEF AllocAdvance, chunks
  <1>1. Made' = Made /\ current[t] \in Made /\ nx \in Ids \cup {Nil} /\ (nx # Nil => nx \in Made)
          /\ memoryMutex = t
    BY <1>0, ChunkFields DEF Made, AllocInv, ListInv, MutexInv, InAlloc
  <1> HIDE DEF nx
  <1>2. TypeInv'
    BY <1>0, <1>1 DEF TypeInv, InAlloc
  <1>3. LayoutInv'
    BY <1>0, <1>1 DEF LayoutInv, Apart, Covers
  <1>4. ListInv'
    BY <1>0, <1>1 DEF ListInv, Neighbour, TypeInv
  <1>5. MutexInv'
    BY <1>0, <1>1, ThreadsAssumption DEF MutexInv, InAlloc, TypeInv
  <1>6. AllocInv'
    BY <1>0, <1>1 DEF AllocInv, InAlloc, TypeInv
  <1>7. FreeInv'
    BY <1>0, <1>1 DEF FreeInv, InFree, TypeInv
  <1>8. OwnerInv'
    BY <1>0, <1>1 DEF OwnerInv, InHand, TypeInv
  <1>9. ZeroInv'
    BY <1>0, <1>1 DEF ZeroInv, Clean, Covers, TypeInv
  <1> QED
    BY <1>2, <1>3, <1>4, <1>5, <1>6, <1>7, <1>8, <1>9

\* allocate looks at a chunk.
LEMMA AllocScanInv ==
    ASSUME Inv, NEW t \in Threads, AllocScan(t)
    PROVE  Inv'
  <1> USE DEF Inv
  <1>1. CASE AllocAdvance(t)
    BY <1>1, AllocAdvanceInv DEF AllocScan
  <1>2. CASE ~AllocAdvance(t)
    <2>0. /\ pc[t] = "scan" /\ rounded[t] <= size[current[t]]
          /\ pc' = [pc EXCEPT ![t] = "acquire"] /\ Made' = Made
          /\ UNCHANGED <<addr, size, free, next, made, memoryMutex, current, rounded, ptr, live, dirty>>
      BY <1>2 DEF AllocScan, Fits, chunks, Made
    <2>1. TypeInv' /\ LayoutInv'
      BY <2>0 DEF TypeInv, InAlloc, LayoutInv, Apart, Covers
    <2>2. ListInv'
      BY <2>0 DEF ListInv, Neighbour, TypeInv
    <2>3. MutexInv'
      BY <2>0 DEF MutexInv, InAlloc, TypeInv
    <2>4. AllocInv'
      BY <2>0 DEF AllocInv, InAlloc, TypeInv
    <2>5. FreeInv'
      BY <2>0 DEF FreeInv, InFree, TypeInv
    <2>6. OwnerInv'
      BY <2>0 DEF OwnerInv, InHand, TypeInv
    <2>7. ZeroInv'
      BY <2>0 DEF ZeroInv, Clean, Covers, TypeInv
    <2> QED
      BY <2>1, <2>2, <2>3, <2>4, <2>5, <2>6, <2>7
  <1> QED
    BY <1>1, <1>2

\* A chunk that is free is in nobody's hands, so acquiring it gives it one owner.
LEMMA AllocAcquireInv ==
    ASSUME Inv, NEW t \in Threads, AllocAcquire(t)
    PROVE  Inv'
  <1> USE DEF Inv
  <1>1. CASE AllocAdvance(t)
    BY <1>1, AllocAdvanceInv DEF AllocAcquire
  <1>2. CASE ~AllocAdvance(t)
    <2> DEFINE c == current[t]
    <2>0. /\ pc[t] = "acquire" /\ free[c]
          /\ free' = [free EXCEPT ![c] = FALSE]
          /\ pc' = [pc EXCEPT ![t] = "split"] /\ Made' = Made
          /\ UNCHANGED <<addr, size, next, made, memoryMutex, current, rounded, ptr, live, dirty>>
      BY <1>2 DEF AllocAcquire, Made
    <2>1. c \in Made /\ c \in Ids
      BY <2>0, MadeAreIds DEF AllocInv
    <2>2. TypeInv'
      <3>1. free' \in [Ids -> BOOLEAN]
        BY <2>0 DEF TypeInv
      <3> QED
        BY <2>0, <3>1 DEF TypeInv, InAlloc
    <2>3. LayoutInv'
      BY <2>0 DEF LayoutInv, Apart, Covers
    <2>4. ListInv'
      BY <2>0 DEF ListInv, Neighbour, TypeInv
    <2>5. MutexInv'
      BY <2>0 DEF MutexInv, InAlloc, TypeInv
    <2>6. AllocInv'
      BY <2>0 DEF AllocInv, InAlloc, TypeInv
    <2>7. FreeInv'
      BY <2>0 DEF FreeInv, InFree, TypeInv
    <2>8. OwnerInv'
      <3>1. \A i \in Made : free'[i] = IF i = c THEN FALSE ELSE free[i]
        BY <2>0, MadeAreIds DEF TypeInv
      <3>2. \A u \in Threads, i \in Made : InHand(u, i)' => (u = t /\ i = c) \/ (InHand(u, i) /\ i # c)
        BY <2>0, <2>1 DEF InHand, TypeInv, OwnerInv
      <3>3. \A b \in live : b.addr # addr[c]
        BY <2>0, <2>1, OneChunkPerAddress DEF OwnerInv
      <3>4. \A b \in live : \E i \in Made : ~free'[i] /\ addr[i] = b.addr /\ size[i] = b.size
        BY <3>1 DEF OwnerInv
      <3>5. ASSUME NEW i \in Made, NEW u \in Threads, InHand(u, i)'
            PROVE  /\ ~free'[i] /\ \A b \in live : b.addr # addr[i]
                   /\ \A v \in Threads : InHand(v, i)' => v = u
        <4>1. CASE i = c
          BY <3>1, <3>2, <3>3, <3>5, <4>1
        <4>2. CASE i # c
          BY <3>1, <3>2, <3>5, <4>2 DEF OwnerInv
        <4> QED
          BY <4>1, <4>2
      <3> QED
        BY <2>0, <3>4, <3>5 DEF OwnerInv
    <2>9. ZeroInv'
      BY <2>0, <2>1, MadeAreIds DEF ZeroInv, Clean, Covers, TypeInv
    <2> QED
      BY <2>2, <2>3, <2>4, <2>5, <2>6, <2>7, <2>8, <2>9
  <1> QED
    BY <1>1, <1>2

\* allocate returns the chunk it has in hand: the client is the new owner.
LEMMA ReturnInv ==
    ASSUME Inv, NEW t \in Threads, pc[t] \in {"split", "link"}, Return(t),
           rounded[t] = size[current[t]],
           pc[t] = "split" => next' = next,
           pc[t] = "link" => next' = [next EXCEPT ![current[t]] = made],
           UNCHANGED <<addr, size, free, made, current, rounded, ptr, dirty>>
    PROVE  Inv'
  <1> USE DEF Inv
  <1> DEFINE c   == current[t]
             new == [addr |-> addr[c], size |-> rounded[t]]
  <1>0. /\ live' = live \cup {new} /\ memoryMutex' = Nil /\ pc' = [pc EXCEPT ![t] = "idle"]
        /\ Made' = Made
    BY DEF Return, Made
  <1>1. c \in Made /\ c \in Ids /\ memoryMutex = t /\ InHand(t, c)
    BY MadeAreIds DEF AllocInv, MutexInv, InAlloc, InHand
  <1>2. TypeInv'
    <2>1. new \in [addr : Nat, size : Nat]
      BY <1>1 DEF TypeInv
    <2>2. next' \in [Ids -> Ids \cup {Nil}]
      BY DEF TypeInv
    <2> QED
      BY <1>0, <2>1, <2>2 DEF TypeInv
  <1>3. LayoutInv'
    BY <1>0 DEF LayoutInv, Apart, Covers
  <1>4. ListInv'
    <2> SUFFICES ASSUME NEW i \in Made
                 PROVE  /\ next'[i] # Nil => next'[i] \in Made /\ addr[i] < addr[next'[i]]
                        /\ Neighbour(i)'
      BY <1>0 DEF ListInv
    <2>1. CASE pc[t] = "link" /\ i = c
      <3>1. next'[i] = made /\ made \in Made /\ addr[made] = addr[c] + size[c]
        BY <1>1, <2>1, MadeAreIds DEF AllocInv, TypeInv
      <3> QED
        BY <1>1, <2>1, <3>1, ChunkFields, MadeAreIds DEF Neighbour
    <2>2. CASE ~(pc[t] = "link" /\ i = c)
      <3>1. next'[i] = next[i]
        BY <1>1, <2>2, MadeAreIds DEF TypeInv
      <3>2. ~\E u \in Threads : pc[u] = "link" /\ current[u] = i
        BY <1>1, <2>2 DEF MutexInv, InAlloc
      <3> QED
        BY <3>1, <3>2 DEF ListInv, Neighbour
    <2> QED
      BY <2>1, <2>2
  <1>5. MutexInv'
    BY <1>0, <1>1, ThreadsAssumption DEF MutexInv, InAlloc, TypeInv
  <1>6. AllocInv'
    <2>1. \A u \in Threads : u # t => pc[u] \notin InAlloc
      BY <1>1 DEF MutexInv
    <2> QED
      BY <1>0, <2>1 DEF AllocInv, InAlloc, TypeInv
  <1>7. FreeInv'
    BY <1>0 DEF FreeInv, InFree, TypeInv
  <1>8. OwnerInv'
    <2>1. \A u \in Threads, i \in Made : InHand(u, i)' => u # t /\ i # c /\ InHand(u, i)
      BY <1>0, <1>1 DEF InHand, TypeInv, OwnerInv
    <2>2. \A i \in Made : addr[i] = addr[c] => i = c
      BY <1>1, OneChunkPerAddress
    <2>3. ~free[c] /\ new.addr = addr[c] /\ new.size = size[c]
      BY <1>1 DEF OwnerInv
    <2> HIDE DEF new
    <2> QED
      BY <1>0, <1>1, <2>1, <2>2, <2>3 DEF OwnerInv
  <1>9. ZeroInv'
    BY <1>0 DEF ZeroInv, Clean, Covers, TypeInv
  <1> QED
    BY <1>2, <1>3, <1>4, <1>5, <1>6, <1>7, <1>8, <1>9

\* The remainder is linked behind the chunk it was split from.
LEMMA AllocLinkInv ==
    ASSUME Inv, NEW t \in Threads, AllocLink(t)
    PROVE  Inv'
  <1>1. pc[t] = "link" /\ rounded[t] = size[current[t]]
    BY DEF AllocLink, Inv, AllocInv
  <1> QED
    BY <1>1, ReturnInv DEF AllocLink

\* Splitting: the remainder is a new chunk between the chunk in hand and the next.
LEMMA AllocSplitInv ==
    ASSUME Inv, NEW t \in Threads, AllocSplit(t)
    PROVE  Inv'
  <1> USE DEF Inv
  <1>a. PICK c, r, n : c = current[t] /\ r = rounded[t] /\ n = made + 1
    OBVIOUS
  <1>0. /\ c = current[t] /\ r = rounded[t] /\ n = made + 1 /\ pc[t] = "split"
        /\ c \in Made /\ c \in Ids /\ memoryMutex = t
        /\ r \in Nat /\ r > 0 /\ Aligned(r) /\ r <= size[c] /\ InHand(t, c)
    BY <1>a, MadeAreIds DEF AllocSplit, AllocInv, MutexInv, InAlloc, InHand, TypeInv
  <1>1. CASE size[c] <= r
    <2>1. r = size[c]
      BY <1>0, <1>1, ChunkFields
    <2>2. Return(t) /\ UNCHANGED <<addr, size, free, next, made, current, rounded, ptr, dirty>>
      BY <1>0, <1>1, <2>1, ChunkFields DEF AllocSplit, chunks
    <2> QED
      BY <1>0, <2>1, <2>2, ReturnInv
  <1>2. CASE size[c] > r
    <2>0. /\ made' = n
          /\ addr' = [addr EXCEPT ![n] = addr[c] + r]
          /\ size' = [size EXCEPT ![n] = size[c] - r, ![c] = r]
          /\ free' = [free EXCEPT ![n] = TRUE]
          /\ next' = [next EXCEPT ![n] = next[c]]
          /\ pc' = [pc EXCEPT ![t] = "link"]
          /\ UNCHANGED <<memoryMutex, live, current, rounded, ptr, dirty>>
      BY <1>0, <1>2, ChunkFields DEF AllocSplit
    <2>1. /\ made \in Nat /\ Total \div PageSize \in Nat /\ Made \subseteq Ids
          /\ n \notin Made /\ c # n /\ Nil \notin Made /\ Total \in Nat
      BY <1>0, MadeAreIds, SizesAssumption DEF Made
    <2>2. /\ addr[c] \in Nat /\ size[c] \in Nat /\ addr[c] + size[c] <= Total
          /\ Aligned(addr[c]) /\ Aligned(size[c])
          /\ Aligned(addr[c] + r) /\ Aligned(size[c] - r)
      BY <1>0, <1>2, ChunkFields, AlignedSum
    <2>3. \A i \in Made : addr[i] # addr[c] + r
      <3> SUFFICES ASSUME NEW i \in Made, addr[i] = addr[c] + r PROVE FALSE
        OBVIOUS
      <3>1. addr[i] \in Nat /\ size[i] \in Nat /\ size[i] > 0
        BY ChunkFields
      <3>2. i # c => Apart(i, c)
        BY <1>0 DEF LayoutInv
      <3> QED
        BY <1>0, <1>2, <2>2, <3>1, <3>2 DEF Apart
    <2>4. n \in Ids
      <3> DEFINE f == [i \in 1 .. n |-> IF i = n THEN addr[c] + r ELSE addr[i]]
      <3>1. \A i \in 1 .. n : i # n => i \in Made
        BY <1>0, <2>1 DEF Made
      <3>2. f \in [1 .. n -> Nat]
        BY <1>0, <2>2, <3>1, ChunkFields
      <3>3. \A i \in 1 .. n : Aligned(f[i]) /\ f[i] < Total
        <4> SUFFICES ASSUME NEW i \in 1 .. n PROVE Aligned(f[i]) /\ f[i] < Total
          OBVIOUS
        <4>1. CASE i = n
          BY <1>0, <1>2, <2>1, <2>2, <4>1
        <4>2. CASE i # n
          BY <2>1, <3>1, <4>2, ChunkFields
        <4> QED
          BY <4>1, <4>2
      <3>4. \A i, j \in 1 .. n : i # j => f[i] # f[j]
        BY <2>3, <3>1, OneChunkPerAddress
      <3>5. n \in Nat
        BY <1>0, <2>1
      <3> HIDE DEF f
      <3>6. n <= Total \div PageSize
        BY <3>2, <3>3, <3>4, <3>5, PageCount
      <3> QED
        BY <1>0, <2>1, <3>5, <3>6 DEF Ids
    <2>5. Made' = Made \cup {n}
      BY <1>0, <2>0, <2>1 DEF Made
    <2>6. /\ \A i \in Made : /\ addr'[i] = addr[i] /\ free'[i] = free[i] /\ next'[i] = next[i]
                             /\ size'[i] = IF i = c THEN r ELSE size[i]
          /\ addr'[n] = addr[c] + r /\ size'[n] = size[c] - r /\ free'[n] = TRUE
          /\ next'[n] = next[c]
      BY <1>0, <2>0, <2>1, <2>4 DEF TypeInv
    <2>7. \A u \in Threads : u # t => pc[u] \notin InAlloc
      BY <1>0 DEF MutexInv
    <2>8. TypeInv'
      <3>1. free' \in [Ids -> BOOLEAN]
        BY <2>0 DEF TypeInv
      <3>2. addr' \in [Ids -> 0 .. Total] /\ size' \in [Ids -> 0 .. Total]
        <4>1. addr[c] + r \in 0 .. Total /\ size[c] - r \in 0 .. Total /\ r \in 0 .. Total
          BY <1>0, <1>2, <2>1, <2>2
        <4> QED
          BY <1>0, <2>0, <4>1 DEF TypeInv
      <3>3. next' \in [Ids -> Ids \cup {Nil}] /\ made' \in Ids
        BY <1>0, <2>0, <2>4 DEF TypeInv
      <3> QED
        BY <2>0, <3>1, <3>2, <3>3 DEF TypeInv, InAlloc
    <2>9. LayoutInv'
      <3>1. ASSUME NEW i \in Made'
            PROVE  /\ Aligned(addr'[i]) /\ Aligned(size'[i]) /\ size'[i] > 0
                   /\ addr'[i] + size'[i] <= Total
        <4>1. CASE i = n
          BY <1>0, <1>2, <2>1, <2>2, <2>6, <4>1
        <4>2. CASE i = c
          BY <1>0, <1>2, <2>1, <2>2, <2>6, <4>2
        <4>3. CASE i \in Made /\ i # c
          BY <2>6, <4>3, ChunkFields
        <4> QED
          BY <2>5, <3>1, <4>1, <4>2, <4>3
      <3>2. ASSUME NEW i \in Made, i # c
            PROVE  Apart(i, c)' /\ Apart(i, n)' /\ Apart(c, i)' /\ Apart(n, i)'
        <4>1. Apart(i, c) /\ addr[i] \in Nat /\ size[i] \in Nat
          BY <1>0, <3>2, ChunkFields DEF LayoutInv
        <4> QED
          BY <1>0, <1>2, <2>2, <2>6, <3>2, <4>1 DEF Apart
      <3>3. Apart(c, n)' /\ Apart(n, c)'
        BY <1>0, <2>2, <2>6 DEF Apart
      <3>4. ASSUME NEW i \in Made, NEW j \in Made, i # c, j # c, i # j
            PROVE  Apart(i, j)'
        BY <2>6, <3>4 DEF LayoutInv, Apart
      <3>5. ASSUME NEW x \in 0 .. Total - 1
            PROVE  \E i \in Made' : Covers(i, x)'
        <4>1. PICK i \in Made : Covers(i, x)
          BY DEF LayoutInv
        <4>2. CASE i # c
          BY <2>5, <2>6, <4>1, <4>2 DEF Covers
        <4>3. CASE i = c /\ x < addr[c] + r
          BY <1>0, <2>5, <2>6, <4>1, <4>3 DEF Covers
        <4>4. CASE i = c /\ x >= addr[c] + r
          <5>1. Covers(n, x)'
            BY <1>0, <2>1, <2>2, <2>6, <4>1, <4>4 DEF Covers
          <5> QED
            BY <2>5, <5>1
        <4> QED
          BY <1>0, <2>2, <4>2, <4>3, <4>4
      <3>6. \A i, j \in Made' : i # j => Apart(i, j)'
        BY <1>0, <2>5, <3>2, <3>3, <3>4
      <3> QED
        BY <3>1, <3>5, <3>6 DEF LayoutInv
    <2>10. ListInv'
      <3>1. next[c] # Nil => next[c] \in Made /\ addr[c] + r < addr[next[c]]
        <4>1. next[c] # Nil => next[c] \in Made /\ addr[c] < addr[next[c]]
          BY <1>0 DEF ListInv
        <4>2. next[c] # Nil => next[c] # c /\ Apart(c, next[c]) /\ addr[next[c]] \in Nat
                                /\ size[next[c]] \in Nat /\ size[next[c]] > 0
          BY <1>0, <2>2, <4>1, ChunkFields DEF LayoutInv
        <4> QED
          BY <1>0, <1>2, <2>2, <4>1, <4>2 DEF Apart
      <3>2. Neighbour(n)'
        <4>1. ~\E u \in Threads : pc[u] = "link" /\ current[u] = c
          BY <1>0, <2>7 DEF InAlloc
        <4>2. Neighbour(c)
          BY <1>0, <4>1 DEF ListInv
        <4> QED
          BY <1>0, <2>2, <2>6, <3>1, <4>2 DEF Neighbour
      <3>3. pc'[t] = "link" /\ current'[t] = c
        BY <1>0, <2>0 DEF TypeInv
      <3>4. ASSUME NEW i \in Made, i # c
            PROVE  Neighbour(i)'
        <4>1. ~\E u \in Threads : pc[u] = "link" /\ current[u] = i
          BY <1>0, <2>7 DEF InAlloc
        <4>2. Neighbour(i) /\ (next[i] # Nil => next[i] \in Made)
          BY <4>1 DEF ListInv
        <4> QED
          BY <2>6, <3>4, <4>2 DEF Neighbour
      <3>5. ASSUME NEW i \in Made'
            PROVE  next'[i] # Nil => next'[i] \in Made' /\ addr'[i] < addr'[next'[i]]
        <4>1. CASE i = n
          BY <2>5, <2>6, <3>1, <4>1
        <4>2. CASE i \in Made
          BY <2>5, <2>6, <4>2 DEF ListInv
        <4> QED
          BY <2>5, <3>5, <4>1, <4>2
      <3> QED
        BY <2>5, <3>2, <3>3, <3>4, <3>5 DEF ListInv
    <2>11. MutexInv'
      BY <1>0, <2>0, <2>7 DEF MutexInv, InAlloc, TypeInv
    <2>12. AllocInv'
      <3>1. ASSUME NEW u \in Threads, u # t
            PROVE  pc'[u] = pc[u] /\ pc'[u] \notin InAlloc /\ current'[u] = current[u]
        BY <2>0, <2>7, <3>1 DEF TypeInv
      <3>2. /\ pc'[t] = "link" /\ current'[t] = c /\ rounded'[t] = r /\ made' = n
            /\ c \in Made' /\ size'[c] = r /\ addr'[n] = addr'[c] + size'[c] /\ next'[n] = next'[c]
        BY <1>0, <2>0, <2>5, <2>6 DEF TypeInv
      <3> QED
        BY <1>0, <2>1, <2>5, <3>1, <3>2 DEF AllocInv, InAlloc
    <2>13. FreeInv'
      <3> SUFFICES ASSUME NEW u \in Threads, pc'[u] \in InFree
                   PROVE  /\ \E i \in Made' : addr'[i] = ptr'[u]
                          /\ pc'[u] \in {"clear", "release", "passed"} => addr'[current'[u]] = ptr'[u]
        BY DEF FreeInv, InFree
      <3>1. pc'[u] = pc[u] /\ ptr' = ptr /\ current' = current
        BY <2>0 DEF TypeInv, InFree
      <3>2. current[u] \in Made
        BY <3>1 DEF AllocInv, InFree
      <3> QED
        BY <2>5, <2>6, <3>1, <3>2 DEF FreeInv
    <2>14. OwnerInv'
      <3>1. \A b \in live : \E i \in Made' : ~free'[i] /\ addr'[i] = b.addr /\ size'[i] = b.size
        <4> SUFFICES ASSUME NEW b \in live
                     PROVE  \E i \in Made' : ~free'[i] /\ addr'[i] = b.addr /\ size'[i] = b.size
          OBVIOUS
        <4>1. PICK i \in Made : ~free[i] /\ addr[i] = b.addr /\ size[i] = b.size
          BY DEF OwnerInv
        <4>2. i # c
          BY <1>0, <4>1 DEF OwnerInv
        <4> QED
          BY <2>5, <2>6, <4>1, <4>2
      <3>2. \A u \in Threads, i \in Made : InHand(u, i)' => InHand(u, i)
        <4> SUFFICES ASSUME NEW u \in Threads, NEW i \in Made, InHand(u, i)'
                     PROVE  InHand(u, i)
          OBVIOUS
        <4>1. CASE u = t
          BY <1>0, <2>0, <4>1 DEF InHand, TypeInv
        <4>2. CASE u # t
          <5>1. pc'[u] = pc[u] /\ current' = current /\ ptr' = ptr
            BY <2>0, <4>2 DEF TypeInv
          <5>2. pc[u] = "walk" => current[u] \in Made
            BY DEF AllocInv
          <5> QED
            BY <2>6, <5>1, <5>2 DEF InHand
        <4> QED
          BY <4>1, <4>2
      <3>3. \A u \in Threads : ~InHand(u, n)'
        <4> SUFFICES ASSUME NEW u \in Threads, InHand(u, n)' PROVE FALSE
          OBVIOUS
        <4>1. CASE u = t
          BY <1>0, <2>0, <2>1, <4>1 DEF InHand, TypeInv
        <4>2. CASE u # t
          <5>1. pc'[u] = pc[u] /\ current' = current /\ ptr' = ptr
            BY <2>0, <4>2 DEF TypeInv
          <5>2. pc[u] # "idle" => current[u] \in Made
            BY DEF AllocInv
          <5>3. pc[u] = "walk" /\ addr'[n] = ptr[u]
            BY <2>1, <5>1, <5>2 DEF InHand
          <5>4. \E i \in Made : addr[i] = ptr[u]
            BY <5>3 DEF FreeInv, InFree
          <5> QED
            BY <2>3, <2>6, <5>3, <5>4
        <4> QED
          BY <4>1, <4>2
      <3>4. ASSUME NEW i \in Made', NEW u \in Threads, InHand(u, i)'
            PROVE  /\ ~free'[i] /\ \A b \in live : b.addr # addr'[i]
                   /\ \A v \in Threads : InHand(v, i)' => v = u
        <4>1. i \in Made
          BY <2>5, <3>3, <3>4
        <4> QED
          BY <2>6, <3>2, <3>4, <4>1 DEF OwnerInv
      <3> QED
        BY <2>0, <3>1, <3>4 DEF OwnerInv
    <2>15. ZeroInv'
      <3>1. \A i \in Made : i # c /\ Clean(i) => Clean(i)'
        BY <2>0, <2>6 DEF Clean, Covers
      <3>2. ~free[c]
        BY <1>0 DEF OwnerInv
      <3>3. Clean(n)'
        <4>1. Clean(c) /\ dirty \subseteq Nat
          BY <1>0 DEF ZeroInv, TypeInv
        <4> QED
          BY <1>0, <2>0, <2>2, <2>6, <4>1 DEF Clean, Covers
      <3>4. ASSUME NEW i \in Made', free'[i]
            PROVE  Clean(i)'
        BY <2>5, <2>6, <3>1, <3>2, <3>3, <3>4 DEF ZeroInv
      <3>5. ASSUME NEW u \in Threads, pc'[u] \in {"split", "release"}
            PROVE  Clean(current[u])'
        <4>1. u # t /\ pc[u] = "release"
          BY <2>0, <2>7, <3>5 DEF TypeInv, InAlloc
        <4>2. PICK k \in Made : k = current[u] /\ k # c
          BY <1>0, <4>1 DEF AllocInv, OwnerInv, InHand
        <4>3. Clean(k)'
          BY <3>1, <4>1, <4>2 DEF ZeroInv
        <4> QED
          BY <2>0, <4>2, <4>3 DEF Clean, Covers
      <3> QED
        BY <2>0, <3>4, <3>5 DEF ZeroInv
    <2> QED
      BY <2>8, <2>9, <2>10, <2>11, <2>12, <2>13, <2>14, <2>15
  <1> QED
    BY <1>0, <1>1, <1>2, ChunkFields

\* free takes a block back from its client: its chunk was in nobody's hands.
LEMMA FreeBeginInv ==
    ASSUME Inv, NEW t \in Threads, NEW b \in live, FreeBegin(t, b)
    PROVE  Inv'
  <1> USE DEF Inv
  <1>0. /\ pc[t] = "idle" /\ live' = live \ {b}
        /\ ptr' = [ptr EXCEPT ![t] = b.addr] /\ current' = [current EXCEPT ![t] = 1]
        /\ pc' = [pc EXCEPT ![t] = "walk"] /\ Made' = Made
        /\ UNCHANGED <<addr, size, free, next, made, memoryMutex, rounded, dirty>>
    BY DEF FreeBegin, chunks, Made
  <1>1. 1 \in Made /\ 1 \in Ids /\ b.addr \in Nat /\ b.size \in Nat
    BY MadeAreIds DEF TypeInv
  <1>2. PICK j \in Made : ~free[j] /\ addr[j] = b.addr /\ size[j] = b.size
    BY DEF OwnerInv
  <1>3. \A i \in Made : addr[i] = b.addr => i = j
    BY <1>2, OneChunkPerAddress
  <1>4. \A d \in live : d # b => d.addr # b.addr
    <2> SUFFICES ASSUME NEW d \in live, d.addr = b.addr PROVE d = b
      OBVIOUS
    <2>1. PICK k \in Made : addr[k] = d.addr /\ size[k] = d.size
      BY DEF OwnerInv
    <2>2. d.size = b.size
      BY <1>2, <1>3, <2>1
    <2>3. d \in [addr : Nat, size : Nat] /\ b \in [addr : Nat, size : Nat]
      BY DEF TypeInv
    <2> QED
      BY <2>2, <2>3
  <1>5. TypeInv'
    BY <1>0, <1>1 DEF TypeInv, InFree
  <1>6. LayoutInv'
    BY <1>0 DEF LayoutInv, Apart, Covers
  <1>7. ListInv'
    BY <1>0 DEF ListInv, Neighbour, TypeInv
  <1>8. MutexInv'
    BY <1>0 DEF MutexInv, InAlloc, TypeInv
  <1>9. AllocInv'
    BY <1>0, <1>1 DEF AllocInv, InAlloc, TypeInv
  <1>10. FreeInv'
    <2>1. pc'[t] = "walk" /\ ptr'[t] = b.addr
      BY <1>0 DEF TypeInv
    <2>2. \A u \in Threads : u # t => pc'[u] = pc[u] /\ ptr'[u] = ptr[u] /\ current'[u] = current[u]
      BY <1>0 DEF TypeInv
    <2> QED
      BY <1>0, <1>2, <2>1, <2>2 DEF FreeInv
  <1>11. OwnerInv'
    <2>1. \A u \in Threads, i \in Made :
              InHand(u, i)' => (u = t /\ i = j) \/ (u # t /\ i # j /\ InHand(u, i))
      <3> SUFFICES ASSUME NEW u \in Threads, NEW i \in Made, InHand(u, i)'
                   PROVE  (u = t /\ i = j) \/ (u # t /\ i # j /\ InHand(u, i))
        OBVIOUS
      <3>1. CASE u = t
        BY <1>0, <1>3, <3>1 DEF InHand, TypeInv
      <3>2. CASE u # t
        <4>1. InHand(u, i)
          BY <1>0, <3>2 DEF InHand, TypeInv
        <4> QED
          BY <1>2, <3>2, <4>1 DEF OwnerInv
      <3> QED
        BY <3>1, <3>2
    <2>2. ASSUME NEW i \in Made, NEW u \in Threads, InHand(u, i)'
          PROVE  /\ ~free[i] /\ \A d \in live' : d.addr # addr[i]
                 /\ \A v \in Threads : InHand(v, i)' => v = u
      <3>1. CASE i = j
        BY <1>0, <1>2, <1>4, <2>1, <2>2, <3>1
      <3>2. CASE i # j
        BY <1>0, <2>1, <2>2, <3>2 DEF OwnerInv
      <3> QED
        BY <3>1, <3>2
    <2>3. \A d \in live' : \E i \in Made : ~free[i] /\ addr[i] = d.addr /\ size[i] = d.size
      BY <1>0 DEF OwnerInv
    <2> QED
      BY <1>0, <2>2, <2>3 DEF OwnerInv
  <1>12. ZeroInv'
    BY <1>0 DEF ZeroInv, Clean, Covers, TypeInv
  <1> QED
    BY <1>5, <1>6, <1>7, <1>8, <1>9, <1>10, <1>11, <1>12

\* free looks at a chunk: what it finds at its address it has had in hand since
\* it began, and what it walks past it does not come back to.
LEMMA FreeWalkInv ==
    ASSUME Inv, NEW t \in Threads, FreeWalk(t)
    PROVE  Inv'
  <1> USE DEF Inv
  <1>a. PICK c : c = current[t]
    OBVIOUS
  <1>0. /\ pc[t] = "walk" /\ c \in Made /\ c = current[t] /\ Made' = Made
        /\ UNCHANGED <<addr, size, free, next, made, memoryMutex, rounded, ptr, live, dirty>>
    BY <1>a DEF FreeWalk, chunks, Made, AllocInv
  <1>1. \/ /\ addr[c] = ptr[t] /\ pc' = [pc EXCEPT ![t] = "clear"] /\ current' = current
        \/ /\ next[c] # Nil /\ pc' = [pc EXCEPT ![t] = "walk"]
           /\ current' = [current EXCEPT ![t] = next[c]]
        \/ /\ next[c] = Nil /\ pc' = [pc EXCEPT ![t] = "idle"]
           /\ current' = [current EXCEPT ![t] = Nil]
    BY <1>0 DEF FreeWalk, FreeAdvance
  <1>2. next[c] # Nil => next[c] \in Made /\ next[c] \in Ids /\ addr[c] < addr[next[c]]
                          /\ addr[c] \in Nat /\ addr[next[c]] \in Nat
    BY <1>0, ChunkFields, MadeAreIds DEF ListInv
  <1>3. TypeInv'
    BY <1>0, <1>1, <1>2 DEF TypeInv, InFree
  <1>4. LayoutInv'
    BY <1>0 DEF LayoutInv, Apart, Covers
  <1>5. ListInv'
    BY <1>0, <1>1 DEF ListInv, Neighbour, TypeInv
  <1>6. MutexInv'
    BY <1>0, <1>1 DEF MutexInv, InAlloc, TypeInv
  <1>7. AllocInv'
    BY <1>0, <1>1, <1>2 DEF AllocInv, InAlloc, TypeInv
  <1>8. FreeInv'
    BY <1>0, <1>1 DEF FreeInv, InFree, TypeInv
  <1>9. OwnerInv'
    <2>1. ptr[t] \in Nat /\ addr[c] \in Nat
      BY <1>0, ChunkFields DEF TypeInv
    <2>2. \A u \in Threads, i \in Made : InHand(u, i)' => InHand(u, i)
      BY <1>0, <1>1, <1>2, <2>1 DEF InHand, TypeInv
    <2> QED
      BY <1>0, <2>2 DEF OwnerInv
  <1>10. ZeroInv'
    BY <1>0, <1>1 DEF ZeroInv, Clean, Covers, TypeInv
  <1> QED
    BY <1>3, <1>4, <1>5, <1>6, <1>7, <1>8, <1>9, <1>10

\* memset over the chunk.
LEMMA FreeClearInv ==
    ASSUME Inv, NEW t \in Threads, FreeClear(t)
    PROVE  Inv'
  <1> USE DEF Inv
  <1>0. /\ pc[t] = "clear" /\ dirty' = dirty \ Cleared(t)
        /\ pc' = [pc EXCEPT ![t] = "release"] /\ Made' = Made
        /\ UNCHANGED <<addr, size, free, next, made, memoryMutex, current, rounded, ptr, live>>
    BY DEF FreeClear, chunks, Made
  <1>1. TypeInv'
    BY <1>0 DEF TypeInv, InFree
  <1>2. LayoutInv'
    BY <1>0 DEF LayoutInv, Apart, Covers
  <1>3. ListInv'
    BY <1>0 DEF ListInv, Neighbour, TypeInv
  <1>4. MutexInv'
    BY <1>0 DEF MutexInv, InAlloc, TypeInv
  <1>5. AllocInv'
    BY <1>0 DEF AllocInv, InAlloc, TypeInv
  <1>6. FreeInv'
    BY <1>0 DEF FreeInv, InFree, TypeInv
  <1>7. OwnerInv'
    <2>1. \A u \in Threads, i \in Made : InHand(u, i)' => InHand(u, i)
      BY <1>0 DEF InHand, TypeInv
    <2> QED
      BY <1>0, <2>1 DEF OwnerInv
  <1>8. ZeroInv'
    <2>1. \A x \in dirty' : x \in dirty /\ ~Covers(current[t], x)
      <3>1. current[t] \in Made
        BY <1>0 DEF AllocInv
      <3>2. addr[current[t]] \in Nat /\ size[current[t]] \in Nat /\ dirty \subseteq Nat
        BY <3>1, ChunkFields DEF TypeInv
      <3> SUFFICES ASSUME NEW x \in dirty' PROVE x \in dirty /\ ~Covers(current[t], x)
        OBVIOUS
      <3>3. x \in dirty /\ x \in Nat /\ x \notin Bytes(addr[current[t]], size[current[t]])
        BY <1>0, <3>2 DEF Cleared
      <3> QED
        BY <3>2, <3>3 DEF Bytes, Covers
    <2> QED
      BY <1>0, <2>1 DEF ZeroInv, Clean, Covers, TypeInv
  <1> QED
    BY <1>1, <1>2, <1>3, <1>4, <1>5, <1>6, <1>7, <1>8

\* The chunk goes back on offer.
LEMMA FreeReleaseInv ==
    ASSUME Inv, NEW t \in Threads, FreeRelease(t)
    PROVE  Inv'
  <1> USE DEF Inv
  <1>a. PICK c : c = current[t]
    OBVIOUS
  <1>0. /\ pc[t] = "release" /\ c \in Made /\ c = current[t] /\ Made' = Made
        /\ free' = [free EXCEPT ![c] = TRUE]
        /\ pc' = [pc EXCEPT ![t] = "passed"]
        /\ UNCHANGED <<addr, size, next, made, memoryMutex, current, rounded, ptr, live, dirty>>
    BY <1>a DEF FreeRelease, Made, AllocInv
  <1>1. addr[c] \in Nat /\ addr[c] = ptr[t] /\ InHand(t, c)
    BY <1>0, ChunkFields DEF FreeInv, InHand
  <1>2. \A i \in Made : free'[i] = IF i = c THEN TRUE ELSE free[i]
    BY <1>0, MadeAreIds DEF TypeInv
  <1>3. TypeInv'
    <2>1. free' \in [Ids -> BOOLEAN]
      BY <1>0 DEF TypeInv
    <2> QED
      BY <1>0, <1>1, <2>1 DEF TypeInv, InFree
  <1>4. LayoutInv'
    BY <1>0 DEF LayoutInv, Apart, Covers
  <1>5. ListInv'
    BY <1>0 DEF ListInv, Neighbour, TypeInv
  <1>6. MutexInv'
    BY <1>0 DEF MutexInv, InAlloc, TypeInv
  <1>7. AllocInv'
    BY <1>0, <1>1 DEF AllocInv, InAlloc, TypeInv
  <1>8. FreeInv'
    BY <1>0 DEF FreeInv, InFree, TypeInv
  <1>9. OwnerInv'
    <2>1. \A u \in Threads, i \in Made : InHand(u, i)' => i # c /\ InHand(u, i)
      <3> SUFFICES ASSUME NEW u \in Threads, NEW i \in Made, InHand(u, i)'
                   PROVE  i # c /\ InHand(u, i)
        OBVIOUS
      <3>1. CASE u = t
        BY <1>0, <1>1, <3>1 DEF InHand, TypeInv
      <3>2. CASE u # t
        <4>1. InHand(u, i)
          BY <1>0, <3>2 DEF InHand, TypeInv
        <4> QED
          BY <1>1, <3>2, <4>1 DEF OwnerInv
      <3> QED
        BY <3>1, <3>2
    <2>2. \A b \in live : \E i \in Made : ~free'[i] /\ addr[i] = b.addr /\ size[i] = b.size
      <3> SUFFICES ASSUME NEW b \in live
                   PROVE  \E i \in Made : ~free'[i] /\ addr[i] = b.addr /\ size[i] = b.size
        OBVIOUS
      <3>1. PICK i \in Made : ~free[i] /\ addr[i] = b.addr /\ size[i] = b.size
        BY DEF OwnerInv
      <3>2. i # c
        BY <1>0, <1>1, <3>1 DEF OwnerInv
      <3> QED
        BY <1>2, <3>1, <3>2
    <2>3. ASSUME NEW i \in Made, NEW u \in Threads, InHand(u, i)'
          PROVE  /\ ~free'[i] /\ \A b \in live : b.addr # addr[i]
                 /\ \A v \in Threads : InHand(v, i)' => v = u
      BY <1>2, <2>1, <2>3 DEF OwnerInv
    <2> QED
      BY <1>0, <2>2, <2>3 DEF OwnerInv
  <1>10. ZeroInv'
    <2>1. Clean(c)
      BY <1>0 DEF ZeroInv
    <2>2. \A i \in Made : free'[i] => Clean(i)
      BY <1>2, <2>1 DEF ZeroInv
    <2> QED
      BY <1>0, <2>2 DEF ZeroInv, Clean, Covers, TypeInv
  <1> QED
    BY <1>3, <1>4, <1>5, <1>6, <1>7, <1>8, <1>9, <1>10

\* free walks on from the chunk it has released, whoever has it by now.
LEMMA FreeNextInv ==
    ASSUME Inv, NEW t \in Threads, FreeNext(t)
    PROVE  Inv'
  <1> USE DEF Inv
  <1>a. PICK c : c = current[t]
    OBVIOUS
  <1>0. /\ pc[t] = "passed" /\ c \in Made /\ c = current[t] /\ Made' = Made
        /\ current' = [current EXCEPT ![t] = next[c]]
        /\ pc' = [pc EXCEPT ![t] = IF next[c] = Nil THEN "idle" ELSE "walk"]
        /\ UNCHANGED <<addr, size, free, next, made, memoryMutex, rounded, ptr, live, dirty>>
    BY <1>a DEF FreeNext, FreeAdvance, chunks, Made, AllocInv
  <1>1. /\ next[c] # Nil => next[c] \in Made /\ addr[c] < addr[next[c]] /\ addr[next[c]] \in Nat
        /\ addr[c] \in Nat /\ addr[c] = ptr[t] /\ next[c] \in Ids \cup {Nil}
    BY <1>0, ChunkFields DEF ListInv, FreeInv
  <1>2. TypeInv'
    BY <1>0, <1>1 DEF TypeInv, InFree
  <1>3. LayoutInv'
    BY <1>0 DEF LayoutInv, Apart, Covers
  <1>4. ListInv'
    BY <1>0 DEF ListInv, Neighbour, TypeInv
  <1>5. MutexInv'
    BY <1>0 DEF MutexInv, InAlloc, TypeInv
  <1>6. AllocInv'
    BY <1>0, <1>1 DEF AllocInv, InAlloc, TypeInv
  <1>7. FreeInv'
    BY <1>0 DEF FreeInv, InFree, TypeInv
  <1>8. OwnerInv'
    <2>1. \A u \in Threads, i \in Made : InHand(u, i)' => InHand(u, i)
      BY <1>0, <1>1 DEF InHand, TypeInv
    <2> QED
      BY <1>0, <2>1 DEF OwnerInv
  <1>9. ZeroInv'
    BY <1>0 DEF ZeroInv, Clean, Covers, TypeInv
  <1> QED
    BY <1>2, <1>3, <1>4, <1>5, <1>6, <1>7, <1>8, <1>9

\* A client writes into its block, and into nothing else.
LEMMA TouchInv ==
    ASSUME Inv, NEW b \in live, Touch(b)
    PROVE  Inv'
  <1> USE DEF Inv
  <1>0. /\ dirty' = dirty \cup Bytes(b.addr, b.size) /\ Made' = Made
        /\ UNCHANGED <<addr, size, free, next, made, memoryMutex, pc, current, rounded, ptr, live>>
    BY DEF Touch, chunks, locals, Made
  <1>1. PICK j \in Made : ~free[j] /\ addr[j] = b.addr /\ size[j] = b.size
    BY DEF OwnerInv
  <1>2. addr[j] \in Nat /\ size[j] \in Nat /\ addr[j] + size[j] <= Total
    BY ChunkFields
  <1>3. \A x \in dirty' : x \in dirty \/ (x \in Nat /\ Covers(j, x))
    BY <1>0, <1>1, <1>2 DEF Bytes, Covers
  <1>4. TypeInv'
    <2>1. dirty' \subseteq Nat
      BY <1>3 DEF TypeInv
    <2> QED
      BY <1>0, <2>1 DEF TypeInv
  <1>5. LayoutInv' /\ ListInv' /\ MutexInv'
    BY <1>0 DEF LayoutInv, Apart, Covers, ListInv, Neighbour, MutexInv
  <1>6. AllocInv' /\ FreeInv' /\ OwnerInv'
    BY <1>0 DEF AllocInv, FreeInv, OwnerInv, InHand
  <1>7. ZeroInv'
    <2>1. ASSUME NEW i \in Made, i # j, Clean(i)
          PROVE  Clean(i)'
      <3>1. Apart(i, j) /\ addr[i] \in Nat /\ size[i] \in Nat
        BY <2>1, ChunkFields DEF LayoutInv
      <3> QED
        BY <1>0, <1>2, <1>3, <2>1, <3>1 DEF Clean, Covers, Apart
    <2>2. ASSUME NEW i \in Made, free[i] PROVE Clean(i)'
      BY <1>1, <2>1, <2>2 DEF ZeroInv
    <2>3. ASSUME NEW u \in Threads, pc[u] \in {"split", "release"} PROVE Clean(current[u])'
      <3>1. PICK k \in Made : k = current[u]
        BY <2>3 DEF AllocInv
      <3>2. InHand(u, k)
        BY <2>3, <3>1 DEF InHand
      <3>3. k # j
        BY <1>1, <3>2 DEF OwnerInv
      <3>4. Clean(k)'
        BY <2>1, <2>3, <3>1, <3>3 DEF ZeroInv
      <3> QED
        BY <1>0, <3>1, <3>4 DEF Clean, Covers
    <2>4. \A x \in dirty' : x < Total
      BY <1>2, <1>3, SizesAssumption DEF Covers, ZeroInv
    <2> QED
      BY <1>0, <2>2, <2>3, <2>4 DEF ZeroInv
  <1> QED
    BY <1>4, <1>5, <1>6, <1>7

\* The invariant is inductive.
LEMMA StepInv == Inv /\ [Next]_vars => Inv'
  <1> SUFFICES ASSUME Inv, [Next]_vars PROVE Inv'
    OBVIOUS
  <1>1. ASSUME NEW t \in Threads, Step(t) PROVE Inv'
    BY <1>1, AllocScanInv, AllocAcquireInv, AllocSplitInv, AllocLinkInv, FreeWalkInv, FreeClearInv,
       FreeReleaseInv, FreeNextInv DEF Step
  <1>2. ASSUME NEW t \in Threads, NEW n \in Sizes, AllocBegin(t, n) PROVE Inv'
    BY <1>2, AllocBeginInv
  <1>3. ASSUME NEW t \in Threads, NEW b \in live, FreeBegin(t, b) PROVE Inv'
    BY <1>3, FreeBeginInv
  <1>4. ASSUME NEW b \in live, Touch(b) PROVE Inv'
    BY <1>4, TouchInv
  <1>5. CASE UNCHANGED vars
    <2>1. TypeInv' /\ LayoutInv' /\ ListInv' /\ MutexInv'
      BY <1>5 DEF Inv, vars, chunks, locals, TypeInv, LayoutInv, Apart, Covers, ListInv, Neighbour,
                  MutexInv, Made
    <2>2. AllocInv' /\ FreeInv' /\ OwnerInv' /\ ZeroInv'
      BY <1>5 DEF Inv, vars, chunks, locals, AllocInv, FreeInv, OwnerInv, InHand, ZeroInv, Clean,
                  Covers, Made
    <2> QED
      BY <2>1, <2>2 DEF Inv
  <1> QED
    BY <1>1, <1>2, <1>3, <1>4, <1>5 DEF Next

\* The invariant holds in every state.
THEOREM Invariance == Spec => []Inv
  BY InitInv, StepInv, PTL DEF Spec

\* A client's block is a chunk of the buffer.
LEMMA BlockIsChunk ==
    ASSUME Inv, NEW b \in live
    PROVE  \E i \in Made : /\ addr[i] = b.addr /\ size[i] = b.size
                           /\ addr[i] \in Nat /\ size[i] \in Nat /\ size[i] > 0
                           /\ addr[i] + size[i] <= Total
  BY ChunkFields DEF Inv, OwnerInv

\* Types of the chunks, the threads' locals and the clients' blocks; in
\* particular the number of chunks never exceeds the number of pages.
THEOREM TypeCorrect == Spec => []TypeOK
  <1>1. Inv => TypeOK
    <2> SUFFICES ASSUME Inv PROVE TypeOK
      OBVIOUS
    <2> USE DEF Inv
    <2>3. \A b \in live : b.addr \in 0 .. Total - 1 /\ b.size \in 1 .. Total
      BY BlockIsChunk, SizesAssumption
    <2>4. dirty \subseteq 0 .. Total - 1
      BY SizesAssumption DEF TypeInv, ZeroInv
    <2> QED
      BY <2>3, <2>4 DEF TypeInv, TypeOK, InAlloc, InFree
  <1> QED
    BY <1>1, Invariance, PTL

\* No two clients ever hold the same byte, and none holds one outside the buffer,
\* with any number of threads inside free while one is inside allocate.
THEOREM BlocksDisjoint == Spec => []NoOverlap
  <1>1. Inv => NoOverlap
    <2> SUFFICES ASSUME Inv PROVE NoOverlap
      OBVIOUS
    <2> USE DEF Inv
    <2>1. ASSUME NEW a \in live, NEW b \in live, a # b
          PROVE  Bytes(a.addr, a.size) \cap Bytes(b.addr, b.size) = {}
      <3>1. PICK i \in Made : addr[i] = a.addr /\ size[i] = a.size
                               /\ addr[i] \in Nat /\ size[i] \in Nat
        BY BlockIsChunk
      <3>2. PICK j \in Made : addr[j] = b.addr /\ size[j] = b.size
                               /\ addr[j] \in Nat /\ size[j] \in Nat
        BY BlockIsChunk
      <3>3. i # j
        <4>1. a \in [addr : Nat, size : Nat] /\ b \in [addr : Nat, size : Nat]
          BY DEF TypeInv
        <4> QED
          BY <2>1, <3>1, <3>2, <4>1
      <3>4. Apart(i, j)
        BY <3>3 DEF LayoutInv
      <3> QED
        BY <3>1, <3>2, <3>4 DEF Apart, Bytes
    <2>2. ASSUME NEW b \in live PROVE Bytes(b.addr, b.size) \subseteq 0 .. Total - 1
      BY BlockIsChunk, SizesAssumption DEF Bytes
    <2> QED
      BY <2>1, <2>2 DEF NoOverlap
  <1> QED
    BY <1>1, Invariance, PTL

\* Memory on offer to allocate reads as zero, although free clears it without
\* taking the lock.
THEOREM FreeMemoryReadsZero == Spec => []FreeMemoryIsZero
  <1>1. Inv => FreeMemoryIsZero
    <2> SUFFICES ASSUME Inv, NEW i \in Made, free[i]
                 PROVE  Bytes(addr[i], size[i]) \cap dirty = {}
      BY DEF FreeMemoryIsZero, Made
    <2>1. Clean(i) /\ dirty \subseteq Nat /\ addr[i] \in Nat /\ size[i] \in Nat
      BY ChunkFields DEF Inv, ZeroInv, TypeInv
    <2> QED
      BY <2>1 DEF Clean, Covers, Bytes
  <1> QED
    BY <1>1, Invariance, PTL

\* With no allocation in progress every byte of the buffer is in exactly one
\* chunk and the list leads from each chunk to its neighbour.
THEOREM ListTiles == Spec => []ListTilesBuffer
  <1>1. Inv => ListTilesBuffer
    <2> SUFFICES ASSUME Inv, memoryMutex = Nil PROVE ListTilesBuffer
      BY DEF ListTilesBuffer
    <2> USE DEF Inv
    <2>1. ASSUME NEW i \in Made PROVE Neighbour(i)
      <3>1. ~\E t \in Threads : pc[t] = "link"
        BY ThreadsAssumption DEF MutexInv, InAlloc
      <3> QED
        BY <3>1 DEF ListInv
    <2>2. ASSUME NEW x \in 0 .. Total - 1
          PROVE  Cardinality({i \in Made : x \in Bytes(addr[i], size[i])}) = 1
      <3>1. \A i \in Made : x \in Bytes(addr[i], size[i]) <=> Covers(i, x)
        BY ChunkFields, SizesAssumption DEF Bytes, Covers
      <3>2. PICK i \in Made : Covers(i, x)
        BY DEF LayoutInv
      <3>3. ASSUME NEW j \in Made, Covers(j, x) PROVE j = i
        <4>1. /\ addr[i] \in Nat /\ addr[j] \in Nat /\ size[i] \in Nat /\ size[j] \in Nat
              /\ i # j => Apart(i, j)
          BY ChunkFields DEF LayoutInv
        <4> QED
          BY <3>2, <3>3, <4>1, SizesAssumption DEF Covers, Apart
      <3>4. {j \in Made : x \in Bytes(addr[j], size[j])} = {i}
        BY <3>1, <3>2, <3>3
      <3> QED
        BY <3>4, FS_Singleton
    <2> QED
      BY <2>1, <2>2 DEF ListTilesBuffer, Made, Neighbour
  <1> QED
    BY <1>1, Invariance, PTL
=============================================================================
