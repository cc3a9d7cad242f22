--------------------------- MODULE MemoryManager ----------------------------
(***************************************************************************)
(* sw/src/fpga/MemoryManager.cpp: a first-fit allocator over the huge-page  *)
(* buffer, a singly linked list of chunks.  allocate holds memoryMutex;     *)
(* free holds nothing, so its walk interleaves with a walk, an acquisition  *)
(* and a split of allocate.  Each step below is one access to a field that  *)
(* the other side may be using.                                             *)
(*                                                                          *)
(* Clients (external) free only what allocate returned to them, once, and   *)
(* write only into what they hold.                                          *)
(***************************************************************************)
EXTENDS Integers, FiniteSets

CONSTANTS
    Threads,    \* client threads
    PageSize,   \* 4096
    Total,      \* bytes managed, a multiple of PageSize
    SizeMod,    \* 2^64, the range of size_t
    Sizes       \* sizes the clients ask for

ASSUME SizesAssumption ==
    /\ PageSize \in Nat \ {0} /\ Total \in Nat \ {0} /\ Total % PageSize = 0
    /\ SizeMod \in Nat /\ Total < SizeMod
    /\ Sizes \subseteq 1 .. SizeMod - PageSize

Ids == 1 .. Total \div PageSize     \* chunks never get smaller than a page
Nil == 0
ASSUME ThreadsAssumption == Nil \notin Threads

VARIABLES
    addr, size, free, next, \* the chunks, by identity
    made,                   \* chunks created so far
    memoryMutex,            \* its holder, or Nil
    pc, current, rounded, ptr, \* per thread: where it is and its locals
    live,                   \* history: blocks the clients hold
    dirty                   \* bytes that are not zero

chunks == <<addr, size, free, next, made>>
locals == <<pc, current, rounded, ptr>>
vars   == <<chunks, memoryMutex, locals, live, dirty>>

Bytes(a, n) == a .. a + n - 1

RoundDown(n) == (n \div PageSize) * PageSize
roundedSize(n) == (((n + PageSize - 1) % SizeMod) \div PageSize) * PageSize

Init ==
    /\ addr = [i \in Ids |-> 0]
    /\ size = [i \in Ids |-> IF i = 1 THEN Total ELSE 0]
    /\ free = [i \in Ids |-> i = 1]
    /\ next = [i \in Ids |-> Nil]
    /\ made = 1
    /\ memoryMutex = Nil
    /\ pc = [t \in Threads |-> "idle"]
    /\ current = [t \in Threads |-> Nil]
    /\ rounded = [t \in Threads |-> 0]
    /\ ptr = [t \in Threads |-> 0]
    /\ live = {}
    /\ dirty = {}

-----------------------------------------------------------------------------
(***************************************************************************)
(* allocate                                                                 *)
(***************************************************************************)
LockIgnored == TRUE
LockFree == memoryMutex = Nil

AllocBegin(t, n) ==
    /\ pc[t] = "idle" /\ LockFree
    /\ memoryMutex' = t
    /\ rounded' = [rounded EXCEPT ![t] = roundedSize(n)]
    /\ current' = [current EXCEPT ![t] = 1]
    /\ pc' = [pc EXCEPT ![t] = "scan"]
    /\ UNCHANGED <<chunks, ptr, live, dirty>>

\* current = current->next, or "Could not allocate".
AllocAdvance(t) ==
    /\ current' = [current EXCEPT ![t] = next[current[t]]]
    /\ IF next[current[t]] = Nil
       THEN pc' = [pc EXCEPT ![t] = "idle"] /\ memoryMutex' = Nil
       ELSE pc' = [pc EXCEPT ![t] = "scan"] /\ UNCHANGED memoryMutex
    /\ UNCHANGED <<chunks, rounded, ptr, live, dirty>>

FitsLoosely(t) == free[current[t]] /\ rounded[t] <= size[current[t]] + PageSize
Fits(t) == free[current[t]] /\ rounded[t] <= size[current[t]]

AllocScan(t) ==
    /\ pc[t] = "scan"
    /\ \/ /\ Fits(t)
          /\ pc' = [pc EXCEPT ![t] = "acquire"]
          /\ UNCHANGED <<chunks, memoryMutex, current, rounded, ptr, live, dirty>>
       \/ ~Fits(t) /\ AllocAdvance(t)

\* compare_exchange_weak on free: it may fail although free is still true, and
\* then the chunk is passed over.  Only another allocate could have taken it
\* since AllocScan, and the mutex keeps that out.
AllocAcquire(t) ==
    /\ pc[t] = "acquire"
    /\ \/ /\ free[current[t]]
          /\ free' = [free EXCEPT ![current[t]] = FALSE]
          /\ pc' = [pc EXCEPT ![t] = "split"]
          /\ UNCHANGED <<addr, size, next, made, memoryMutex, current, rounded, ptr, live, dirty>>
       \/ AllocAdvance(t)

Return(t) ==
    /\ live' = live \cup {[addr |-> addr[current[t]], size |-> rounded[t]]}
    /\ memoryMutex' = Nil
    /\ pc' = [pc EXCEPT ![t] = "idle"]

\* Creates the remainder, unlinked, and shrinks the chunk.
AllocSplit(t) ==
    /\ pc[t] = "split"
    /\ LET c == current[t]  n == made + 1 IN
       \/ /\ size[c] > rounded[t]
          /\ made' = n
          /\ addr' = [addr EXCEPT ![n] = addr[c] + rounded[t]]
          /\ size' = [size EXCEPT ![n] = size[c] - rounded[t], ![c] = rounded[t]]
          /\ free' = [free EXCEPT ![n] = TRUE]
          /\ next' = [next EXCEPT ![n] = next[c]]
          /\ pc' = [pc EXCEPT ![t] = "link"]
          /\ UNCHANGED <<memoryMutex, live>>
       \/ /\ size[c] <= rounded[t]
          /\ Return(t)
          /\ UNCHANGED chunks
    /\ UNCHANGED <<current, rounded, ptr, dirty>>

AllocLinkDropped(t) ==
    /\ pc[t] = "link"
    /\ Return(t)
    /\ UNCHANGED <<chunks, current, rounded, ptr, dirty>>

AllocLink(t) ==
    /\ pc[t] = "link"
    /\ next' = [next EXCEPT ![current[t]] = made]
    /\ Return(t)
    /\ UNCHANGED <<addr, size, free, made, current, rounded, ptr, dirty>>

-----------------------------------------------------------------------------
(***************************************************************************)
(* free: no lock, visits every chunk.                                       *)
(***************************************************************************)
FreeBegin(t, b) ==
    /\ pc[t] = "idle" /\ b \in live
    /\ live' = live \ {b}
    /\ ptr' = [ptr EXCEPT ![t] = b.addr]
    /\ current' = [current EXCEPT ![t] = 1]
    /\ pc' = [pc EXCEPT ![t] = "walk"]
    /\ UNCHANGED <<chunks, memoryMutex, rounded, dirty>>

FreeAdvance(t) ==
    /\ current' = [current EXCEPT ![t] = next[current[t]]]
    /\ pc' = [pc EXCEPT ![t] = IF next[current[t]] = Nil THEN "idle" ELSE "walk"]

FreeWalk(t) ==
    /\ pc[t] = "walk"
    /\ \/ /\ addr[current[t]] = ptr[t]
          /\ pc' = [pc EXCEPT ![t] = "clear"] /\ UNCHANGED current
       \/ addr[current[t]] # ptr[t] /\ FreeAdvance(t)
    /\ UNCHANGED <<chunks, memoryMutex, rounded, ptr, live, dirty>>

ClearedNothing(t) == {}
Cleared(t) == Bytes(addr[current[t]], size[current[t]])

FreeClear(t) ==
    /\ pc[t] = "clear"
    /\ dirty' = dirty \ Cleared(t)
    /\ pc' = [pc EXCEPT ![t] = "release"]
    /\ UNCHANGED <<chunks, memoryMutex, current, rounded, ptr, live>>

FreeReleaseStays(t) ==
    /\ pc[t] = "release"
    /\ free' = [free EXCEPT ![current[t]] = TRUE]
    /\ pc' = [pc EXCEPT ![t] = "walk"]
    /\ UNCHANGED <<addr, size, next, made, memoryMutex, current, rounded, ptr, live, dirty>>

FreeRelease(t) ==
    /\ pc[t] = "release"
    /\ free' = [free EXCEPT ![current[t]] = TRUE]
    /\ pc' = [pc EXCEPT ![t] = "passed"]
    /\ UNCHANGED <<addr, size, next, made, memoryMutex, current, rounded, ptr, live, dirty>>

\* The chunk may have been taken and split again before its next is read.
FreeNext(t) ==
    /\ pc[t] = "passed"
    /\ FreeAdvance(t)
    /\ UNCHANGED <<chunks, memoryMutex, rounded, ptr, live, dirty>>

-----------------------------------------------------------------------------
\* A client fills a block it holds (external).
Touch(b) ==
    /\ b \in live
    /\ dirty' = dirty \cup Bytes(b.addr, b.size)
    /\ UNCHANGED <<chunks, memoryMutex, locals, live>>

Step(t) ==
    \/ AllocScan(t) \/ AllocAcquire(t) \/ AllocSplit(t) \/ AllocLink(t)
    \/ FreeWalk(t) \/ FreeClear(t) \/ FreeRelease(t) \/ FreeNext(t)

Next ==
    \/ \E t \in Threads : Step(t)
    \/ \E t \in Threads, n \in Sizes : AllocBegin(t, n)
    \/ \E t \in Threads, b \in live : FreeBegin(t, b)
    \/ \E b \in live : Touch(b)

Spec == Init /\ [][Next]_vars

\* A thread inside allocate or free is not suspended for ever.
LiveSpec == Spec /\ \A t \in Threads : WF_vars(Step(t))

-----------------------------------------------------------------------------
TypeOK ==
    /\ addr \in [Ids -> 0 .. Total] /\ size \in [Ids -> 0 .. Total]
    /\ free \in [Ids -> BOOLEAN] /\ next \in [Ids -> Ids \cup {Nil}]
    /\ made \in Ids
    /\ memoryMutex \in Threads \cup {Nil}
    /\ pc \in [Threads -> {"idle", "scan", "acquire", "split", "link",
                           "walk", "clear", "release", "passed"}]
    /\ current \in [Threads -> Ids \cup {Nil}]
    /\ \A b \in live : b.addr \in 0 .. Total - 1 /\ b.size \in 1 .. Total
    /\ dirty \subseteq 0 .. Total - 1

\* No byte belongs to two clients, and none lies outside the buffer.
NoOverlap ==
    /\ \A a, b \in live : a # b => Bytes(a.addr, a.size) \cap Bytes(b.addr, b.size) = {}
    /\ \A b \in live : Bytes(b.addr, b.size) \subseteq 0 .. Total - 1

\* Memory handed out reads as zero although free clears it without the lock:
\* what is dirty is held by a client or still being cleared by free, never on
\* offer to allocate.
FreeMemoryIsZero ==
    \A i \in 1 .. made : free[i] => Bytes(addr[i], size[i]) \cap dirty = {}

\* Whenever no allocation is in progress the list tiles the buffer: no byte is
\* lost by a split, and every chunk is reachable from the head.
ListTilesBuffer ==
    memoryMutex = Nil =>
        /\ \A i \in 1 .. made :
              IF next[i] = Nil THEN addr[i] + size[i] = Total
              ELSE addr[next[i]] = addr[i] + size[i]
        /\ \A x \in 0 .. Total - 1 :
              Cardinality({i \in 1 .. made : x \in Bytes(addr[i], size[i])}) = 1

\* Every call of allocate and of free returns.
CallsReturn == \A t \in Threads : pc[t] # "idle" ~> pc[t] = "idle"
=============================================================================
