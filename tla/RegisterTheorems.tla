-------------------------- MODULE RegisterTheorems --------------------------
(***************************************************************************)
(* Arithmetic at register width: what Registers' operators return and how   *)
(* they relate to the remainder, for the proofs about the engines.          *)
(***************************************************************************)
EXTENDS Registers, TLAPS

\* An addition at register width stays within the width.
LEMMA AddModType ==
    ASSUME NEW m \in Nat, NEW a \in 0 .. m - 1, NEW b \in 0 .. m - 1
    PROVE  AddMod(a, b, m) \in 0 .. m - 1
  BY DEF AddMod

\* A wire counts as zero or one.
LEMMA OneType == ASSUME NEW b \in BOOLEAN PROVE One(b) \in {0, 1}
  BY DEF One

\* Quotient and remainder of a counter divided by a register's range.
LEMMA DivModNat ==
    ASSUME NEW m \in Nat \ {0}, NEW x \in Nat
    PROVE  x = (x \div m) * m + (x % m) /\ x % m \in 0 .. m - 1 /\ x \div m \in Nat
  OBVIOUS

\* The remainder is the only number below m that differs from x by a multiple of m.
LEMMA ModUnique ==
    ASSUME NEW m \in Nat \ {0}, NEW x \in Nat, NEW q \in Nat, NEW r \in 0 .. m - 1,
           x = q * m + r
    PROVE  x % m = r
  OBVIOUS

\* A register that wraps holds the remainder of the number it counts.
LEMMA ModAdd ==
    ASSUME NEW m \in Nat \ {0}, NEW x \in Nat, NEW s \in 0 .. m - 1
    PROVE  (x + s) % m = AddMod(x % m, s, m)
  <1> DEFINE q == x \div m
             r == x % m
  <1>1. x = q * m + r /\ r \in 0 .. m - 1 /\ q \in Nat
    BY DivModNat
  <1> HIDE DEF q, r
  <1>2. CASE r + s < m
    <2>1. x + s = q * m + (r + s) /\ r + s \in 0 .. m - 1 /\ x + s \in Nat
      BY <1>1, <1>2
    <2> QED
      BY <2>1, <1>1, <1>2, ModUnique DEF AddMod, r
  <1>3. CASE r + s >= m
    <2>1. /\ x + s = (q + 1) * m + (r + s - m)
          /\ r + s - m \in 0 .. m - 1 /\ x + s \in Nat /\ q + 1 \in Nat
      BY <1>1, <1>3
    <2>2. (x + s) % m = r + s - m
      BY <2>1, ModUnique
    <2> QED
      BY <2>2, <1>1, <1>3 DEF AddMod, r
  <1> QED
    BY <1>1, <1>2, <1>3

\* Advancing an offset register by stride moves it from k strides to k + 1,
\* modulo the address space.
LEMMA StrideStep ==
    ASSUME NEW m \in Nat \ {0}, NEW s \in 0 .. m - 1, NEW k \in Nat
    PROVE  ((k + 1) * s) % m = AddMod((k * s) % m, s, m)
  <1>1. (k + 1) * s = k * s + s /\ k * s \in Nat
    OBVIOUS
  <1> QED
    BY <1>1, ModAdd

\* Reducing a counter before adding to it makes no difference to the remainder.
LEMMA ModShift ==
    ASSUME NEW m \in Nat \ {0}, NEW x \in Nat, NEW k \in Nat
    PROVE  ((x % m) + k) % m = (x + k) % m
  <1> DEFINE q == x \div m
             r == x % m
             s == (r + k) \div m
             z == (r + k) % m
  <1>1. x = q * m + r /\ r \in Nat /\ q \in Nat
    BY DivModNat
  <1>2. r + k = s * m + z /\ z \in 0 .. m - 1 /\ s \in Nat
    <2>1. r + k \in Nat
      BY <1>1
    <2> HIDE DEF r
    <2> QED
      BY <2>1, DivModNat
  <1> HIDE DEF q, r, s, z
  <1>3. x + k = (q + s) * m + z /\ q + s \in Nat /\ x + k \in Nat
    BY <1>1, <1>2
  <1>4. (x + k) % m = z
    BY <1>2, <1>3, ModUnique
  <1> QED
    BY <1>4 DEF z, r
=============================================================================
