----------------------------- MODULE Positions -----------------------------
(***************************************************************************)
(* Positions in finite sequences: what the proofs need of the first and    *)
(* the last position with a property, which the modules choose.            *)
(***************************************************************************)
EXTENDS Integers, Sequences, WellFoundedInduction, TLAPS

\* A set of positions that is not empty has a first and a last member.
LEMMA FirstAndLast ==
    ASSUME NEW n \in Nat, NEW S \in SUBSET (1 .. n), S # {}
    PROVE  /\ \E i \in S : \A j \in S : i <= j
           /\ \E i \in S : \A j \in S : j <= i
<1> DEFINE Less == OpToRel(<, Nat)
<1>1. \A x, y \in Nat : <<x, y>> \in Less <=> x < y
  BY DEF OpToRel
<1>2. IsWellFoundedOn(Less, Nat)
  BY NatLessThanWellFounded
<1> HIDE DEF Less
<1>3. \A T : T \subseteq Nat /\ T # {} => \E x \in T : \A y \in T : ~(<<y, x>> \in Less)
  BY <1>2, WFMin
<1>4. \A i \in S : i \in Nat /\ n - i \in Nat
  OBVIOUS
<1>5. \E i \in S : \A j \in S : i <= j
  <2>1. PICK i \in S : \A j \in S : ~(<<j, i>> \in Less)
    BY <1>3, <1>4
  <2>2. ASSUME NEW j \in S PROVE i <= j
    <3>1. i \in Nat /\ j \in Nat
      BY <1>4
    <3>2. ~(j < i)
      BY <2>1, <3>1, <1>1
    <3> QED BY <3>1, <3>2
  <2> QED BY <2>2
<1>6. \E i \in S : \A j \in S : j <= i
  <2> DEFINE T == {n - i : i \in S}
  <2>1. T \subseteq Nat
    BY <1>4
  <2>2. T # {}
    OBVIOUS
  <2>3. PICK x \in T : \A y \in T : ~(<<y, x>> \in Less)
    BY <1>3, <2>1, <2>2
  <2>4. PICK i \in S : x = n - i
    OBVIOUS
  <2>5. ASSUME NEW j \in S PROVE j <= i
    <3>1. i \in Nat /\ j \in Nat /\ n - i \in Nat /\ n - j \in Nat
      BY <1>4
    <3>2. n - j \in T
      OBVIOUS
    <3>3. ~(n - j < n - i)
      BY <2>3, <2>4, <3>1, <3>2, <1>1
    <3> QED BY <3>1, <3>3
  <2> QED BY <2>5
<1> QED BY <1>5, <1>6
=============================================================================
