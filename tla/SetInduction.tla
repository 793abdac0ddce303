---------------------------- MODULE SetInduction ----------------------------
(***************************************************************************)
(* Induction over the natural numbers.  The theorems of the library take   *)
(* an operator, here they are about sets of numbers, so that the provers   *)
(* can apply them; they follow from the well-foundedness of <.             *)
(***************************************************************************)
EXTENDS Integers, WellFoundedInduction, TLAPS

Lower == {p \in Nat \X Nat : p[1] < p[2]}

\* A set of numbers has a smallest member.
LEMMA SmallestMember ==
  ASSUME NEW T, T \subseteq Nat, T # {}
  PROVE  \E x \in T : \A y \in T : x <= y
<1>1. IsWellFoundedOn(Lower, Nat)
  BY NatLessThanWellFounded DEF OpToRel, Lower
<1>2. PICK x \in T : \A y \in T : ~(<<y, x>> \in Lower)
  BY <1>1, WFMin
<1>3. \A y \in T : x <= y
  <2> SUFFICES ASSUME NEW y \in T PROVE x <= y
    OBVIOUS
  <2>1. x \in Nat /\ y \in Nat
    OBVIOUS
  <2>2. ~(y < x)
    BY <1>2, <2>1 DEF Lower
  <2> QED
    BY <2>1, <2>2
<1> QED
  BY <1>3

\* A set that has 0 and with every number the next one has all numbers.
LEMMA InductionOnSet ==
  ASSUME NEW S, 0 \in S, \A n \in Nat : n \in S => n + 1 \in S
  PROVE  Nat \subseteq S
<1> SUFFICES ASSUME Nat \ S # {} PROVE FALSE
  OBVIOUS
<1>1. PICK x \in Nat \ S : \A y \in Nat \ S : x <= y
  BY SmallestMember
<1>2. x - 1 \in Nat
  OBVIOUS
<1> QED
  BY <1>1, <1>2

=============================================================================
