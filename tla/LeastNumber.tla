---------------------------- MODULE LeastNumber ----------------------------
(***************************************************************************)
(* The least element of a set of numbers: how the proofs argue by          *)
(* induction.  If a fact about numbers were false there would be a least   *)
(* number for which it is.                                                 *)
(***************************************************************************)
EXTENDS Integers, FiniteSetTheorems, WellFoundedInduction, TLAPS

\* A set of numbers has a least one: the sets 1 .. n with n in T, ordered by
\* inclusion, have a minimal one.
LEMMA LeastNat ==
  ASSUME NEW T \in SUBSET Nat, T # {}
  PROVE  \E n \in T : \A m \in T : n <= m
<1> DEFINE R == StrictSubsetOrdering(Nat)
           Below(n) == 1 .. n
           B == {Below(n) : n \in T}
<1>1. IsWellFoundedOn(R, FiniteSubsetsOf(Nat))
  BY FS_StrictSubsetOrderingWellFounded
<1>2. B \subseteq FiniteSubsetsOf(Nat)
  <2> SUFFICES ASSUME NEW n \in T PROVE Below(n) \in FiniteSubsetsOf(Nat)
    OBVIOUS
  <2>1. IsFiniteSet(Below(n))
    BY FS_Interval
  <2> QED BY <2>1 DEF FiniteSubsetsOf
<1>3. B # {}
  OBVIOUS
<1>4. PICK b \in B : \A d \in B : ~(<<d, b>> \in R)
  <2> HIDE DEF R, B
  <2> QED BY <1>1, <1>2, <1>3, WFMin
<1>5. PICK n \in T : b = Below(n)
  OBVIOUS
<1>6. \A m \in T : n <= m
  <2> SUFFICES ASSUME NEW m \in T, m < n PROVE FALSE
    OBVIOUS
  <2>1. Below(m) \subseteq Below(n) /\ n \in Below(n) /\ n \notin Below(m)
    OBVIOUS
  <2>2. <<Below(m), Below(n)>> \in R
    <3>1. Below(m) \in SUBSET Nat /\ Below(n) \in SUBSET Nat
      OBVIOUS
    <3> HIDE DEF Below
    <3> QED BY <2>1, <3>1 DEF StrictSubsetOrdering
  <2> QED BY <1>4, <1>5, <2>2
<1> QED BY <1>6
=============================================================================
