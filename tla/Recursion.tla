------------------------------ MODULE Recursion -------------------------------
(* Induction and recursion over an interval, for definitions of the form   *)
(* f[n \in 0 .. N] == IF n = 0 THEN ... ELSE ... f[n - 1] ...: the sets      *)
(* take the place of the predicates and operators that the theorems of     *)
(* NaturalsInduction are about.                                            *)
EXTENDS Integers, Sequences, WellFoundedInduction, TLAPS

(* A set of naturals has a least element.                                  *)
LEMMA LeastElement ==
    ASSUME NEW S, S \subseteq Nat, S # {}
    PROVE  \E m \in S : \A k \in S : m <= k
<1>1. PICK m \in S : \A k \in S : <<k, m>> \notin OpToRel(<, Nat)
  BY WFMin, NatLessThanWellFounded, Zenon
<1>2. \A k \in S : ~(k < m)
  BY <1>1 DEF OpToRel
<1> QED BY <1>2

(* Induction up to N.                                                      *)
LEMMA Induction ==
    ASSUME NEW N \in Nat, NEW S, 0 \in S, \A n \in 1 .. N : n - 1 \in S => n \in S
    PROVE  0 .. N \subseteq S
<1> DEFINE T == {n \in 0 .. N : n \notin S}
<1> SUFFICES ASSUME T # {} PROVE FALSE
  OBVIOUS
<1>1. PICK m \in T : \A k \in T : m <= k
  <2>1. T \subseteq Nat
    OBVIOUS
  <2> HIDE DEF T
  <2> QED BY <2>1, LeastElement
<1>2. m \in 1 .. N /\ m \notin S
  OBVIOUS
<1>3. m - 1 \in S
  BY <1>1, <1>2
<1> QED BY <1>2, <1>3

(* There is a function on 0 .. N that a first value and a step define.     *)
Defined(N, T, base, step) ==
    \E f \in [0 .. N -> T] : /\ f[0] = base
                              /\ \A n \in 1 .. N : f[n] = step[<<n, f[n - 1]>>]

LEMMA Recursive ==
    ASSUME NEW N \in Nat, NEW T, NEW base \in T, NEW step \in [(1 .. N) \X T -> T]
    PROVE  Defined(N, T, base, step)
<1> DEFINE Upto(m) == \E f \in [0 .. m -> T] :
                         /\ f[0] = base
                         /\ \A n \in 1 .. m : f[n] = step[<<n, f[n - 1]>>]
           S == {m \in 0 .. N : Upto(m)}
<1>1. 0 \in S
  <2> DEFINE g == [n \in 0 .. 0 |-> base]
  <2>1. g \in [0 .. 0 -> T] /\ g[0] = base
    OBVIOUS
  <2>2. \A n \in 1 .. 0 : g[n] = step[<<n, g[n - 1]>>]
    OBVIOUS
  <2> HIDE DEF g
  <2> QED BY <2>1, <2>2
<1>2. ASSUME NEW m \in 1 .. N, m - 1 \in S PROVE m \in S
  <2>1. PICK f \in [0 .. m - 1 -> T] : /\ f[0] = base
                                       /\ \A n \in 1 .. m - 1 : f[n] = step[<<n, f[n - 1]>>]
    BY <1>2
  <2> DEFINE g == [n \in 0 .. m |-> IF n = m THEN step[<<m, f[m - 1]>>] ELSE f[n]]
  <2>2. f[m - 1] \in T
    BY <2>1
  <2>3. step[<<m, f[m - 1]>>] \in T
    BY <2>2
  <2>4. g \in [0 .. m -> T]
    BY <2>3
  <2>5. g[0] = base
    BY <2>1
  <2>6. ASSUME NEW n \in 1 .. m PROVE g[n] = step[<<n, g[n - 1]>>]
    <3>1. g[n - 1] = f[n - 1] /\ n \in 0 .. m
      OBVIOUS
    <3>2. CASE n = m
      BY <3>1, <3>2
    <3>3. CASE n # m
      <4>1. n \in 1 .. m - 1
        BY <3>3
      <4>2. g[n] = f[n]
        BY <3>1, <3>3
      <4> QED BY <2>1, <3>1, <4>1, <4>2
    <3> QED BY <3>2, <3>3
  <2> HIDE DEF g
  <2> QED BY <2>4, <2>5, <2>6
<1>3. 0 .. N \subseteq S
  <2> HIDE DEF S
  <2> QED BY <1>1, <1>2, Induction
<1> QED BY <1>3 DEF Defined
=============================================================================
