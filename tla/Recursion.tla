------------------------------ MODULE Recursion ------------------------------
(***************************************************************************)
(* Induction over the numbers, stated with sets and functions in place of  *)
(* predicates, and the existence of functions that are defined             *)
(* recursively.  The proofs about what a recursive function of the models  *)
(* computes rest on these lemmas.                                          *)
(***************************************************************************)
EXTENDS Integers, WellFoundedInduction, TLAPS

(* A set of numbers that is not empty has a least element. *)
LEMMA Least ==
    ASSUME NEW T, T \subseteq Nat, T # {}
    PROVE  \E n \in T : \A m \in T : n <= m
<1> DEFINE R == OpToRel(<, Nat)
<1>1. IsWellFoundedOn(R, Nat)
  BY NatLessThanWellFounded
<1>2. \A m, n \in Nat : m < n => <<m, n>> \in R
  BY DEF OpToRel
<1> HIDE DEF R
<1>3. PICK n \in T : \A m \in T : <<m, n>> \notin R
  BY <1>1, WFMin
<1>4. ASSUME NEW m \in T PROVE n <= m
  <2>1. m \in Nat /\ n \in Nat /\ <<m, n>> \notin R
    BY <1>3
  <2>2. ~(m < n)
    BY <1>2, <2>1
  <2> QED
    BY <2>1, <2>2
<1> QED
  BY <1>4

(* A set that has 0, and the successor of each number it has, has them all. *)
LEMMA Induction ==
    ASSUME NEW T, 0 \in T, \A n \in Nat : n \in T => n+1 \in T
    PROVE  Nat \subseteq T
<1> SUFFICES ASSUME Nat \ T # {} PROVE FALSE
  OBVIOUS
<1>1. PICK n \in Nat \ T : \A m \in Nat \ T : n <= m
  BY Least
<1>2. n # 0 /\ n-1 \in Nat
  OBVIOUS
<1>3. n-1 \in T
  BY <1>1, <1>2
<1>4. (n-1) + 1 \in T
  BY <1>2, <1>3
<1> QED
  BY <1>4

(* The same up to a number. *)
LEMMA InductionUpTo ==
    ASSUME NEW N \in Nat, NEW T, 0 \in T, \A n \in 0..N-1 : n \in T => n+1 \in T
    PROVE  0..N \subseteq T
<1> DEFINE U == {n \in Nat : n \in T \/ n > N}
<1>1. 0 \in U
  OBVIOUS
<1>2. \A n \in Nat : n \in U => n+1 \in U
  OBVIOUS
<1> HIDE DEF U
<1>3. Nat \subseteq U
  BY <1>1, <1>2, Induction
<1> QED
  BY <1>3 DEF U

(* A function that begins with base and goes on by step, and that there is *)
(* one.                                                                    *)
Follows(f, N, base, step) ==
    f[0] = base /\ \A k \in 1..N : f[k] = step[<<f[k-1], k>>]

LEMMA RecursiveFunction ==
    ASSUME NEW N \in Nat, NEW S, NEW base \in S, NEW step \in [S \X (1..N) -> S]
    PROVE  \E f \in [0..N -> S] : Follows(f, N, base, step)
<1> DEFINE Begins(f, n) ==
               f[0] = base /\ \A k \in 1..n : f[k] = step[<<f[k-1], k>>]
           T == {n \in 0..N : \E f \in [0..n -> S] : Begins(f, n)}
<1>1. 0 \in T
  <2> DEFINE f == [k \in 0..0 |-> base]
  <2>1. f \in [0..0 -> S] /\ Begins(f, 0)
    OBVIOUS
  <2> HIDE DEF f, Begins
  <2> QED
    BY <2>1
<1>2. ASSUME NEW n \in 0..N-1, n \in T
      PROVE  n+1 \in T
  <2>1. PICK f \in [0..n -> S] : Begins(f, n)
    BY <1>2
  <2> DEFINE g == [k \in 0..n+1 |-> IF k <= n THEN f[k] ELSE step[<<f[n], n+1>>]]
  <2>2. f[n] \in S /\ n+1 \in 1..N
    OBVIOUS
  <2>3. step[<<f[n], n+1>>] \in S
    BY <2>2
  <2>4. g \in [0..n+1 -> S]
    BY <2>3
  <2>5. Begins(g, n+1)
    <3>1. g[0] = base
      BY <2>1
    <3>2. ASSUME NEW k \in 1..n+1 PROVE g[k] = step[<<g[k-1], k>>]
      <4>1. CASE k <= n
        BY <2>1, <4>1
      <4>2. CASE k = n+1
        BY <4>2
      <4> QED
        BY <4>1, <4>2
    <3> QED
      BY <3>1, <3>2
  <2> HIDE DEF g, Begins
  <2> QED
    BY <2>4, <2>5
<1>3. 0..N \subseteq T
  <2> HIDE DEF T
  <2> QED
    BY <1>1, <1>2, InductionUpTo
<1> QED
  BY <1>3 DEF Follows
=============================================================================
