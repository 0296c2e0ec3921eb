---------------------------- MODULE Induction ----------------------------
(***************************************************************************)
(* Induction on the natural numbers and the recursion that it justifies,   *)
(* without an operator as a parameter: sets stand for properties.  It      *)
(* rests on the library's theorem that < is well-founded on Nat, and is    *)
(* what the proofs about the loops of the code (a scan of the arguments, a *)
(* pass over the runs, a stitch of lines) need to reach any length.        *)
(***************************************************************************)
EXTENDS Integers, WellFoundedInduction, TLAPS

(* Numbers, if there are any, have a least one among them. *)
LEMMA Least ==
  ASSUME NEW S, S \subseteq Nat, S # {}
  PROVE  \E n \in S : \A k \in S : n <= k
<1> DEFINE R == {pair \in Nat \X Nat : pair[1] < pair[2]}
<1>1. IsWellFoundedOn(R, Nat)
  BY NatLessThanWellFounded DEF OpToRel
<1> HIDE DEF R
<1>2. PICK x \in S : \A y \in S : ~(<<y, x>> \in R)
  BY <1>1, WFMin
<1>3. \A m, n \in Nat : m < n => <<m, n>> \in R
  BY DEF R
<1>4. ASSUME NEW y \in S PROVE x <= y
  <2>1. x \in Nat /\ y \in Nat
    OBVIOUS
  <2>2. ~(y < x)
    BY <1>2, <1>3, <2>1, Zenon
  <2> QED BY <2>1, <2>2
<1> QED BY <1>4

(* What holds of 0 and passes from each number below m to the next holds   *)
(* up to m.                                                                *)
LEMMA Inductive ==
  ASSUME NEW S, 0 \in S, NEW m \in Nat,
         \A n \in Nat : n < m /\ n \in S => n + 1 \in S
  PROVE  \A n \in 0..m : n \in S
<1> DEFINE T == {n \in 0..m : n \notin S}
<1> SUFFICES ASSUME T # {} PROVE FALSE
  OBVIOUS
<1>1. T \subseteq Nat
  OBVIOUS
<1>2. PICK n \in T : \A k \in T : n <= k
  <2> HIDE DEF T
  <2> QED BY <1>1, Least
<1>3. n # 0 /\ n \in 1..m
  OBVIOUS
<1>4. n - 1 \notin T
  BY <1>2, <1>3
<1>5. n - 1 \in S /\ n - 1 \in Nat /\ n - 1 < m
  BY <1>3, <1>4
<1>6. n \in S
  BY <1>3, <1>5
<1> QED BY <1>6

(* f holds what a loop computes, after each of its m iterations: it starts *)
(* with base, and the n-th iteration makes step[n][v] of the value v.      *)
Computes(f, m, V, base, step) ==
  /\ f \in [0..m -> V]
  /\ f[0] = base
  /\ \A n \in 1..m : f[n] = step[n][f[n - 1]]

(* Every loop computes something. *)
LEMMA Recursion ==
  ASSUME NEW m \in Nat, NEW V, NEW base \in V, NEW step \in [1..m -> [V -> V]]
  PROVE  \E f : Computes(f, m, V, base, step)
<1> DEFINE Upto(k) == \E f : Computes(f, k, V, base, step)
           S == {k \in 0..m : Upto(k)}
<1>1. 0 \in S
  <2> DEFINE g == [n \in 0..0 |-> base]
  <2>1. Computes(g, 0, V, base, step)
    BY DEF Computes
  <2> HIDE DEF g
  <2>2. Upto(0)
    BY <2>1
  <2> QED BY <2>2
<1>2. ASSUME NEW k \in Nat, k < m, k \in S PROVE k + 1 \in S
  <2>1. PICK f : Computes(f, k, V, base, step)
    BY <1>2
  <2>2. f \in [0..k -> V] /\ f[0] = base /\ \A n \in 1..k : f[n] = step[n][f[n - 1]]
    BY <2>1 DEF Computes
  <2> DEFINE g == [n \in 0..k + 1 |-> IF n = k + 1 THEN step[n][f[n - 1]] ELSE f[n]]
  <2>3. step[k + 1][f[k]] \in V
    BY <1>2, <2>2
  <2>4. g \in [0..k + 1 -> V]
    BY <2>2, <2>3
  <2>5. g[0] = base /\ \A n \in 1..k + 1 : g[n] = step[n][g[n - 1]]
    BY <2>2
  <2> HIDE DEF g
  <2>6. Computes(g, k + 1, V, base, step)
    BY <2>4, <2>5 DEF Computes
  <2> QED BY <2>6, <1>2
<1>3. m \in S
  <2>1. \A k \in Nat : k < m /\ k \in S => k + 1 \in S
    BY <1>2
  <2> HIDE DEF S
  <2>2. \A n \in 0..m : n \in S
    BY <1>1, <2>1, Inductive
  <2> QED BY <2>2
<1> QED BY <1>3

(* What holds before the first iteration and is kept by each holds after   *)
(* every one of them.                                                      *)
LEMMA Kept ==
  ASSUME NEW m \in Nat, NEW V, NEW f, f[0] \in V,
         \A n \in 1..m : f[n - 1] \in V => f[n] \in V
  PROVE  \A n \in 0..m : f[n] \in V
<1> DEFINE S == {n \in Nat : n <= m => f[n] \in V}
<1>1. 0 \in S
  OBVIOUS
<1>2. ASSUME NEW n \in Nat, n < m, n \in S PROVE n + 1 \in S
  <2>1. f[(n + 1) - 1] \in V /\ n + 1 \in 1..m /\ (n + 1) - 1 = n
    BY <1>2
  <2>2. f[n + 1] \in V
    BY <2>1
  <2> QED BY <2>2
<1>3. \A n \in Nat : n < m /\ n \in S => n + 1 \in S
  BY <1>2
<1>4. \A n \in 0..m : n \in S
  <2> HIDE DEF S
  <2> QED BY <1>1, <1>3, Inductive
<1> QED BY <1>4

(* Two loops that start alike and go on alike compute the same.            *)
LEMMA Together ==
  ASSUME NEW m \in Nat, NEW f, NEW g, f[0] = g[0],
         \A n \in 1..m : f[n - 1] = g[n - 1] => f[n] = g[n]
  PROVE  \A n \in 0..m : f[n] = g[n]
<1> DEFINE S == {n \in Nat : n <= m => f[n] = g[n]}
<1>1. 0 \in S
  OBVIOUS
<1>2. ASSUME NEW n \in Nat, n < m, n \in S PROVE n + 1 \in S
  <2>1. f[(n + 1) - 1] = g[(n + 1) - 1] /\ n + 1 \in 1..m
    BY <1>2
  <2>2. f[n + 1] = g[n + 1]
    BY <2>1
  <2> QED BY <2>2
<1>3. \A n \in Nat : n < m /\ n \in S => n + 1 \in S
  BY <1>2
<1>4. \A n \in 0..m : n \in S
  <2> HIDE DEF S
  <2> QED BY <1>1, <1>3, Inductive
<1> QED BY <1>4

(* Of finitely many positions one is the last. *)
LEMMA Latest ==
  ASSUME NEW n \in Nat, NEW S, S \subseteq 1..n, S # {}
  PROVE  \E i \in S : \A j \in S : i >= j
<1> DEFINE R == {n - i : i \in S}
<1>0. \A i \in S : n - i \in Nat
  OBVIOUS
<1>1. R \subseteq Nat /\ R # {}
  BY <1>0, Zenon
<1>2. PICK r \in R : \A q \in R : r <= q
  <2> HIDE DEF R
  <2> QED BY <1>1, Least
<1>3. PICK i \in S : r = n - i
  OBVIOUS
<1>4. ASSUME NEW j \in S PROVE i >= j
  <2>1. n - j \in R
    OBVIOUS
  <2>2. n - i <= n - j
    BY <1>2, <1>3, <2>1
  <2> QED BY <2>2
<1> QED BY <1>4
==========================================================================
