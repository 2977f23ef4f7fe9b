--------------------------- MODULE Recursion_proofs ---------------------------
(***************************************************************************)
(* What the proofs about recursive functions rest on: the least element of *)
(* a set of naturals, a property that is handed along a range, and the     *)
(* existence of a function that is defined along one.  The steps of a      *)
(* recursion are given as a function, since no prover here takes a theorem *)
(* with an operator for a parameter.                                       *)
(***************************************************************************)
EXTENDS Integers, WellFoundedInduction, NaturalsInduction, TLAPS

(* A set of naturals that is not empty has a least element. *)
LEMMA SmallestN ==
    ASSUME NEW S, S \subseteq Nat, S # {}
    PROVE  \E n \in S : \A m \in S : n <= m
<1>1. PICK n \in S : \A m \in S : <<m, n>> \notin OpToRel(<, Nat)
    BY NatLessThanWellFounded, WFMin
<1>2. \A m \in S : ~(m < n)
    BY <1>1 DEF OpToRel
<1> QED
    BY <1>2

(* What the first of a range has, and each hands to the next, they all have. *)
LEMMA AlongRange ==
    ASSUME NEW S, NEW f, NEW a \in Nat, NEW n \in Int, a <= n => f[a] \in S,
           \A i \in a..n : i # a /\ f[i - 1] \in S => f[i] \in S
    PROVE  \A i \in a..n : f[i] \in S
<1> DEFINE Bad == {i \in a..n : f[i] \notin S}
<1> SUFFICES ASSUME Bad # {} PROVE FALSE
    OBVIOUS
<1>1. Bad \subseteq Nat
    OBVIOUS
<1>2. PICK i \in Bad : \A m \in Bad : i <= m
    BY <1>1, SmallestN
<1>3. i \in a..n /\ f[i] \notin S
    OBVIOUS
<1>4. i # a
    BY <1>3
<1>5. i - 1 \in a..n /\ ~(i <= i - 1)
    BY <1>3, <1>4
<1>6. f[i - 1] \in S
    BY <1>2, <1>5
<1> QED
    BY <1>3, <1>4, <1>6

(* A function that is defined from a range's first element onwards, each    *)
(* value from the one before, exists.                                       *)
Recursion(S, b, a, G, n) ==
    \E g \in [a..n -> S] : \A i \in a..n : g[i] = IF i = a THEN b ELSE G[<<i, g[i - 1]>>]
LEMMA RecursionExists ==
    ASSUME NEW S, NEW b \in S, NEW a \in Nat, NEW G \in [Nat \X S -> S], NEW n \in Nat, a <= n
    PROVE  Recursion(S, b, a, G, n)
<1> DEFINE Fits(g, m) == \A i \in a..m : g[i] = IF i = a THEN b ELSE G[<<i, g[i - 1]>>]
           Bad == {m \in Nat : a <= m /\ ~ \E g \in [a..m -> S] : Fits(g, m)}
<1> SUFFICES ASSUME Bad # {} PROVE FALSE
    BY DEF Recursion
<1>1. PICK m \in Bad : \A k \in Bad : m <= k
    <2> HIDE DEF Fits
    <2> QED
        BY SmallestN
<1>2. m # a
    <2> SUFFICES ASSUME m = a PROVE FALSE
        OBVIOUS
    <2> DEFINE g == [i \in a..m |-> b]
    <2>1. g \in [a..m -> S] /\ Fits(g, m)
        OBVIOUS
    <2> QED
        BY <2>1
<1>3. m - 1 \in Nat /\ a <= m - 1 /\ m \in Nat /\ ~(m <= m - 1)
    BY <1>2
<1>4. PICK g \in [a..(m - 1) -> S] : Fits(g, m - 1)
    <2> HIDE DEF Fits
    <2> QED
        BY <1>1, <1>3
<1> DEFINE h == [i \in a..m |-> IF i = m THEN G[<<m, g[m - 1]>>] ELSE g[i]]
<1>5. g[m - 1] \in S /\ G[<<m, g[m - 1]>>] \in S
    BY <1>3, <1>4
<1>6. h \in [a..m -> S]
    BY <1>3, <1>4, <1>5
<1>7. ASSUME NEW i \in a..m
      PROVE  h[i] = IF i = a THEN b ELSE G[<<i, h[i - 1]>>]
    <2>1. CASE i = m
        <3>1. h[i] = G[<<m, g[m - 1]>>] /\ h[i - 1] = g[m - 1] /\ i # a
            BY <1>2, <1>3, <2>1
        <3> QED
            BY <2>1, <3>1
    <2>2. CASE i # m
        <3>1. i \in a..(m - 1) /\ h[i] = g[i] /\ (i # a => i - 1 \in a..(m - 1) /\ h[i - 1] = g[i - 1])
            BY <1>3, <2>2
        <3>2. g[i] = IF i = a THEN b ELSE G[<<i, g[i - 1]>>]
            BY <1>4, <3>1
        <3> QED
            BY <3>1, <3>2
    <2> QED
        BY <2>1, <2>2
<1>8. Fits(h, m)
    BY <1>7
<1> QED
    <2> HIDE DEF Fits, h
    <2> QED
        BY <1>6, <1>8
=============================================================================
