------------------------- MODULE PositionLife_proofs -------------------------
(***************************************************************************)
(* The safety of one position, for every setting of the rules, every       *)
(* market and every launch: what it may cost on the way in, and how deep   *)
(* it may fall before it is no longer open.                                *)
(***************************************************************************)
EXTENDS PositionLife, Recursion_proofs, FiniteSetTheorems, SequenceTheorems, TLAPS

(* Powers are what they should be. *)
LEMMA PowerFunction ==
    ASSUME NEW b \in Nat \ {0}, NEW n \in Nat
    PROVE  \E p \in [0..n -> Nat \ {0}] :
               /\ p[0] = 1 /\ \A k \in 1..n : p[k] = b * p[k - 1]
               /\ Power(b, n) = p[n]
<1> DEFINE S == Nat \ {0}
           G == [z \in Nat \X S |-> b * z[2]]
           Step(g, k) == IF k = 0 THEN 1 ELSE b * g[k - 1]
           power == CHOOSE g : g = [k \in 0..n |-> Step(g, k)]
<1>1. G \in [Nat \X S -> S] /\ 1 \in S
    <2>1. \A v \in S : b * v \in S
        BY SMTT(30)
    <2> QED
        BY <2>1
<1>2. PICK g \in [0..n -> S] : \A k \in 0..n : g[k] = IF k = 0 THEN 1 ELSE G[<<k, g[k - 1]>>]
    <2>1. 0 \in Nat /\ 0 <= n
        OBVIOUS
    <2> HIDE DEF G, S
    <2>2. Recursion(S, 1, 0, G, n)
        BY <1>1, <2>1, RecursionExists
    <2> QED
        BY <2>2 DEF Recursion
<1>3. g = [k \in 0..n |-> Step(g, k)]
    <2>1. ASSUME NEW k \in 0..n PROVE g[k] = Step(g, k)
        <3>1. CASE k = 0
            BY <1>2, <3>1
        <3>2. CASE k # 0
            <4>1. k - 1 \in 0..n /\ k \in Nat
                BY <3>2
            <4>2. <<k, g[k - 1]>> \in Nat \X S /\ g[k] = G[<<k, g[k - 1]>>]
                BY <1>2, <3>2, <4>1
            <4> QED
                BY <3>2, <4>2
        <3> QED
            BY <3>1, <3>2
    <2> HIDE DEF Step
    <2> QED
        BY <1>2, <2>1
<1>4. power = [k \in 0..n |-> Step(power, k)]
    <2> HIDE DEF Step
    <2> QED
        BY <1>3
<1>5. Power(b, n) = power[n]
    BY DEF Power
<1> HIDE DEF power
<1>6. power[0] = 1 /\ \A k \in 1..n : power[k] = b * power[k - 1]
    <2>1. \A k \in 0..n : power[k] = Step(power, k)
        <3> HIDE DEF Step
        <3> QED
            BY <1>4
    <2> QED
        BY <2>1
<1>7. \A k \in 0..n : power[k] \in S
    <2>1. \A k \in 0..n : k # 0 /\ power[k - 1] \in S => power[k] \in S
        <3> SUFFICES ASSUME NEW k \in 1..n, power[k - 1] \in S PROVE b * power[k - 1] \in S
            BY <1>6
        <3> QED
            BY SMTT(30)
    <2>2. power[0] \in S /\ 0 \in Nat /\ n \in Int
        BY <1>6
    <2> HIDE DEF S
    <2> QED
        BY <2>1, <2>2, AlongRange, Zenon
<1>8. power \in [0..n -> S]
    BY <1>4, <1>7
<1> QED
    BY <1>5, <1>6, <1>8

(* A power of a positive number is one. *)
LEMMA PowerType ==
    ASSUME NEW b \in Nat \ {0}, NEW n \in Nat
    PROVE  Power(b, n) \in Nat \ {0}
<1>1. PICK p \in [0..n -> Nat \ {0}] : Power(b, n) = p[n]
    BY PowerFunction
<1> QED
    BY <1>1

(* One factor more. *)
LEMMA PowerGrows ==
    ASSUME NEW b \in Nat \ {0}
    PROVE  /\ Power(b, 0) = 1
           /\ \A n \in Nat \ {0} : Power(b, n) = b * Power(b, n - 1)
<1>1. Power(b, 0) = 1
    <2>1. PICK p \in [0..0 -> Nat \ {0}] : p[0] = 1 /\ Power(b, 0) = p[0]
        <3>1. 0 \in Nat
            OBVIOUS
        <3> QED
            BY <3>1, PowerFunction, Zenon
    <2> QED
        BY <2>1
<1>2. ASSUME NEW n \in Nat \ {0} PROVE Power(b, n) = b * Power(b, n - 1)
    <2> DEFINE m == n - 1
    <2>1. m \in Nat /\ n \in Nat /\ n - 1 = m /\ n \in 1..n /\ \A k \in 0..m : k \in 0..n /\ (k # 0 => k \in 1..m /\ k \in 1..n)
        OBVIOUS
    <2> HIDE DEF m
    <2>2. PICK p \in [0..m -> Nat \ {0}] :
              /\ p[0] = 1 /\ \A k \in 1..m : p[k] = b * p[k - 1]
              /\ Power(b, m) = p[m]
        BY <2>1, PowerFunction
    <2>3. PICK q \in [0..n -> Nat \ {0}] :
              /\ q[0] = 1 /\ \A k \in 1..n : q[k] = b * q[k - 1]
              /\ Power(b, n) = q[n]
        BY <2>1, PowerFunction
    <2> DEFINE same == [k \in 0..m |-> IF p[k] = q[k] THEN 1 ELSE 0]
    <2>4. \A k \in 0..m : same[k] \in {1}
        <3>1. \A k \in 0..m : k # 0 /\ same[k - 1] \in {1} => same[k] \in {1}
            <4> SUFFICES ASSUME NEW k \in 0..m, k # 0, p[k - 1] = q[k - 1] PROVE p[k] = q[k]
                BY <2>1
            <4> QED
                BY <2>1, <2>2, <2>3
        <3>2. same[0] \in {1} /\ 0 \in Nat /\ m \in Int
            BY <2>1, <2>2, <2>3
        <3> HIDE DEF same
        <3> QED
            BY <3>1, <3>2, AlongRange, Zenon
    <2>5. p[m] = q[m]
        BY <2>1, <2>4
    <2>6. q[n] = b * q[m]
        BY <2>1, <2>3
    <2> QED
        BY <2>1, <2>2, <2>3, <2>5, <2>6
<1> QED
    BY <1>1, <1>2

-----------------------------------------------------------------------------
(* The averages *)

(* Products, which the prover is slow to look for by itself. *)
LEMMA ProductOfNaturals ==
    ASSUME NEW x \in Nat, NEW y \in Nat
    PROVE  x * y \in Nat
BY SMTT(30)

LEMMA ProductsAreOrdered ==
    ASSUME NEW k \in Nat, NEW x \in Int, NEW y \in Int, x <= y
    PROVE  k * x \in Int /\ k * y \in Int /\ k * x <= k * y
BY SMTT(30)

(* The average of a window is the last value of its recursion. *)
Average(e, s, n) ==
    /\ e \in [1..Len(s) -> Nat] /\ Ema(s, n) = e[Len(s)]
    /\ \A i \in 1..Len(s) :
           e[i] = IF i = 1 THEN s[1] ELSE 2 * s[i] * Power(n + 1, i - 2) + (n - 1) * e[i - 1]

(* calculateEMA is defined for every window. *)
LEMMA AverageExists ==
    ASSUME NEW s \in Seq(Nat), s # << >>, NEW n \in Nat \ {0}
    PROVE  \E e : Average(e, s, n)
<1> DEFINE L == Len(s)
           Body(i, v) == 2 * s[i] * Power(n + 1, i - 2) + (n - 1) * v
           Step(g, i) == IF i = 1 THEN s[1] ELSE 2 * s[i] * Power(n + 1, i - 2) + (n - 1) * g[i - 1]
           G == [z \in Nat \X Nat |-> IF z[1] \in 2..L THEN Body(z[1], z[2]) ELSE 0]
           ema == CHOOSE g : g = [i \in 1..L |-> Step(g, i)]
<1>1. L \in Nat \ {0} /\ \A i \in 1..L : s[i] \in Nat
    BY EmptySeq
<1>2. ASSUME NEW i \in 2..L, NEW v \in Nat PROVE Body(i, v) \in Nat
    <2> DEFINE w == Power(n + 1, i - 2)
    <2>1. n + 1 \in Nat \ {0} /\ i - 2 \in Nat /\ 2 * s[i] \in Nat /\ n - 1 \in Nat
        BY <1>1
    <2>2. w \in Nat
        BY <2>1, PowerType
    <2> HIDE DEF w
    <2>3. (2 * s[i]) * w \in Nat /\ (n - 1) * v \in Nat
        BY <2>1, <2>2, ProductOfNaturals
    <2>4. 2 * s[i] * w + (n - 1) * v \in Nat
        BY <2>3
    <2> QED
        BY <2>4 DEF w
<1>3. G \in [Nat \X Nat -> Nat]
    <2> HIDE DEF Body
    <2> QED
        BY <1>2
<1>4. s[1] \in Nat /\ 1 \in Nat /\ L \in Nat /\ 1 <= L
    BY <1>1
<1>5. Recursion(Nat, s[1], 1, G, L)
    <2> HIDE DEF G, L
    <2> QED
        BY <1>3, <1>4, RecursionExists
<1>6. PICK g \in [1..L -> Nat] : \A i \in 1..L : g[i] = IF i = 1 THEN s[1] ELSE G[<<i, g[i - 1]>>]
    <2> HIDE DEF G, L
    <2> QED
        BY <1>5 DEF Recursion
<1>7. g = [i \in 1..L |-> Step(g, i)]
    <2>1. ASSUME NEW i \in 1..L PROVE g[i] = Step(g, i)
        <3>1. CASE i = 1
            BY <1>6, <3>1
        <3>2. CASE i # 1
            <4>1. i - 1 \in 1..L /\ i \in 2..L /\ i \in Nat
                BY <1>1, <3>2
            <4>2. g[i - 1] \in Nat /\ g[i] = G[<<i, g[i - 1]>>]
                BY <1>6, <3>2, <4>1
            <4>3. G[<<i, g[i - 1]>>] = Body(i, g[i - 1])
                <5> HIDE DEF Body
                <5> QED
                    BY <4>1, <4>2
            <4> QED
                BY <3>2, <4>2, <4>3, Zenon
        <3> QED
            BY <3>1, <3>2
    <2> HIDE DEF Step
    <2> QED
        BY <1>6, <2>1
<1>8. ema = [i \in 1..L |-> Step(ema, i)]
    <2> HIDE DEF Step
    <2> QED
        BY <1>7
<1>9. Ema(s, n) = ema[L]
    BY DEF Ema
<1> HIDE DEF ema
<1>10. \A i \in 1..L : ema[i] = Step(ema, i)
    <2> HIDE DEF Step, L
    <2> QED
        BY <1>8
<1>11. \A i \in 1..L : ema[i] \in Nat
    <2>1. ASSUME NEW i \in 1..L, i # 1, ema[i - 1] \in Nat PROVE ema[i] \in Nat
        <3>1. i \in 2..L
            BY <1>1, <2>1
        <3>2. ema[i] = Body(i, ema[i - 1])
            BY <1>10, <2>1, Zenon
        <3> HIDE DEF Body
        <3> QED
            BY <1>2, <2>1, <3>1, <3>2
    <2>2. ema[1] \in Nat
        <3>1. 1 \in 1..L /\ Step(ema, 1) = s[1]
            BY <1>1
        <3> HIDE DEF Step
        <3> QED
            BY <1>4, <1>10, <3>1
    <2>3. L \in Int
        BY <1>1
    <2> HIDE DEF L
    <2> QED
        BY <1>4, <2>1, <2>2, <2>3, AlongRange, Zenon
<1>12. ema \in [1..L -> Nat]
    <2> HIDE DEF Step, L
    <2> QED
        BY <1>8, <1>11
<1> QED
    BY <1>9, <1>10, <1>12, Zenon DEF Average

(* One price more, not below the last one: the faster average e stays at    *)
(* most the price and at least the slower one, d.  The averages are scaled  *)
(* by powers u and w of p and q, one more than their periods.               *)
LEMMA RisingStep ==
    ASSUME NEW p \in Nat, NEW q \in Nat, 2 <= p, p <= q,
           NEW u \in Nat, NEW w \in Nat, NEW x \in Nat, NEW y \in Nat, x <= y,
           NEW e \in Nat, NEW d \in Nat, e <= x * u, d * u <= e * w
    PROVE  /\ 2 * y * u + (p - 2) * e <= y * (p * u)
           /\ (2 * y * w + (q - 2) * d) * (p * u) <= (2 * y * u + (p - 2) * e) * (q * w)
<1> DEFINE top == y * u
           all == y * u * w
           fast == e * w
           slow == d * u
<1>1. top \in Nat /\ all \in Nat /\ fast \in Nat /\ slow \in Nat /\ slow <= fast /\ all = w * top
    <2>1. y * u \in Nat /\ e * w \in Nat /\ d * u \in Nat
        BY ProductOfNaturals
    <2>2. (y * u) * w \in Nat /\ (y * u) * w = w * (y * u)
        BY <2>1, ProductOfNaturals, SMTT(30)
    <2> QED
        BY <2>1, <2>2
<1>2. e <= top
    <2>1. u * x \in Int /\ u * y \in Int /\ u * x <= u * y
        BY ProductsAreOrdered
    <2>2. u * x = x * u /\ u * y = y * u
        BY SMTT(30)
    <2>3. x * u \in Int /\ x * u <= y * u /\ y * u \in Int
        BY <2>1, <2>2, Zenon
    <2> QED
        BY <2>3
<1>3. fast <= all
    <2>1. w * e <= w * top /\ w * e = e * w
        BY <1>1, <1>2, ProductsAreOrdered, SMTT(30)
    <2> QED
        BY <1>1, <2>1
<1>4. 2 * y * u + (p - 2) * e <= y * (p * u)
    <2>1. (p - 2) * e \in Int /\ (p - 2) * top \in Int /\ (p - 2) * e <= (p - 2) * top
        <3>1. p - 2 \in Nat
            OBVIOUS
        <3> HIDE DEF top
        <3> QED
            BY <1>1, <1>2, <3>1, ProductsAreOrdered
    <2>2. 2 * y * u + (p - 2) * (y * u) = y * (p * u)
        BY SMTT(30)
    <2>3. 2 * y * u \in Int
        BY SMTT(30)
    <2> QED
        BY <2>1, <2>2, <2>3
<1>5. (2 * y * w + (q - 2) * d) * (p * u) = 2 * p * all + p * (q - 2) * slow
    BY SMTT(30)
<1>6. (2 * y * u + (p - 2) * e) * (q * w) = 2 * q * all + q * (p - 2) * fast
    BY SMTT(30)
<1>7. p * (q - 2) * slow <= p * (q - 2) * fast
    <2> DEFINE k == p * (q - 2)
    <2>1. k \in Nat
        BY ProductOfNaturals
    <2> HIDE DEF k, slow, fast
    <2>2. k * slow <= k * fast
        BY <1>1, <2>1, ProductsAreOrdered
    <2> QED
        BY <2>2 DEF k
<1>8. 2 * p * all + p * (q - 2) * fast <= 2 * q * all + q * (p - 2) * fast
    <2> HIDE DEF all, fast
    <2>1. (q - p) * fast <= (q - p) * all /\ (q - p) * fast \in Int /\ (q - p) * all \in Int
        BY <1>1, <1>3, ProductsAreOrdered
    <2>2. (2 * q * all + q * (p - 2) * fast) - (2 * p * all + p * (q - 2) * fast)
              = 2 * ((q - p) * all - (q - p) * fast)
        BY <1>1, SMTT(30)
    <2>3. 2 * q * all + q * (p - 2) * fast \in Int /\ 2 * p * all + p * (q - 2) * fast \in Int
        BY <1>1
    <2> DEFINE a == 2 * q * all + q * (p - 2) * fast
               b == 2 * p * all + p * (q - 2) * fast
               f == (q - p) * fast
               g == (q - p) * all
    <2>4. f <= g /\ f \in Int /\ g \in Int /\ a \in Int /\ b \in Int /\ a - b = 2 * (g - f)
        BY <2>1, <2>2, <2>3
    <2> HIDE DEF a, b, f, g
    <2>5. b <= a
        BY <2>4
    <2> QED
        BY <2>5 DEF a, b
<1> DEFINE left == 2 * p * all + p * (q - 2) * slow
           middle == 2 * p * all + p * (q - 2) * fast
           right == 2 * q * all + q * (p - 2) * fast
<1>9. left <= middle /\ middle <= right /\ left \in Int /\ middle \in Int /\ right \in Int
    <2>1. 2 * p * all \in Int /\ p * (q - 2) * slow \in Int /\ p * (q - 2) * fast \in Int /\ right \in Int
        BY <1>1
    <2> QED
        BY <1>7, <1>8, <2>1
<1>10. left <= right
    <2> HIDE DEF left, middle, right
    <2> QED
        BY <1>9
<1> QED
    BY <1>4, <1>5, <1>6, <1>10

(* In a window whose prices never fall the faster average is not below the  *)
(* slower one: such a market is never bearish.                              *)
LEMMA RisingIsNotBearish ==
    ASSUME Fast <= Slow, NEW s \in Seq(Nat), Bearish(s)
    PROVE  Falls(s)
<1> SUFFICES ASSUME ~Falls(s) PROVE FALSE
    OBVIOUS
<1> DEFINE L == Len(s)
<1>1. Fast \in Nat \ {0} /\ Slow \in Nat \ {0} /\ Fast + 1 \in Nat \ {0} /\ Slow + 1 \in Nat \ {0}
    BY TrendAssumption
<1>2. s # << >> /\ L \in Nat \ {0} /\ 1 \in 1..L /\ \A i \in 1..L : s[i] \in Nat
    <2>1. L \in Nat /\ L >= Slow + 2
        BY DEF Bearish
    <2> QED
        BY <1>1, <2>1, EmptySeq
<1>3. PICK e : Average(e, s, Fast)
    BY <1>1, <1>2, AverageExists
<1>4. PICK d : Average(d, s, Slow)
    BY <1>1, <1>2, AverageExists
<1> DEFINE Kept(i) ==
               /\ e[i] <= s[i] * Power(Fast + 1, i - 1)
               /\ d[i] * Power(Fast + 1, i - 1) <= e[i] * Power(Slow + 1, i - 1)
           kept == [i \in 1..L |-> IF Kept(i) THEN 1 ELSE 0]
<1>5. Kept(1)
    <2>1. e[1] = s[1] /\ d[1] = s[1]
        BY <1>2, <1>3, <1>4 DEF Average
    <2>2. Power(Fast + 1, 1 - 1) = 1 /\ Power(Slow + 1, 1 - 1) = 1
        BY <1>1, PowerGrows
    <2> QED
        BY <1>2, <2>1, <2>2
<1>6. ASSUME NEW i \in 1..L, i # 1, Kept(i - 1) PROVE Kept(i)
    <2> DEFINE u == Power(Fast + 1, i - 2)
               w == Power(Slow + 1, i - 2)
    <2>1. i - 1 \in 1..L /\ i \in 2..L /\ i - 2 \in Nat /\ i - 1 \in Nat \ {0} /\ (i - 1) - 1 = i - 2
        BY <1>2, <1>6
    <2>2. u \in Nat /\ w \in Nat
        BY <1>1, <2>1, PowerType
    <2>3. Power(Fast + 1, i - 1) = (Fast + 1) * u /\ Power(Slow + 1, i - 1) = (Slow + 1) * w
        BY <1>1, <2>1, PowerGrows
    <2>4. /\ e[i] = 2 * s[i] * u + (Fast - 1) * e[i - 1] /\ e[i - 1] \in Nat
          /\ d[i] = 2 * s[i] * w + (Slow - 1) * d[i - 1] /\ d[i - 1] \in Nat
        BY <1>3, <1>4, <1>6, <2>1 DEF Average
    <2>5. s[i - 1] <= s[i] /\ s[i - 1] \in Nat /\ s[i] \in Nat
        BY <1>2, <2>1 DEF Falls
    <2>6. e[i - 1] <= s[i - 1] * u /\ d[i - 1] * u <= e[i - 1] * w
        BY <1>6, <2>1
    <2> HIDE DEF u, w
    <2>7. /\ Fast + 1 \in Nat /\ Slow + 1 \in Nat /\ 2 <= Fast + 1 /\ Fast + 1 <= Slow + 1
          /\ (Fast + 1) - 2 = Fast - 1 /\ (Slow + 1) - 2 = Slow - 1
        BY <1>1
    <2>8. /\ 2 * s[i] * u + ((Fast + 1) - 2) * e[i - 1] <= s[i] * ((Fast + 1) * u)
          /\ (2 * s[i] * w + ((Slow + 1) - 2) * d[i - 1]) * ((Fast + 1) * u)
                <= (2 * s[i] * u + ((Fast + 1) - 2) * e[i - 1]) * ((Slow + 1) * w)
        BY <2>2, <2>4, <2>5, <2>6, <2>7, RisingStep
    <2> QED
        BY <2>3, <2>4, <2>7, <2>8
<1>7. \A i \in 1..L : kept[i] \in {1}
    <2>1. \A i \in 1..L : i # 1 /\ kept[i - 1] \in {1} => kept[i] \in {1}
        <3> SUFFICES ASSUME NEW i \in 1..L, i # 1, kept[i - 1] \in {1} PROVE kept[i] \in {1}
            OBVIOUS
        <3>1. i - 1 \in 1..L
            BY <1>2
        <3>2. Kept(i - 1)
            <4> HIDE DEF Kept
            <4> QED
                BY <3>1
        <3>3. Kept(i)
            BY <1>6, <3>2
        <3> HIDE DEF Kept
        <3> QED
            BY <3>3
    <2>2. 1 <= L => kept[1] \in {1}
        <3> HIDE DEF Kept
        <3> QED
            BY <1>2, <1>5
    <2>3. 1 \in Nat /\ L \in Int
        BY <1>2
    <2> HIDE DEF kept, L
    <2> QED
        BY <2>1, <2>2, <2>3, AlongRange, Zenon
<1>8. Kept(L)
    <2>1. L \in 1..L
        BY <1>2
    <2> HIDE DEF Kept, L
    <2> QED
        BY <1>7, <2>1
<1>9. Ema(s, Slow) * Power(Fast + 1, L - 1) <= Ema(s, Fast) * Power(Slow + 1, L - 1)
    BY <1>3, <1>4, <1>8 DEF Average
<1>10. /\ Ema(s, Slow) * Power(Fast + 1, L - 1) \in Int /\ Ema(s, Fast) * Power(Slow + 1, L - 1) \in Int
    <2>1. Power(Fast + 1, L - 1) \in Nat /\ Power(Slow + 1, L - 1) \in Nat
        <3>1. L - 1 \in Nat
            BY <1>2
        <3> QED
            BY <1>1, <3>1, PowerType
    <2>2. Ema(s, Fast) \in Nat /\ Ema(s, Slow) \in Nat
        <3>1. L \in 1..L
            BY <1>2
        <3> QED
            BY <1>3, <1>4, <3>1 DEF Average
    <2> QED
        BY <2>1, <2>2, ProductOfNaturals
<1>11. Macd(s) < 0
    BY DEF Bearish
<1> QED
    BY <1>9, <1>10, <1>11 DEF Macd

-----------------------------------------------------------------------------
(* Prices *)

(* What a price is: a positive integer. *)
LEMMA PricesArePositive == Shows \subseteq Nat \ {0} /\ Entry \in Shows
BY MarketAssumption DEF Shows, Entry

(* The larger of two numbers is one of them, and neither exceeds it. *)
LEMMA HigherOf ==
    ASSUME NEW a \in Int, NEW b \in Int
    PROVE  Higher(a, b) \in {a, b} /\ Higher(a, b) >= a /\ Higher(a, b) >= b
BY DEF Higher

LEMMA HistoryHoldsSeed == HistorySize \in Nat /\ HistorySize >= Slow + 2 /\ Slow + 2 \in Nat \ {0, 1}
BY TrendAssumption, HigherOf DEF HistorySize

-----------------------------------------------------------------------------
(* The window *)

(* A price enters the window, the oldest leaves a full one: the window is   *)
(* never shorter than its seed and never longer than the history.           *)
LEMMA PushedType ==
    ASSUME NEW s \in Seq(Shows), NEW x \in Shows, Len(s) \in (Slow + 2)..HistorySize
    PROVE  Pushed(s, x) \in Seq(Shows) /\ Len(Pushed(s, x)) \in (Slow + 2)..HistorySize
<1>1. Len(s) \in Nat /\ s # << >>
    BY HistoryHoldsSeed
<1>2. CASE Len(s) = HistorySize
    <2>1. Tail(s) \in Seq(Shows) /\ Len(Tail(s)) = Len(s) - 1
        BY <1>1
    <2>2. Append(Tail(s), x) \in Seq(Shows) /\ Len(Append(Tail(s), x)) = Len(s)
        BY <1>1, <2>1
    <2> QED
        BY <1>2, <2>2 DEF Pushed
<1>3. CASE Len(s) # HistorySize
    <2>1. Append(s, x) \in Seq(Shows) /\ Len(Append(s, x)) = Len(s) + 1
        BY <1>1
    <2> QED
        BY <1>1, <1>3, <2>1, HistoryHoldsSeed DEF Pushed
<1> QED
    BY <1>2, <1>3

(* The seed is a window, so a tracker is usable from its first price on. *)
LEMMA SeedType == Seed \in Seq(Shows) /\ Len(Seed) = Slow + 2
<1>1. Slow + 2 \in Nat /\ Entry \in Shows
    BY HistoryHoldsSeed, PricesArePositive
<1>2. Seed \in [1..(Slow + 2) -> Shows]
    BY <1>1 DEF Seed
<1> QED
    BY <1>1, <1>2

(* The seed, when there is no window yet, and then the new price. *)
LEMMA ObservedType ==
    ASSUME NEW s \in Seq(Shows), NEW x \in Shows, Len(s) \in {0} \cup (Slow + 2)..HistorySize
    PROVE  LET w == Pushed(IF s = << >> THEN Seed ELSE s, x)
           IN  w \in Seq(Shows) /\ Len(w) \in (Slow + 2)..HistorySize
<1>1. CASE s = << >>
    BY <1>1, SeedType, PushedType, HistoryHoldsSeed
<1>2. CASE s # << >>
    <2>1. Len(s) # 0
        BY <1>2, EmptySeq
    <2> QED
        BY <1>2, <2>1, PushedType
<1> QED
    BY <1>1, <1>2

(* The returns of a window are finitely many: its volatility is a number. *)
LEMMA VolatilityIsNumber ==
    ASSUME NEW s \in Seq(Shows)
    PROVE  RealizedVol(s) \in Int
<1> DEFINE n == Len(s) - 1
           moved(i) == (1000 * s[i + 1]) \div s[i]
           return == [i \in 1..n |-> moved(i)]
           Returns == {moved(i) : i \in 1..n}
<1>1. n \in Int /\ IsFiniteSet(1..n)
    BY FS_Interval
<1>2. return \in Surjection(1..n, Returns)
    <2> HIDE DEF moved, n
    <2> QED
        BY DEF Surjection
<1>3. IsFiniteSet(Returns)
    <2> HIDE DEF return, Returns, n
    <2> QED
        BY <1>1, <1>2, FS_Surjection
<1>4. Cardinality(Returns) \in Nat
    <2> HIDE DEF Returns
    <2> QED
        BY <1>3, FS_CardinalityType
<1>5. RealizedVol(s) = Cardinality(Returns) - 1
    BY DEF RealizedVol
<1> QED
    BY <1>4, <1>5

(* A counter that stops at a bound stays between zero and it. *)
LEMMA CountedType ==
    ASSUME NEW s, NEW c \in 0..(Confirm + SpikedExtra)
    PROVE  Counted(s, c) \in 0..(Confirm + SpikedExtra)
BY TrendAssumption DEF Counted

-----------------------------------------------------------------------------
(* The rules *)

(* The stop of a swing lot is under its entry, whatever the lot costs. *)
LEMMA StopUnderEntry ==
    ASSUME NEW l \in Nat \ {0}
    PROVE  StopBp(l) \in Int /\ StopBp(l) > 0
<1>1. GasTon * 10000 \in Nat
    BY CostAssumption DEF GasTon
<1>2. (GasTon * 10000) \div l \in Int
    <2> DEFINE g == GasTon * 10000
    <2> HIDE DEF g
    <2>1. g \in Nat => g \div l \in Int
        OBVIOUS
    <2> QED
        BY <1>1, <2>1 DEF g
<1>3. CostBp(l) \in Int
    BY <1>2, CostAssumption DEF CostBp
<1>4. (SpreadMultiple * CostBp(l)) \div 100 \in Int /\ StopPct * 100 \in Int /\ StopPct * 100 > 0
    BY <1>3, StopAssumption DEF SpreadMultiple
<1> QED
    BY <1>4, HigherOf DEF StopBp

(* The sniper's stop is never wider than it may be widened. *)
LEMMA StopIsBounded ==
    ASSUME NEW vol \in Int, NEW base \in Int
    PROVE  SniperStop(vol, base) \in Int /\ SniperStop(vol, base) <= WidenMaxPct
<1>1. StopPct \in Nat /\ WidenMaxPct \in Nat /\ StopPct <= WidenMaxPct
    BY StopAssumption
<1>2. CASE base <= 0 \/ vol <= base
    BY <1>1, <1>2 DEF SniperStop
<1>3. CASE ~(base <= 0 \/ vol <= base)
    <2> DEFINE widened == (StopPct * vol) \div base
    <2>1. SniperStop(vol, base) = IF widened < WidenMaxPct THEN widened ELSE WidenMaxPct
        BY <1>3 DEF SniperStop
    <2>2. widened \in Int
        <3> DEFINE p == StopPct * vol
        <3>1. p \in Int
            BY <1>1
        <3> HIDE DEF p
        <3>2. p \div base \in Int
            BY <1>3, <3>1
        <3> QED
            BY <3>2 DEF p
    <2> HIDE DEF widened
    <2> QED
        BY <1>1, <2>1, <2>2
<1> QED
    BY <1>2, <1>3

(* What the policy leaves open has not reached the stop: neither the trend, *)
(* nor a spiked regime, nor the structure hides it.                         *)
LEMMA PolicyKeepsStop ==
    ASSUME NEW f, PolicyExit(f) = "none"
    PROVE  ~(100 * (Entry - f.mark) >= StopBp(f.lot))
BY DEF PolicyExit

(* What decideExit leaves open has not reached the widest stop: a confirmed *)
(* flip holds only what is above the narrow one.                            *)
LEMMA SniperKeepsStop ==
    ASSUME NEW f, f.mark \in Int, NEW stop \in Int, stop <= WidenMaxPct, SniperExit(f, stop) = "none"
    PROVE  Entry - f.mark < WidenMaxPct
<1>1. StopPct \in Nat /\ WidenMaxPct \in Nat /\ StopPct <= WidenMaxPct /\ Entry \in Int
    BY StopAssumption DEF Entry
<1> QED
    BY <1>1 DEF SniperExit

(* Every verdict is one of those the properties speak of. *)
LEMMA VerdictsAreKnown ==
    ASSUME NEW f, NEW stop
    PROVE  PolicyExit(f) \in ExitVerdicts /\ SniperExit(f, stop) \in ExitVerdicts
BY DEF PolicyExit, SniperExit, ExitVerdicts

(* A size is a whole number, and with an allocation of at most the whole    *)
(* wallet no size exceeds what may be spent.                                *)
LEMMA SizedType ==
    ASSUME NEW b \in Int, NEW r \in Int
    PROVE  /\ Sized(b, r) \in Nat
           /\ PortfolioPct <= 100 /\ b >= 0 => Sized(b, r) <= b
<1> DEFINE share == (b * PortfolioPct) \div 100
<1>1. share \in Int /\ (PortfolioPct <= 100 /\ b >= 0 => share <= b)
    <2> DEFINE p == b * PortfolioPct
    <2>1. p \in Int /\ (PortfolioPct <= 100 /\ b >= 0 => p <= 100 * b)
        BY SizingAssumption, SMTT(30)
    <2>2. share = p \div 100
        OBVIOUS
    <2> HIDE DEF p, share
    <2> QED
        BY <2>1, <2>2
<1>2. Sized(b, r) = NonNegative(Least(PerTrade, Least(share, r)))
    BY DEF Sized
<1> HIDE DEF share
<1> QED
    BY <1>1, <1>2, SizingAssumption DEF NonNegative, Least

-----------------------------------------------------------------------------
(* Types *)

(* The trackers of one observation. *)
LEMMA ObserveType ==
    ASSUME TypeOK, NEW y \in Shows, Observe(y)
    PROVE  /\ series' \in Seq(Shows) /\ Len(series') \in {0} \cup (Slow + 2)..HistorySize
           /\ conf' \in 0..(Confirm + SpikedExtra) /\ obs' \in 0..MinObs
           /\ high' \in Shows /\ shaken' \in 0..Confirm
<1>1. series' \in Seq(Shows) /\ Len(series') \in (Slow + 2)..HistorySize
    BY ObservedType DEF TypeOK, Observe
<1>2. conf' \in 0..(Confirm + SpikedExtra)
    BY CountedType DEF TypeOK, Observe
<1>3. obs' \in 0..MinObs /\ shaken' \in 0..Confirm
    <2>1. obs' = IF obs < MinObs THEN obs + 1 ELSE obs
        BY DEF Observe
    <2>2. shaken' \in {0, shaken} \/ (shaken < Confirm /\ shaken' = shaken + 1)
        BY DEF Observe
    <2> QED
        BY <2>1, <2>2, TrendAssumption DEF TypeOK
<1>4. high' \in Shows
    <2>1. high' = Higher(high, y) /\ high \in Shows
        BY DEF TypeOK, Observe
    <2> QED
        BY <2>1 DEF Higher
<1> QED
    BY <1>1, <1>2, <1>3, <1>4

(* What a verdict leaves behind. *)
LEMMA EndsType ==
    ASSUME TypeOK, NEW x \in Shows, NEW why \in ExitVerdicts, Ends(why, x)
    PROVE  /\ phase' \in {"open", "out"} /\ verdict' \in ExitVerdicts
           /\ looksBelow' \in 0..StopConfirm
<1>1. looksBelow' \in {0, looksBelow} \/ (looksBelow < StopConfirm /\ looksBelow' = looksBelow + 1)
    BY DEF Ends
<1> QED
    BY <1>1, StopAssumption DEF TypeOK, Ends

(* The market, moving or settled, shows prices. *)
LEMMA ShownType == TypeOK => Shown \subseteq Shows
BY DEF TypeOK, Shown, Shows

LEMMA InitTypeOK == Init => TypeOK
<1> SUFFICES ASSUME Init PROVE TypeOK
    OBVIOUS
<1>1. series \in Seq(Shows) /\ Len(series) = 0
    BY EmptySeq DEF Init, Untracked
<1>2. /\ 0 \in 0..(Confirm + SpikedExtra) /\ 0 \in 0..MinObs /\ 0 \in 0..StopConfirm
      /\ 0 \in 0..Confirm /\ 0 \in 0..SniperMaxOpen /\ 0 \in Nat
    BY TrendAssumption, StopAssumption, SizingAssumption
<1>3. offer \in [coin : Coins \cup {NoOffer.coin}, bankroll : Bankrolls \cup {0}, held : 0..SniperMaxOpen] /\ lot \in Nat
    BY <1>2 DEF Init, NoOffer
<1>4. /\ conf \in 0..(Confirm + SpikedExtra) /\ obs \in 0..MinObs /\ streak \in 0..StopConfirm
      /\ shaken \in 0..Confirm /\ looksBelow \in 0..StopConfirm /\ best \in Shows \cup {0}
    BY <1>2 DEF Init, Untracked
<1>5. regime \in [now : {"unknown", "normal", "spiked"}, next : {"none", "normal", "spiked"}]
    BY DEF Init, Untracked, Unknown
<1>6. /\ {peak, mark, high} \subseteq Shows /\ {timed, due, still} \subseteq BOOLEAN
      /\ verdict \in ExitVerdicts
    BY PricesArePositive DEF Init, ExitVerdicts
<1>7. mode \in {"swing", "sniper"} /\ phase \in {"flat", "sized", "open", "out"} /\ feeds \in Feeds
    BY DEF Init
<1> QED
    BY <1>1, <1>3, <1>4, <1>5, <1>6, <1>7 DEF TypeOK

(* A launch is sized by whole numbers. *)
LEMMA ConsiderType ==
    ASSUME TypeOK, NEW c \in Coins, Consider(c)
    PROVE  TypeOK'
<1>1. PICK bankroll \in Bankrolls, held \in 0..(SniperMaxOpen - 1) :
          /\ Sized(Spendable(bankroll, held), DailyRemaining(held * PerTrade)) > 0
          /\ offer' = [coin |-> c, bankroll |-> bankroll, held |-> held]
          /\ lot' = Sized(Spendable(bankroll, held), DailyRemaining(held * PerTrade))
    BY DEF Consider
<1>2. bankroll \in Nat /\ held \in 0..SniperMaxOpen /\ held \in Nat
    BY BankrollAssumption, SizingAssumption
<1>3. lot' \in Nat
    <2>1. Spendable(bankroll, held) \in Int
        <3> DEFINE reserve == (held + 1) * RouterGas
        <3>1. reserve \in Int
            BY <1>2, SizingAssumption
        <3>2. Spendable(bankroll, held) = NonNegative(bankroll - reserve - RouterGas)
            BY DEF Spendable
        <3> HIDE DEF reserve
        <3> QED
            BY <1>2, <3>1, <3>2, SizingAssumption DEF NonNegative
    <2>2. DailyRemaining(held * PerTrade) \in Int
        <3> DEFINE day == PerTrade * SniperMaxOpen
                   spent == held * PerTrade
        <3>1. day \in Int /\ spent \in Int
            BY <1>2, SizingAssumption
        <3>2. DailyRemaining(spent) = NonNegative(day - spent)
            BY DEF DailyRemaining
        <3> HIDE DEF day, spent
        <3>3. DailyRemaining(spent) \in Int
            BY <3>1, <3>2 DEF NonNegative
        <3> QED
            BY <3>3 DEF spent
    <2> QED
        BY <1>1, <2>1, <2>2, SizedType
<1>4. /\ phase' = "sized"
      /\ UNCHANGED <<mode, trackers, peak, timed, due, feeds, still, mark, verdict, history>>
    BY DEF Consider
<1> QED
    BY <1>1, <1>2, <1>3, <1>4 DEF TypeOK, trackers, history

(* A look of the swing monitor. *)
LEMMA LookSwingType ==
    ASSUME TypeOK, NEW x \in Shows, LookSwing(x)
    PROVE  TypeOK'
<1>1. PICK measured \in {"normal", "spiked"} : Classify(measured)
    BY DEF LookSwing
<1>2. regime' \in [now : {"unknown", "normal", "spiked"}, next : {"none", "normal", "spiked"}]
    BY <1>1 DEF Classify, TypeOK
<1>3. /\ series' \in Seq(Shows) /\ Len(series') \in {0} \cup (Slow + 2)..HistorySize
      /\ conf' \in 0..(Confirm + SpikedExtra) /\ obs' \in 0..MinObs
      /\ high' \in Shows /\ shaken' \in 0..Confirm
    BY ObserveType DEF LookSwing
<1>4. /\ phase' \in {"open", "out"} /\ verdict' \in ExitVerdicts /\ looksBelow' \in 0..StopConfirm
    <2>1. Ends(PolicyExit(SwingFacts(x)), x) /\ PolicyExit(SwingFacts(x)) \in ExitVerdicts
        BY VerdictsAreKnown DEF LookSwing
    <2> QED
        BY <2>1, EndsType
<1>5. streak' \in 0..StopConfirm
    <2>1. streak' \in {0, streak} \/ (streak < StopConfirm /\ streak' = streak + 1)
        BY DEF LookSwing
    <2> QED
        BY <2>1, StopAssumption DEF TypeOK
<1>6. best' \in Shows \cup {0}
    <2>1. best' = Tracked(best, x)
        BY DEF LookSwing
    <2> QED
        BY <2>1 DEF Tracked, Higher, TypeOK
<1>7. mark' \in Shows /\ UNCHANGED <<mode, offer, lot, peak, timed, due, feeds, still>>
    BY DEF LookSwing
<1> QED
    BY <1>2, <1>3, <1>4, <1>5, <1>6, <1>7 DEF TypeOK

(* A look of the sniper. *)
LEMMA LookSniperType ==
    ASSUME TypeOK, NEW x \in Shows, NEW y \in Shows, LookSniper(x, y)
    PROVE  TypeOK'
<1>1. /\ series' \in Seq(Shows) /\ Len(series') \in {0} \cup (Slow + 2)..HistorySize
      /\ conf' \in 0..(Confirm + SpikedExtra) /\ obs' \in 0..MinObs
      /\ high' \in Shows /\ shaken' \in 0..Confirm
    BY ObserveType DEF LookSniper
<1>2. /\ phase' \in {"open", "out"} /\ verdict' \in ExitVerdicts /\ looksBelow' \in 0..StopConfirm
    <2>1. Ends(SniperExit(SniperFacts(x), WidenedStop), x) /\ SniperExit(SniperFacts(x), WidenedStop) \in ExitVerdicts
        BY VerdictsAreKnown DEF LookSniper
    <2> QED
        BY <2>1, EndsType
<1>3. peak' \in Shows
    <2>1. peak' = Higher(peak, x) /\ peak \in Shows
        BY DEF TypeOK, LookSniper
    <2> QED
        BY <2>1 DEF Higher
<1>4. mark' \in Shows /\ UNCHANGED <<mode, offer, lot, streak, regime, best, timed, due, feeds, still>>
    BY DEF LookSniper
<1> QED
    BY <1>1, <1>2, <1>3, <1>4 DEF TypeOK

(* A price between two looks. *)
LEMMA PollTickType ==
    ASSUME TypeOK, NEW y \in Shows, PollTick(y)
    PROVE  TypeOK'
<1>1. /\ series' \in Seq(Shows) /\ Len(series') \in {0} \cup (Slow + 2)..HistorySize
      /\ conf' \in 0..(Confirm + SpikedExtra) /\ obs' \in 0..MinObs
      /\ high' \in Shows /\ shaken' \in 0..Confirm
    BY ObserveType DEF PollTick
<1>2. UNCHANGED <<mode, phase, offer, lot, streak, regime, best, peak, timed, due, feeds, still, mark, verdict, looksBelow>>
    BY DEF PollTick
<1> QED
    BY <1>1, <1>2 DEF TypeOK

(* Trackers that are empty, after a restart or a sale. *)
LEMMA EmptyTrackers ==
    /\ << >> \in Seq(Shows) /\ Len(<< >>) = 0
    /\ 0 \in 0..(Confirm + SpikedExtra) /\ 0 \in 0..MinObs /\ 0 \in 0..StopConfirm /\ 0 \in 0..Confirm
    /\ Unknown \in [now : {"unknown", "normal", "spiked"}, next : {"none", "normal", "spiked"}]
<1>1. << >> \in Seq(Shows) /\ Len(<< >>) = 0
    BY EmptySeq
<1> QED
    BY <1>1, TrendAssumption, StopAssumption DEF Unknown

(* No action leaves a counter beyond its bound, a window that the trend     *)
(* could not be computed from, or a remembered price the market never had.  *)
LEMMA NextTypeOK == TypeOK /\ [Next]_vars => TypeOK'
<1> SUFFICES ASSUME TypeOK, [Next]_vars PROVE TypeOK'
    OBVIOUS
<1>1. ASSUME NEW c \in Coins, Consider(c) PROVE TypeOK'
    BY <1>1, ConsiderType
<1>2. CASE Buy
    <2>1. \/ phase' = "open" /\ timed' = TRUE /\ UNCHANGED lot
          \/ phase' = "flat" /\ lot' = 0 /\ UNCHANGED timed
        BY <1>2, Zenon DEF Buy
    <2>3. timed' \in BOOLEAN /\ lot' \in Nat /\ phase' \in {"open", "flat"}
        <3>1. timed \in BOOLEAN /\ lot \in Nat /\ 0 \in Nat
            BY DEF TypeOK
        <3> QED
            BY <2>1, <3>1, Zenon
    <2>4. /\ offer' = NoOffer
          /\ UNCHANGED <<mode, trackers, peak, due, feeds, still, mark, verdict, history>>
        BY <1>2 DEF Buy
    <2>2. offer' \in [coin : Coins \cup {NoOffer.coin}, bankroll : Bankrolls \cup {0}, held : 0..SniperMaxOpen]
        BY <2>4, SizingAssumption DEF NoOffer
    <2> QED
        BY <2>2, <2>3, <2>4 DEF TypeOK, trackers, history
<1>3. ASSUME NEW l \in SwingLots, EnterSwing(l) PROVE TypeOK'
    BY <1>3, MarketAssumption DEF EnterSwing, TypeOK, trackers, history
<1>4. CASE Look
    <2>1. ASSUME NEW x \in Shows, LookSwing(x) PROVE TypeOK'
        BY <2>1, LookSwingType
    <2>2. ASSUME NEW x \in Shows, NEW y \in Shows, LookSniper(x, y) PROVE TypeOK'
        BY <2>2, LookSniperType
    <2> QED
        BY <1>4, <2>1, <2>2 DEF Look, Shows
<1>5. ASSUME NEW y \in Shows, PollTick(y) PROVE TypeOK'
    BY <1>5, PollTickType
<1>6. CASE Restart
    <2>1. /\ series' = << >> /\ conf' = 0 /\ obs' = 0 /\ streak' = 0 /\ regime' = Unknown /\ best' = 0
          /\ UNCHANGED <<mode, phase, offer, lot, peak, timed, due, feeds, still, mark, verdict, history>>
        BY <1>6 DEF Restart
    <2> QED
        BY <2>1, EmptyTrackers DEF TypeOK, history
<1>7. CASE DeadlinePasses
    BY <1>7 DEF DeadlinePasses, TypeOK, trackers, history
<1>8. CASE FeedsMove
    BY <1>8 DEF FeedsMove, TypeOK, trackers, history
<1>9. CASE Settle
    BY <1>9 DEF Settle, TypeOK, trackers, history
<1>10. CASE Forget
    <2>1. /\ phase' = "flat" /\ lot' = 0 /\ verdict' = "none"
          /\ series' = << >> /\ conf' = 0 /\ obs' = 0 /\ streak' = 0 /\ regime' = Unknown /\ best' = 0
          /\ peak' = Entry /\ timed' = FALSE /\ due' = FALSE /\ still' = FALSE /\ mark' = Entry
          /\ high' = Entry /\ shaken' = 0 /\ looksBelow' = 0
          /\ UNCHANGED <<mode, offer, feeds>>
        BY <1>10 DEF Forget
    <2> QED
        BY <2>1, EmptyTrackers, PricesArePositive DEF TypeOK, ExitVerdicts
<1>11. CASE UNCHANGED vars
    BY <1>11 DEF vars, TypeOK, trackers, history
<1> QED
    BY <1>1, <1>2, <1>3, <1>4, <1>5, <1>6, <1>7, <1>8, <1>9, <1>10, <1>11 DEF Next, Shows

(* The trackers stay usable through restarts, polls and looks: the window   *)
(* is empty or long enough for the slow average, the counters are in bounds.*)
THEOREM TypeCorrect == Spec => []TypeOK
BY InitTypeOK, NextTypeOK, PTL DEF Spec

-----------------------------------------------------------------------------
(* The way in *)

(* What may be spent leaves the exit gas of every lot, this one included,   *)
(* and the gas of the buy.                                                  *)
LEMMA SpendableLeavesGas ==
    ASSUME NEW bankroll \in Nat, NEW held \in Nat
    PROVE  /\ Spendable(bankroll, held) \in Nat
           /\ Spendable(bankroll, held) > 0
                  => Spendable(bankroll, held) = bankroll - (held + 1) * RouterGas - RouterGas
<1> DEFINE reserve == (held + 1) * RouterGas
<1>1. reserve \in Int /\ RouterGas \in Int
    BY SizingAssumption
<1>2. Spendable(bankroll, held) = NonNegative(bankroll - reserve - RouterGas)
    BY DEF Spendable
<1> HIDE DEF reserve
<1>3. /\ Spendable(bankroll, held) \in Nat
      /\ Spendable(bankroll, held) > 0 => Spendable(bankroll, held) = bankroll - reserve - RouterGas
    BY <1>1, <1>2 DEF NonNegative
<1> QED
    BY <1>3 DEF reserve

(* What is left of a balance after a lot that is at most the rest. *)
LEMMA LeftAfter ==
    ASSUME NEW b \in Int, NEW l \in Int, NEW r \in Int, NEW g \in Int, l <= b - r - g
    PROVE  b - l - g >= r
OBVIOUS

(* The size that is taken leaves them too. *)
LEMMA ConsiderIsFunded ==
    ASSUME PortfolioPct <= 100, NEW c \in Coins, Consider(c)
    PROVE  ExitsAreFunded'
<1>1. PICK bankroll \in Bankrolls, held \in 0..(SniperMaxOpen - 1) :
          /\ Sized(Spendable(bankroll, held), DailyRemaining(held * PerTrade)) > 0
          /\ offer' = [coin |-> c, bankroll |-> bankroll, held |-> held]
          /\ lot' = Sized(Spendable(bankroll, held), DailyRemaining(held * PerTrade))
    BY DEF Consider
<1> DEFINE spendable == Spendable(bankroll, held)
           remaining == DailyRemaining(held * PerTrade)
           reserve == (held + 1) * RouterGas
<1>2. bankroll \in Nat /\ held \in Nat
    BY BankrollAssumption
<1>3. /\ spendable \in Nat
      /\ spendable > 0 => spendable = bankroll - reserve - RouterGas
    BY <1>2, SpendableLeavesGas
<1>4. remaining \in Int
    <2> DEFINE day == PerTrade * SniperMaxOpen
               spent == held * PerTrade
    <2>1. day \in Int /\ spent \in Int
        BY <1>2, SizingAssumption
    <2>2. remaining = NonNegative(day - spent)
        BY DEF DailyRemaining
    <2> HIDE DEF day, spent, remaining
    <2> QED
        BY <2>1, <2>2 DEF NonNegative
<1>5. lot' \in Nat /\ lot' <= spendable /\ lot' > 0
    <2> HIDE DEF spendable, remaining
    <2>1. Sized(spendable, remaining) \in Nat /\ Sized(spendable, remaining) <= spendable
        <3>1. spendable \in Int /\ spendable >= 0
            BY <1>3
        <3> QED
            BY <1>4, <3>1, SizedType, Zenon
    <2> QED
        BY <1>1, <2>1 DEF spendable, remaining
<1>6. reserve \in Int /\ RouterGas \in Int
    BY <1>2, SizingAssumption
<1>7. offer'.bankroll = bankroll /\ offer'.held = held
    BY <1>1
<1>8. bankroll - lot' - RouterGas >= reserve
    <2> HIDE DEF spendable, reserve
    <2>1. spendable = bankroll - reserve - RouterGas
        BY <1>3, <1>5
    <2>2. lot' <= bankroll - reserve - RouterGas
        BY <1>5, <2>1, Zenon
    <2>3. bankroll \in Int /\ lot' \in Int
        BY <1>2, <1>5
    <2> QED
        BY <1>6, <2>2, <2>3, LeftAfter
<1> QED
    BY <1>7, <1>8 DEF ExitsAreFunded

(* scanTick sets the exit gas of every lot aside before it sizes a buy:     *)
(* whatever the balance, the lots held and the daily budget, the lot that   *)
(* is about to be bought can be sold again, and so can the others.  An      *)
(* allocation of more than the wallet is accepted by the configuration and  *)
(* would spend the reserve: that is the hypothesis.                         *)
THEOREM ExitsFunded == PortfolioPct <= 100 => (Spec => []ExitsAreFunded)
<1> SUFFICES ASSUME PortfolioPct <= 100 PROVE Spec => []ExitsAreFunded
    OBVIOUS
<1>1. Init => ExitsAreFunded
    BY DEF Init, ExitsAreFunded
<1>2. ExitsAreFunded /\ [Next]_vars => ExitsAreFunded'
    <2> SUFFICES ASSUME ExitsAreFunded, [Next]_vars PROVE ExitsAreFunded'
        OBVIOUS
    <2>1. ASSUME NEW c \in Coins, Consider(c) PROVE ExitsAreFunded'
        BY <2>1, ConsiderIsFunded
    <2>2. CASE Buy
        BY <2>2 DEF Buy, ExitsAreFunded
    <2>3. ASSUME NEW l \in SwingLots, EnterSwing(l) PROVE ExitsAreFunded'
        BY <2>3 DEF EnterSwing, ExitsAreFunded
    <2>4. CASE Look
        <3>1. phase' \in {"open", "out"}
            BY <2>4 DEF Look, LookSwing, LookSniper, Ends
        <3> QED
            BY <3>1 DEF ExitsAreFunded
    <2>5. ASSUME NEW y \in Prices \cup {Entry}, PollTick(y) PROVE ExitsAreFunded'
        BY <2>5 DEF PollTick, ExitsAreFunded
    <2>6. CASE Restart \/ DeadlinePasses \/ FeedsMove \/ Settle \/ Forget
        BY <2>6 DEF Restart, DeadlinePasses, FeedsMove, Settle, Forget, ExitsAreFunded
    <2>7. CASE UNCHANGED vars
        BY <2>7 DEF vars, ExitsAreFunded
    <2> QED
        BY <2>1, <2>2, <2>3, <2>4, <2>5, <2>6, <2>7 DEF Next
<1> QED
    BY <1>1, <1>2, PTL DEF Spec

-----------------------------------------------------------------------------
(* The invariant behind the other three *)

(* An open position has a lot; before the first look its price is that of   *)
(* the entry; with a verdict it is out.                                     *)
Entered ==
    /\ phase \in {"flat", "sized"} => mark = Entry
    /\ phase \in {"sized", "open"} => lot > 0
    /\ verdict # "none" => phase = "out"

LEMMA InitEntered == Init => Entered
BY DEF Init, Entered

LEMMA NextEntered == Entered /\ [Next]_vars => Entered'
<1> SUFFICES ASSUME Entered, [Next]_vars PROVE Entered'
    OBVIOUS
<1>1. ASSUME NEW c \in Coins, Consider(c) PROVE Entered'
    <2>1. lot' > 0 /\ phase' = "sized" /\ phase = "flat" /\ UNCHANGED <<mark, verdict>>
        BY <1>1 DEF Consider
    <2> QED
        BY <2>1 DEF Entered
<1>2. CASE Buy
    <2>1. \/ phase' = "open" /\ UNCHANGED lot
          \/ phase' = "flat"
        BY <1>2, Zenon DEF Buy
    <2>2. phase = "sized" /\ UNCHANGED <<mark, verdict>>
        BY <1>2 DEF Buy
    <2> QED
        BY <2>1, <2>2 DEF Entered
<1>3. ASSUME NEW l \in SwingLots, EnterSwing(l) PROVE Entered'
    BY <1>3, MarketAssumption DEF EnterSwing, Entered
<1>4. CASE Look
    BY <1>4 DEF Look, LookSwing, LookSniper, Ends, Entered
<1>5. ASSUME NEW y \in Prices \cup {Entry}, PollTick(y) PROVE Entered'
    BY <1>5 DEF PollTick, Entered
<1>6. CASE Restart \/ DeadlinePasses \/ FeedsMove \/ Settle
    BY <1>6 DEF Restart, DeadlinePasses, FeedsMove, Settle, Entered
<1>7. CASE Forget
    BY <1>7 DEF Forget, Entered
<1>8. CASE UNCHANGED vars
    BY <1>8 DEF vars, Entered
<1> QED
    BY <1>1, <1>2, <1>3, <1>4, <1>5, <1>6, <1>7, <1>8 DEF Next

-----------------------------------------------------------------------------
(* Losses *)

(* The floor is under the entry, for either engine and every lot. *)
LEMMA FloorUnderEntry ==
    ASSUME NEW l \in Nat \ {0}
    PROVE  100 * Entry > 10000 - StopBp(l) /\ 100 * Entry > 100 * (Entry - WidenMaxPct)
BY StopUnderEntry, StopAssumption DEF Entry

(* What the sniper's stop is widened by are numbers. *)
LEMMA WidenedIsNumber ==
    ASSUME TypeOK, NEW y \in Shows, Observe(y)
    PROVE  RealizedVol(series') \in Int /\ RealizedVol(SubSeq(series', 1, 2)) \in Int
<1>1. series' \in Seq(Shows) /\ Len(series') \in (Slow + 2)..HistorySize
    BY ObservedType DEF TypeOK, Observe
<1>2. SubSeq(series', 1, 2) \in Seq(Shows)
    <2>1. 2 \in 1..Len(series') /\ 1 \in 1..Len(series')
        BY <1>1, HistoryHoldsSeed
    <2>2. 1 \in 1..(Len(series') + 1) /\ 2 \in 0..Len(series')
        BY <2>1
    <2> QED
        BY <1>1, <2>1, <2>2, SubSeqProperties
<1> QED
    BY <1>1, <1>2, VolatilityIsNumber

(* A look that ends nothing has seen a price above the floor. *)
LEMMA LookKeepsFloor ==
    ASSUME TypeOK, Entered, Look
    PROVE  LossesAreCut'
<1>1. ASSUME NEW x \in Shows, LookSwing(x) PROVE LossesAreCut'
    <2>1. /\ mode' = "swing" /\ lot' = lot /\ mark' = x /\ lot \in Nat \ {0} /\ x \in Int
          /\ phase' = "open" => PolicyExit(SwingFacts(x)) = "none"
        BY <1>1, PricesArePositive DEF LookSwing, Ends, TypeOK, Entered
    <2>2. SwingFacts(x).mark = x /\ SwingFacts(x).lot = lot
        BY DEF SwingFacts
    <2>3. ASSUME PolicyExit(SwingFacts(x)) = "none" PROVE 100 * x > 10000 - StopBp(lot)
        <3>1. ~(100 * (Entry - x) >= StopBp(lot))
            BY <2>2, <2>3, PolicyKeepsStop
        <3> QED
            BY <2>1, <3>1, StopUnderEntry DEF Entry
    <2>4. Floor' = 10000 - StopBp(lot)
        BY <2>1 DEF Floor, StopBp, CostBp
    <2> QED
        BY <2>1, <2>3, <2>4 DEF LossesAreCut
<1>2. ASSUME NEW x \in Shows, NEW y \in Shows, LookSniper(x, y) PROVE LossesAreCut'
    <2>1. /\ mode' = "sniper" /\ mark' = x /\ x \in Int /\ Observe(y)
          /\ phase' = "open" => SniperExit(SniperFacts(x), WidenedStop) = "none"
        BY <1>2, PricesArePositive DEF LookSniper, Ends
    <2>2. SniperFacts(x).mark = x
        BY DEF SniperFacts
    <2>3. WidenedStop \in Int /\ WidenedStop <= WidenMaxPct
        <3>3. RealizedVol(series') \in Int /\ RealizedVol(SubSeq(series', 1, 2)) \in Int
            BY <2>1, WidenedIsNumber
        <3> QED
            BY <3>3, StopIsBounded DEF WidenedStop
    <2>4. ASSUME SniperExit(SniperFacts(x), WidenedStop) = "none" PROVE Entry - x < WidenMaxPct
        BY <2>1, <2>2, <2>3, <2>4, SniperKeepsStop
    <2>5. Floor' = 100 * (Entry - WidenMaxPct)
        BY <2>1 DEF Floor
    <2>6. WidenMaxPct \in Nat /\ Entry \in Nat
        BY StopAssumption DEF Entry
    <2> QED
        BY <2>1, <2>4, <2>5, <2>6 DEF LossesAreCut
<1> QED
    BY <1>1, <1>2 DEF Look, Shows

LEMMA NextLosses == TypeOK /\ Entered /\ Entered' /\ LossesAreCut /\ [Next]_vars => LossesAreCut'
<1> SUFFICES ASSUME TypeOK, Entered, Entered', LossesAreCut, [Next]_vars PROVE LossesAreCut'
    OBVIOUS
<1>1. ASSUME NEW c \in Coins, Consider(c) PROVE LossesAreCut'
    BY <1>1 DEF Consider, LossesAreCut
<1>2. CASE Buy
    <2>1. mark' = Entry /\ lot \in Nat \ {0} /\ mode' \in {"swing", "sniper"}
        BY <1>2 DEF Buy, Entered, TypeOK
    <2>2. phase' = "open" => lot' = lot
        BY <1>2, Zenon DEF Buy
    <2>3. phase' = "open" => 100 * Entry > Floor'
        BY <2>1, <2>2, FloorUnderEntry DEF Floor, StopBp, CostBp
    <2> QED
        BY <2>1, <2>3 DEF LossesAreCut
<1>3. ASSUME NEW l \in SwingLots, EnterSwing(l) PROVE LossesAreCut'
    <2>1. mark' = Entry /\ l \in Nat \ {0} /\ mode' = "swing" /\ lot' = l
        BY <1>3, MarketAssumption DEF EnterSwing, Entered
    <2>2. 100 * Entry > Floor'
        BY <2>1, FloorUnderEntry DEF Floor, StopBp, CostBp
    <2> QED
        BY <2>1, <2>2 DEF LossesAreCut
<1>4. CASE Look
    BY <1>4, LookKeepsFloor
<1>5. ASSUME NEW y \in Prices \cup {Entry}, PollTick(y) PROVE LossesAreCut'
    BY <1>5 DEF PollTick, LossesAreCut, Floor, StopBp, CostBp
<1>6. CASE Restart \/ DeadlinePasses \/ FeedsMove \/ Settle
    BY <1>6 DEF Restart, DeadlinePasses, FeedsMove, Settle, LossesAreCut, Floor, StopBp, CostBp
<1>7. CASE Forget
    BY <1>7 DEF Forget, LossesAreCut
<1>8. CASE UNCHANGED vars
    BY <1>8 DEF vars, LossesAreCut, Floor, StopBp, CostBp
<1> QED
    BY <1>1, <1>2, <1>3, <1>4, <1>5, <1>6, <1>7, <1>8 DEF Next

(* After a look at or under the floor a position is not open: no trend, no  *)
(* regime, no feed and no restart keeps a swing lot past its stop, nor a    *)
(* sniper's past the widest its stop may become.                            *)
THEOREM LossesCut == Spec => []LossesAreCut
<1>1. Init => LossesAreCut
    BY DEF Init, LossesAreCut
<1>2. TypeOK /\ Entered /\ LossesAreCut /\ [Next]_vars => LossesAreCut'
    BY NextEntered, NextLosses
<1> QED
    BY <1>1, <1>2, InitTypeOK, NextTypeOK, InitEntered, NextEntered, PTL DEF Spec

-----------------------------------------------------------------------------
(* The structure stop *)

(* A window of two prices or more has moves. *)
LEMMA MovesExist ==
    ASSUME NEW S, NEW s \in Seq(S), Len(s) >= 2
    PROVE  Moves(s) \in Nat \ {0} /\ 1 \in 1..Moves(s)
<1> DEFINE n == Len(s)
<1>1. n \in Nat /\ n >= 2
    OBVIOUS
<1> HIDE DEF n
<1>2. n - 1 \in Nat \ {0} /\ 1 \in 1..(n - 1)
    BY <1>1
<1> QED
    BY <1>2 DEF n, Moves

(* The moves of a window, and what divides their average. *)
LEMMA MoveType ==
    ASSUME NEW s \in Seq(Nat), NEW i \in 1..Moves(s)
    PROVE  Move(s, i) \in Nat
<1>1. i \in 1..Len(s) /\ i + 1 \in 1..Len(s)
    BY DEF Moves
<1>2. s[i] \in Nat /\ s[i + 1] \in Nat
    BY <1>1
<1> QED
    BY <1>2 DEF Move

LEMMA CountIsPositive ==
    ASSUME NEW n \in Nat \ {0}
    PROVE  Count(n) \in Nat \ {0} /\ Smoothings(n) \in Nat
BY StopAssumption DEF Count, Smoothings

(* The smoothed average of a window is a natural number. *)
LEMMA SmoothedType ==
    ASSUME NEW s \in Seq(Nat), Len(s) >= 2
    PROVE  Smoothed(s) \in Nat
<1> DEFINE L == Moves(s)
           Body(i, v) == IF i <= Lookback THEN v + Move(s, i)
                         ELSE v * (Lookback - 1) + Move(s, i) * Power(Lookback, Smoothings(i))
           Step(g, i) == IF i = 1 THEN Move(s, 1)
                         ELSE IF i <= Lookback THEN g[i - 1] + Move(s, i)
                         ELSE g[i - 1] * (Lookback - 1) + Move(s, i) * Power(Lookback, Smoothings(i))
           G == [z \in Nat \X Nat |-> IF z[1] \in 2..L THEN Body(z[1], z[2]) ELSE 0]
           sum == CHOOSE g : g = [i \in 1..L |-> Step(g, i)]
           b == Move(s, 1)
<1>1. L \in Nat \ {0} /\ 1 \in 1..L
    BY MovesExist
<1>2. ASSUME NEW i \in 2..L, NEW v \in Nat PROVE Body(i, v) \in Nat
    <2> DEFINE w == Power(Lookback, Smoothings(i))
               m == Move(s, i)
    <2>1. Lookback \in Nat \ {0} /\ Lookback - 1 \in Nat
        BY StopAssumption
    <2>2. i \in 1..L /\ i \in Nat \ {0}
        BY <1>1
    <2>3. w \in Nat
        BY <2>1, <2>2, CountIsPositive, PowerType
    <2>4. m \in Nat
        BY <2>2, MoveType
    <2> HIDE DEF w, m
    <2>5. v * (Lookback - 1) \in Nat /\ m * w \in Nat
        BY <2>1, <2>3, <2>4, ProductOfNaturals
    <2>6. v + m \in Nat /\ v * (Lookback - 1) + m * w \in Nat
        BY <2>4, <2>5
    <2>7. Body(i, v) = IF i <= Lookback THEN v + m ELSE v * (Lookback - 1) + m * w
        BY DEF w, m
    <2> HIDE DEF Body
    <2> QED
        BY <2>6, <2>7
<1>3. G \in [Nat \X Nat -> Nat]
    <2> HIDE DEF Body
    <2> QED
        BY <1>2
<1>4. b \in Nat /\ 1 \in Nat /\ L \in Nat /\ 1 <= L
    BY <1>1, MoveType
<1>5. Recursion(Nat, b, 1, G, L)
    <2> HIDE DEF G, L, b
    <2> QED
        BY <1>3, <1>4, RecursionExists
<1>6. PICK g \in [1..L -> Nat] : \A i \in 1..L : g[i] = IF i = 1 THEN b ELSE G[<<i, g[i - 1]>>]
    <2> HIDE DEF G, L, b
    <2> QED
        BY <1>5 DEF Recursion
<1>7. g = [i \in 1..L |-> Step(g, i)]
    <2>1. ASSUME NEW i \in 1..L PROVE g[i] = Step(g, i)
        <3>1. CASE i = 1
            BY <1>6, <3>1
        <3>2. CASE i # 1
            <4>1. i - 1 \in 1..L /\ i \in 2..L /\ i \in Nat
                BY <1>1, <3>2
            <4>2. g[i - 1] \in Nat /\ g[i] = G[<<i, g[i - 1]>>]
                BY <1>6, <3>2, <4>1
            <4>3. G[<<i, g[i - 1]>>] = Body(i, g[i - 1])
                <5> HIDE DEF Body
                <5> QED
                    BY <4>1, <4>2
            <4> QED
                BY <3>2, <4>2, <4>3, Zenon
        <3> QED
            BY <3>1, <3>2
    <2> HIDE DEF Step
    <2> QED
        BY <1>6, <2>1
<1>8. sum = [i \in 1..L |-> Step(sum, i)]
    <2> HIDE DEF Step
    <2> QED
        BY <1>7
<1>9. Smoothed(s) = sum[L]
    BY DEF Smoothed
<1> HIDE DEF sum
<1>10. \A i \in 1..L : sum[i] = Step(sum, i)
    <2> HIDE DEF Step, L
    <2> QED
        BY <1>8
<1>11. \A i \in 1..L : sum[i] \in Nat
    <2>1. ASSUME NEW i \in 1..L, i # 1, sum[i - 1] \in Nat PROVE sum[i] \in Nat
        <3>1. i \in 2..L
            BY <1>1, <2>1
        <3>2. sum[i] = Body(i, sum[i - 1])
            BY <1>10, <2>1, Zenon
        <3> HIDE DEF Body
        <3> QED
            BY <1>2, <2>1, <3>1, <3>2
    <2>2. sum[1] \in Nat
        <3>1. 1 \in 1..L /\ Step(sum, 1) = b
            BY <1>1
        <3> HIDE DEF Step
        <3> QED
            BY <1>4, <1>10, <3>1
    <2>3. L \in Int
        BY <1>1
    <2> HIDE DEF L
    <2> QED
        BY <1>4, <2>1, <2>2, <2>3, AlongRange, Zenon
<1>12. L \in 1..L
    BY <1>1
<1> HIDE DEF L
<1> QED
    BY <1>9, <1>11, <1>12

(* The floor under an average of zero: the band of the structure stop is    *)
(* never empty.                                                             *)
LEMMA AtrIsPositive ==
    ASSUME NEW s \in Seq(Nat \ {0}), Len(s) >= 2
    PROVE  AtrClose(s).num \in Nat \ {0} /\ AtrClose(s).den \in Nat \ {0}
<1>1. Smoothed(s) \in Nat
    BY SmoothedType
<1>2. CASE Smoothed(s) > 0
    <2> DEFINE c == Count(Moves(s))
               w == Power(Lookback, Smoothings(Moves(s)))
    <2>1. Moves(s) \in Nat \ {0} /\ Lookback \in Nat \ {0}
        BY MovesExist, StopAssumption
    <2>2. c \in Nat \ {0} /\ w \in Nat \ {0}
        BY <2>1, CountIsPositive, PowerType
    <2>3. AtrClose(s) = [num |-> Smoothed(s), den |-> c * w]
        BY <1>2 DEF AtrClose, MeanMove
    <2> HIDE DEF c, w
    <2>4. c * w \in Nat \ {0}
        BY <2>2, SMTT(30)
    <2> QED
        BY <1>1, <1>2, <2>3, <2>4
<1>3. CASE ~(Smoothed(s) > 0)
    <2>1. AtrClose(s) = [num |-> 2 * Last(s), den |-> 100]
        BY <1>3 DEF AtrClose
    <2>2. Last(s) \in Nat \ {0}
        <3>1. Len(s) \in 1..Len(s)
            OBVIOUS
        <3> QED
            BY <3>1 DEF Last
    <2> QED
        BY <2>1, <2>2
<1> QED
    BY <1>2, <1>3

(* Nothing in a window is above what bounds the window. *)
LEMMA HighWaterIsBounded ==
    ASSUME NEW s \in Seq(Nat), Len(s) >= 1, NEW h \in Int, \A i \in 1..Len(s) : s[i] <= h
    PROVE  HighWaterClose(s) \in Int /\ HighWaterClose(s) <= h
<1> DEFINE S == {s[i] : i \in 1..Len(s)}
           Below == {h - x : x \in S}
<1>1. S \subseteq Nat /\ \A x \in S : x <= h
    OBVIOUS
<1>2. Below \subseteq Nat
    BY <1>1
<1>3. Below # {}
    <2>1. 1 \in 1..Len(s)
        OBVIOUS
    <2> QED
        BY <2>1
<1>4. PICK least \in Below : \A m \in Below : least <= m
    <2> HIDE DEF Below
    <2> QED
        BY <1>2, <1>3, SmallestN
<1>5. PICK top \in S : least = h - top
    OBVIOUS
<1>6. \A y \in S : top >= y
    <2> SUFFICES ASSUME NEW y \in S PROVE top >= y
        OBVIOUS
    <2>1. h - top <= h - y
        BY <1>4, <1>5
    <2>2. top \in Nat /\ y \in Nat
        BY <1>1
    <2> QED
        BY <2>1, <2>2
<1>7. HighWaterClose(s) = Largest(S)
    BY DEF HighWaterClose
<1> HIDE DEF S
<1>8. Largest(S) \in S
    BY <1>6 DEF Largest
<1>9. Largest(S) \in Nat /\ Largest(S) <= h
    BY <1>1, <1>8
<1> HIDE DEF Largest
<1> QED
    BY <1>7, <1>9

(* The structure stop is under the best price of the window, or under the   *)
(* entry: a price that breaks it is below the best that was seen.           *)
LEMMA StructureMeansBelow ==
    ASSUME NEW s \in Seq(Nat \ {0}), Len(s) >= 2, NEW x \in Nat, NEW h \in Int,
           Entry <= h, \A i \in 1..Len(s) : s[i] <= h, UnderStructure(s, x)
    PROVE  x < h
<1> DEFINE num == AtrClose(s).num
           den == AtrClose(s).den
           top == HighWaterClose(s)
<1>1. num \in Nat \ {0} /\ den \in Nat \ {0}
    BY AtrIsPositive
<1>2. top \in Int /\ top <= h
    BY HighWaterIsBounded
<1>3. x <= Entry - StopPct \/ 100 * den * (top - x) >= AtrMult * num
    BY DEF UnderStructure
<1> HIDE DEF num, den, top
<1>4. CASE x <= Entry - StopPct
    BY <1>4, StopAssumption DEF Entry
<1>5. CASE 100 * den * (top - x) >= AtrMult * num
    <2> SUFFICES ASSUME top <= x PROVE FALSE
        BY <1>2
    <2>1. AtrMult \in Nat \ {0}
        BY StopAssumption
    <2>2. AtrMult * num \in Nat \ {0}
        BY <1>1, <2>1, SMTT(30)
    <2>3. den * (x - top) \in Nat
        <3>1. x - top \in Nat
            BY <1>2
        <3> QED
            BY <1>1, <3>1, ProductOfNaturals
    <2>4. 100 * den * (top - x) = -(100 * (den * (x - top)))
        BY <1>1, <1>2, SMTT(30)
    <2> QED
        BY <1>5, <2>2, <2>3, <2>4
<1> QED
    BY <1>3, <1>4, <1>5

-----------------------------------------------------------------------------
(* Winners *)

(* Whatever is remembered of the market has been seen since the entry. *)
Remembered ==
    /\ Entry <= high /\ peak <= high /\ best <= high
    /\ \A i \in 1..Len(series) : series[i] <= high

(* What is remembered is a number, before and after a step. *)
LEMMA SeenPrices == TypeOK => high \in Nat /\ peak \in Nat /\ mark \in Nat \ {0} /\ best \in Nat
<1> SUFFICES ASSUME TypeOK PROVE high \in Nat /\ peak \in Nat /\ mark \in Nat \ {0} /\ best \in Nat
    OBVIOUS
<1>1. high \in Shows /\ peak \in Shows /\ mark \in Shows /\ best \in Shows \cup {0}
    BY DEF TypeOK
<1> QED
    BY <1>1, PricesArePositive

LEMMA SeenPricesNext == TypeOK' => high' \in Nat /\ peak' \in Nat /\ mark' \in Nat \ {0} /\ best' \in Nat
<1> SUFFICES ASSUME TypeOK' PROVE high' \in Nat /\ peak' \in Nat /\ mark' \in Nat \ {0} /\ best' \in Nat
    OBVIOUS
<1>1. high' \in Shows /\ peak' \in Shows /\ mark' \in Shows /\ best' \in Shows \cup {0}
    BY DEF TypeOK
<1> QED
    BY <1>1, PricesArePositive DEF Shows, Entry

(* A window stays under a bound that its new price is under. *)
LEMMA PushedIsBounded ==
    ASSUME NEW s \in Seq(Shows), Len(s) \in (Slow + 2)..HistorySize,
           NEW x \in Shows, NEW h \in Int, x <= h, \A i \in 1..Len(s) : s[i] <= h,
           NEW i \in 1..Len(Pushed(s, x))
    PROVE  Pushed(s, x)[i] <= h
<1>1. Len(s) \in Nat \ {0} /\ s # << >>
    BY HistoryHoldsSeed, EmptySeq
<1>2. CASE Len(s) = HistorySize
    <2>1. Tail(s) \in Seq(Shows) /\ Len(Tail(s)) = Len(s) - 1 /\ \A j \in 1..(Len(s) - 1) : Tail(s)[j] = s[j + 1]
        BY <1>1
    <2>2. Pushed(s, x) = Append(Tail(s), x)
        BY <1>2 DEF Pushed
    <2>3. Len(Append(Tail(s), x)) = Len(s)
        BY <1>1, <2>1
    <2>4. i \in 1..Len(s)
        BY <2>2, <2>3
    <2>5. CASE i = Len(s)
        BY <1>1, <2>1, <2>2, <2>5
    <2>6. CASE i # Len(s)
        <3>1. i \in 1..(Len(s) - 1) /\ i + 1 \in 1..Len(s)
            BY <1>1, <2>4, <2>6
        <3>2. Pushed(s, x)[i] = s[i + 1]
            BY <1>1, <2>1, <2>2, <3>1
        <3> QED
            BY <3>1, <3>2
    <2> QED
        BY <2>5, <2>6
<1>3. CASE Len(s) # HistorySize
    <2>1. Pushed(s, x) = Append(s, x)
        BY <1>3 DEF Pushed
    <2>2. (i \in 1..Len(s) /\ Pushed(s, x)[i] = s[i]) \/ Pushed(s, x)[i] = x
        BY <1>1, <2>1
    <2> QED
        BY <2>2
<1> QED
    BY <1>2, <1>3

(* An observation leaves the window and the entry under the best price. *)
LEMMA ObserveRemembers ==
    ASSUME TypeOK, Remembered, NEW y \in Shows, Observe(y)
    PROVE  /\ Entry <= high' /\ high <= high' /\ y <= high'
           /\ high' = Higher(high, y)
           /\ \A i \in 1..Len(series') : series'[i] <= high'
<1> DEFINE w == IF series = << >> THEN Seed ELSE series
<1>1. high' = Higher(high, y) /\ series' = Pushed(w, y)
    BY DEF Observe
<1>2. high \in Int /\ y \in Int /\ Entry \in Int
    BY PricesArePositive, SeenPrices
<1>3. high' \in Int /\ Entry <= high' /\ high <= high' /\ y <= high'
    BY <1>1, <1>2, HigherOf DEF Remembered
<1>4. w \in Seq(Shows) /\ Len(w) \in (Slow + 2)..HistorySize
    <2>1. CASE series = << >>
        BY <2>1, SeedType, HistoryHoldsSeed
    <2>2. CASE series # << >>
        <3>1. Len(series) # 0
            BY <2>2, EmptySeq DEF TypeOK
        <3> QED
            BY <2>2, <3>1 DEF TypeOK
    <2> QED
        BY <2>1, <2>2
<1>5. \A i \in 1..Len(w) : w[i] <= high'
    <2>1. CASE series = << >>
        <3>1. \A i \in 1..Len(w) : w[i] = Entry
            BY <2>1, SeedType DEF Seed
        <3> QED
            BY <1>3, <3>1
    <2>2. CASE series # << >>
        <3> SUFFICES ASSUME NEW i \in 1..Len(series) PROVE series[i] <= high'
            BY <2>2
        <3>1. series[i] <= high
            BY DEF Remembered
        <3>2. series[i] \in Int
            <4>1. series \in Seq(Shows)
                BY DEF TypeOK
            <4>2. series[i] \in Shows
                BY <4>1
            <4>3. series[i] \in Nat
                BY <4>2, PricesArePositive, Zenon
            <4> QED
                BY <4>3
        <3> QED
            BY <1>2, <1>3, <3>1, <3>2
    <2> QED
        BY <2>1, <2>2
<1> HIDE DEF w
<1>6. ASSUME NEW i \in 1..Len(series') PROVE series'[i] <= high'
    BY <1>1, <1>3, <1>4, <1>5, <1>6, PushedIsBounded
<1> QED
    BY <1>1, <1>3, <1>6

LEMMA InitRemembered == Init => Remembered
<1> SUFFICES ASSUME Init PROVE Remembered
    OBVIOUS
<1>1. Len(series) = 0 /\ best = 0 /\ high = Entry /\ peak = Entry
    BY EmptySeq DEF Init, Untracked
<1> QED
    BY <1>1 DEF Remembered, Entry

LEMMA NextRemembered == TypeOK /\ Remembered /\ [Next]_vars => Remembered'
<1> SUFFICES ASSUME TypeOK, Remembered, [Next]_vars PROVE Remembered'
    OBVIOUS
<1>1. ASSUME NEW c \in Coins, Consider(c) PROVE Remembered'
    BY <1>1 DEF Consider, Remembered, trackers, history
<1>2. CASE Buy
    BY <1>2 DEF Buy, Remembered, trackers, history
<1>3. ASSUME NEW l \in SwingLots, EnterSwing(l) PROVE Remembered'
    BY <1>3 DEF EnterSwing, Remembered, trackers, history
<1>4. ASSUME NEW x \in Shows, LookSwing(x) PROVE Remembered'
    <2>1. /\ Entry <= high' /\ high <= high' /\ x <= high'
          /\ \A i \in 1..Len(series') : series'[i] <= high'
        BY <1>4, ObserveRemembers DEF LookSwing
    <2>2. best' = Tracked(best, x) /\ peak' = peak
        BY <1>4 DEF LookSwing
    <2>3. {high, high', peak, best, x} \subseteq Int
        BY <1>4, LookSwingType, PricesArePositive, SeenPrices, SeenPricesNext
    <2>4. best' <= high' /\ peak' <= high'
        BY <2>1, <2>2, <2>3 DEF Tracked, Higher, Remembered
    <2> QED
        BY <2>1, <2>4 DEF Remembered
<1>5. ASSUME NEW x \in Shows, NEW y \in Shows, LookSniper(x, y) PROVE Remembered'
    <2>1. /\ Entry <= high' /\ high <= high' /\ y <= high'
          /\ \A i \in 1..Len(series') : series'[i] <= high'
        BY <1>5, ObserveRemembers DEF LookSniper
    <2>2. peak' = Higher(peak, x) /\ best' = best /\ y >= x
        BY <1>5 DEF LookSniper, Probes
    <2>3. {high, high', peak, best, x, y} \subseteq Int
        BY <1>5, LookSniperType, PricesArePositive, SeenPrices, SeenPricesNext
    <2>4. best' <= high' /\ peak' <= high'
        BY <2>1, <2>2, <2>3 DEF Higher, Remembered
    <2> QED
        BY <2>1, <2>4 DEF Remembered
<1>6. ASSUME NEW y \in Shows, PollTick(y) PROVE Remembered'
    <2>1. /\ Entry <= high' /\ high <= high' /\ y <= high'
          /\ \A i \in 1..Len(series') : series'[i] <= high'
        BY <1>6, ObserveRemembers DEF PollTick
    <2>2. peak' = peak /\ best' = best
        BY <1>6 DEF PollTick
    <2>3. {high, high', peak, best} \subseteq Int
        BY <1>6, PollTickType, SeenPrices, SeenPricesNext
    <2> QED
        BY <2>1, <2>2, <2>3 DEF Remembered
<1>7. CASE Restart
    <2>1. Len(series') = 0 /\ best' = 0 /\ UNCHANGED <<peak, high>>
        BY <1>7, EmptySeq DEF Restart, history
    <2>2. high \in Nat
        BY PricesArePositive DEF TypeOK
    <2> QED
        BY <2>1, <2>2 DEF Remembered
<1>8. CASE DeadlinePasses \/ FeedsMove \/ Settle
    BY <1>8 DEF DeadlinePasses, FeedsMove, Settle, Remembered, trackers, history
<1>9. CASE Forget
    <2>1. Len(series') = 0 /\ best' = 0 /\ peak' = Entry /\ high' = Entry
        BY <1>9, EmptySeq DEF Forget
    <2> QED
        BY <2>1 DEF Remembered, Entry
<1>10. CASE UNCHANGED vars
    BY <1>10 DEF vars, Remembered, trackers, history
<1> QED
    BY <1>1, <1>2, <1>3, <1>4, <1>5, <1>6, <1>7, <1>8, <1>9, <1>10 DEF Next, Look, Shows

(* Each rule that is not the trend or the deadline needs a price below one  *)
(* that was seen.  First the giveback: under its own level it is under the  *)
(* peak, and the level that pays the gas back is under it as well when the  *)
(* gas is less than the arming gain.                                        *)
LEMMA GivebackMeansBelow ==
    ASSUME NEW l \in Nat \ {0}, NEW top \in Nat, NEW x \in Nat, Giveback(l, top, x),
           DropPct > 0, 100 * GasTon < ArmPct * l
    PROVE  x < top
<1>1. top >= Entry + ArmPct /\ ArmPct \in Nat /\ DropPct \in 1..99 /\ GasTon \in Nat
    BY CostAssumption DEF Giveback, GasTon
<1>2. CASE 100 * x <= (100 - DropPct) * top
    <2> DEFINE k == 100 - DropPct
    <2>1. k \in Int /\ k <= 99
        BY <1>1
    <2> HIDE DEF k
    <2>2. top * k <= top * 99 /\ top * k = k * top /\ top * k \in Int
        BY <2>1, ProductsAreOrdered, SMTT(30)
    <2>3. 100 * x <= k * top
        BY <1>2 DEF k
    <2>4. 100 * x <= 99 * top
        BY <2>2, <2>3
    <2>5. top >= 100
        BY <1>1 DEF Entry
    <2> QED
        BY <2>4, <2>5
<1>3. CASE l * x <= 100 * (l + GasTon)
    <2> SUFFICES ASSUME top <= x PROVE FALSE
        OBVIOUS
    <2>1. l * (Entry + ArmPct) <= l * x /\ l * x \in Int
        <3>1. Entry + ArmPct <= x /\ Entry + ArmPct \in Int
            BY <1>1 DEF Entry
        <3> DEFINE level == Entry + ArmPct
        <3> HIDE DEF level
        <3>2. level <= x /\ level \in Int
            BY <3>1 DEF level
        <3>3. l * level <= l * x /\ l * x \in Int
            BY <3>2, ProductsAreOrdered
        <3> QED
            BY <3>3 DEF level
    <2>2. l * (Entry + ArmPct) = 100 * l + ArmPct * l /\ ArmPct * l \in Int
        BY <1>1, SMTT(30) DEF Entry
    <2> QED
        BY <1>1, <1>3, <2>1, <2>2
<1> QED
    BY <1>2, <1>3 DEF Giveback

LEMMA DrainMeansBelow ==
    ASSUME NEW l, NEW b \in Nat, NEW x \in Nat, Drained(l, b, x)
    PROVE  x < b
BY DEF Drained, DrainPct

(* The sniper's stop is never narrower than it is configured. *)
LEMMA StopIsNotNarrowed ==
    ASSUME NEW vol \in Int, NEW base \in Int
    PROVE  SniperStop(vol, base) \in Int /\ SniperStop(vol, base) >= StopPct
<1>1. StopPct \in Nat /\ WidenMaxPct \in Nat /\ StopPct <= WidenMaxPct
    BY StopAssumption
<1>2. CASE base <= 0 \/ vol <= base
    BY <1>1, <1>2 DEF SniperStop
<1>3. CASE ~(base <= 0 \/ vol <= base)
    <2> DEFINE p == StopPct * vol
               q == StopPct * base
               widened == p \div base
    <2>1. p \in Int /\ q \in Int /\ q <= p
        BY <1>1, <1>3, ProductsAreOrdered
    <2>2. SniperStop(vol, base) = IF widened < WidenMaxPct THEN widened ELSE WidenMaxPct
        BY <1>3 DEF SniperStop
    <2>3. widened \in Int /\ widened >= StopPct
        <3>1. q = base * StopPct
            BY <1>1
        <3> HIDE DEF p, q
        <3> QED
            BY <1>1, <1>3, <2>1, <3>1, SMTT(30)
    <2> HIDE DEF widened
    <2> QED
        BY <1>1, <2>2, <2>3
<1> QED
    BY <1>2, <1>3

(* A sequence over a set is one over any larger set. *)
LEMMA WiderSequence ==
    ASSUME NEW S, NEW T, S \subseteq T, NEW s \in Seq(S)
    PROVE  s \in Seq(T)
<1>1. Len(s) \in Nat /\ s \in [1..Len(s) -> S]
    OBVIOUS
<1>2. s \in [1..Len(s) -> T]
    BY <1>1
<1> QED
    BY <1>1, <1>2, SeqDef

(* The window after an observation is one that the rules can be asked about. *)
LEMMA WindowIsUsable ==
    ASSUME TypeOK, NEW y \in Shows, Observe(y)
    PROVE  series' \in Seq(Nat \ {0}) /\ Len(series') >= 2
<1>1. series' \in Seq(Shows) /\ Len(series') \in (Slow + 2)..HistorySize
    BY ObservedType DEF TypeOK, Observe
<1>2. Slow + 2 \in Nat /\ Slow + 2 >= 2 /\ HistorySize \in Nat
    BY HistoryHoldsSeed, TrendAssumption
<1>3. series' \in Seq(Nat \ {0})
    BY <1>1, PricesArePositive, WiderSequence
<1> QED
    BY <1>1, <1>2, <1>3

(* A look of the swing monitor that finds the structure broken has seen a   *)
(* better price.                                                            *)
LEMMA BrokenMeansBelow ==
    ASSUME TypeOK, Remembered, NEW x \in Shows, LookSwing(x), streak' > 0
    PROVE  x < high'
<1>1. Observe(x) /\ streak' = IF ~UnderStructure(series', x) THEN 0
                               ELSE IF streak < StopConfirm THEN streak + 1 ELSE streak
    BY DEF LookSwing
<1>2. UnderStructure(series', x)
    BY <1>1
<1>3. series' \in Seq(Nat \ {0}) /\ Len(series') >= 2
    BY <1>1, WindowIsUsable
<1>4. Entry <= high' /\ \A i \in 1..Len(series') : series'[i] <= high'
    BY <1>1, ObserveRemembers
<1>5. high' \in Int /\ x \in Nat
    BY LookSwingType, SeenPricesNext, PricesArePositive
<1> QED
    BY <1>2, <1>3, <1>4, <1>5, StructureMeansBelow

LEMMA LookSwingRides ==
    ASSUME TypeOK, Entered, Remembered, NEW x \in Shows, LookSwing(x)
    PROVE  WinnersRide'
<1> DEFINE why == PolicyExit(SwingFacts(x))
           facts == SwingFacts(x)
<1>1. verdict' = why /\ mark' = x /\ lot \in Nat \ {0} /\ x \in Nat \ {0}
    BY PricesArePositive DEF LookSwing, Ends, TypeOK, Entered
<1>2. /\ facts.rug = Drained(lot, best', x) /\ facts.streak = streak' /\ facts.under = (streak' > 0)
      /\ facts.mark = x /\ facts.lot = lot
    BY DEF SwingFacts
<1>3. best' \in Nat /\ high' \in Nat /\ best' <= high' /\ Entry <= high'
    <2>1. TypeOK' /\ Remembered'
        BY LookSwingType, NextRemembered DEF Next, Look, Shows
    <2> QED
        BY <2>1, SeenPricesNext DEF Remembered
<1>4. why \in {"none", "time_exit", "trend_exit", "emergency_exit", "stop_loss", "structure_stop"}
    BY DEF PolicyExit
<1>5. why = "emergency_exit" => x < high'
    <2>1. why = "emergency_exit" => facts.rug
        BY DEF PolicyExit
    <2>2. facts.rug => x < best'
        BY <1>1, <1>2, <1>3, DrainMeansBelow
    <2> HIDE DEF why
    <2> QED
        BY <1>1, <1>3, <2>1, <2>2
<1>6. why = "stop_loss" => x < high'
    <2>1. why = "stop_loss" => 100 * (Entry - facts.mark) >= StopBp(facts.lot)
        BY DEF PolicyExit
    <2> HIDE DEF why, facts
    <2>2. why = "stop_loss" => 100 * (Entry - x) >= StopBp(lot)
        BY <1>2, <2>1
    <2>3. StopBp(lot) \in Int /\ StopBp(lot) > 0
        BY <1>1, StopUnderEntry
    <2> QED
        BY <1>1, <1>3, <2>2, <2>3 DEF Entry
<1>7. why = "structure_stop" => x < high'
    <2>1. why = "structure_stop" => facts.under
        BY DEF PolicyExit
    <2> QED
        BY <1>2, <2>1, BrokenMeansBelow
<1> HIDE DEF why
<1> QED
    BY <1>1, <1>4, <1>5, <1>6, <1>7 DEF WinnersRide

LEMMA LookSniperRides ==
    ASSUME DropPct > 0, TypeOK, Entered, Remembered, NEW x \in Shows, NEW y \in Shows, LookSniper(x, y)
    PROVE  WinnersRide'
<1> DEFINE why == SniperExit(SniperFacts(x), WidenedStop)
           facts == SniperFacts(x)
<1>1. verdict' = why /\ mark' = x /\ lot' = lot /\ lot \in Nat \ {0} /\ x \in Nat \ {0} /\ Observe(y)
    BY PricesArePositive DEF LookSniper, Ends, TypeOK, Entered
<1>2. facts.lot = lot /\ facts.mark = x /\ facts.peak = peak'
    BY DEF SniperFacts
<1>3. peak' \in Nat /\ high' \in Nat /\ peak' <= high' /\ Entry <= high'
    <2>1. TypeOK' /\ Remembered'
        BY LookSniperType, NextRemembered DEF Next, Look, Shows
    <2> QED
        BY <2>1, SeenPricesNext DEF Remembered
<1>4. why \in {"none", "time_exit", "trend_exit", "giveback_exit", "stop_loss"}
    BY DEF SniperExit
<1>5. why = "giveback_exit" /\ 100 * GasTon < ArmPct * lot => x < high'
    <2>1. why = "giveback_exit" => Giveback(facts.lot, facts.peak, facts.mark)
        BY DEF SniperExit
    <2> HIDE DEF why, facts
    <2>2. why = "giveback_exit" => Giveback(lot, peak', x)
        BY <1>2, <2>1
    <2>3. why = "giveback_exit" /\ 100 * GasTon < ArmPct * lot => x < peak'
        BY <1>1, <1>3, <2>2, GivebackMeansBelow
    <2> QED
        BY <1>1, <1>3, <2>3
<1>6. why = "stop_loss" => x < high'
    <2>1. why = "stop_loss" => Entry - facts.mark >= WidenedStop
        BY DEF SniperExit
    <2>2. WidenedStop \in Int /\ WidenedStop >= StopPct
        BY <1>1, WidenedIsNumber, StopIsNotNarrowed DEF WidenedStop
    <2> HIDE DEF why, facts
    <2> QED
        BY <1>1, <1>2, <1>3, <2>1, <2>2, StopAssumption DEF Entry
<1> HIDE DEF why
<1> QED
    BY <1>1, <1>4, <1>5, <1>6 DEF WinnersRide

LEMMA NextWinners ==
    DropPct > 0 /\ TypeOK /\ Entered /\ Remembered /\ WinnersRide /\ [Next]_vars => WinnersRide'
<1> SUFFICES ASSUME DropPct > 0, TypeOK, Entered, Remembered, WinnersRide, [Next]_vars PROVE WinnersRide'
    OBVIOUS
<1>1. ASSUME NEW c \in Coins, Consider(c) PROVE WinnersRide'
    BY <1>1 DEF Consider, Entered, WinnersRide, history
<1>2. CASE Buy
    BY <1>2 DEF Buy, Entered, WinnersRide, history
<1>3. ASSUME NEW l \in SwingLots, EnterSwing(l) PROVE WinnersRide'
    BY <1>3 DEF EnterSwing, Entered, WinnersRide, history
<1>4. CASE Look
    BY <1>4, LookSwingRides, LookSniperRides DEF Look, Shows
<1>5. ASSUME NEW y \in Shows, PollTick(y) PROVE WinnersRide'
    BY <1>5 DEF PollTick, Entered, WinnersRide
<1>6. CASE Restart \/ DeadlinePasses \/ FeedsMove \/ Settle
    BY <1>6 DEF Restart, DeadlinePasses, FeedsMove, Settle, WinnersRide, history
<1>7. CASE Forget
    BY <1>7 DEF Forget, WinnersRide
<1>8. CASE UNCHANGED vars
    BY <1>8 DEF vars, WinnersRide, history
<1> QED
    BY <1>1, <1>2, <1>3, <1>4, <1>5, <1>6, <1>7, <1>8 DEF Next, Shows

(* Only a fall ends a position that the trend and the deadline leave alone: *)
(* at a new high no stop, no drain, no structure and no giveback closes it, *)
(* through restarts and polls.  A giveback drop of zero, which the          *)
(* configuration accepts, closes a winner at its peak: that is the          *)
(* hypothesis.                                                              *)
THEOREM WinnersAreHeld == DropPct > 0 => (Spec => []WinnersRide)
<1> SUFFICES ASSUME DropPct > 0 PROVE Spec => []WinnersRide
    OBVIOUS
<1>1. Init => WinnersRide
    BY DEF Init, WinnersRide
<1>2. TypeOK /\ Entered /\ Remembered /\ WinnersRide /\ [Next]_vars => WinnersRide'
    BY NextWinners
<1> QED
    BY <1>1, <1>2, InitTypeOK, NextTypeOK, InitEntered, NextEntered, InitRemembered, NextRemembered, PTL DEF Spec

-----------------------------------------------------------------------------
(* Wicks *)

(* The trend's confirmations are at most the observations in a row whose    *)
(* window holds a fall, and the breaks of the structure in a row at most    *)
(* the looks in a row under the best price; the sniper counts no breaks.    *)
Ridden ==
    /\ mode = "sniper" => streak = 0
    /\ shaken >= Confirm \/ conf <= shaken
    /\ looksBelow >= StopConfirm \/ streak <= looksBelow

(* An observation that adds a confirmation adds a shaken one. *)
LEMMA ObserveRides ==
    ASSUME Fast <= Slow, TypeOK, Ridden, NEW y \in Shows, Observe(y)
    PROVE  shaken' >= Confirm \/ conf' <= shaken'
<1>1. /\ conf \in Nat /\ shaken \in 0..Confirm /\ Confirm \in Nat \ {0}
    BY TrendAssumption DEF TypeOK
<1>2. CASE Bearish(series')
    <2>1. series' \in Seq(Nat)
        <3>1. series' \in Seq(Nat \ {0}) /\ Nat \ {0} \subseteq Nat
            BY WindowIsUsable
        <3> QED
            BY <3>1, WiderSequence
    <2>2. Falls(series')
        BY <1>2, <2>1, RisingIsNotBearish
    <2>3. shaken' = IF shaken < Confirm THEN shaken + 1 ELSE shaken
        BY <2>2 DEF Observe
    <2>4. conf' \in {conf, conf + 1}
        BY <1>2 DEF Observe, Counted
    <2> QED
        BY <1>1, <2>3, <2>4 DEF Ridden
<1>3. CASE ~Bearish(series')
    <2>1. conf' = 0
        BY <1>3 DEF Observe, Counted
    <2>2. shaken' \in Nat
        BY <1>1 DEF Observe
    <2> QED
        BY <2>1, <2>2
<1> QED
    BY <1>2, <1>3

(* A look that adds a break of the structure is one below the best price. *)
LEMMA LookSwingStreak ==
    ASSUME TypeOK, Remembered, Ridden, NEW x \in Shows, LookSwing(x)
    PROVE  looksBelow' >= StopConfirm \/ streak' <= looksBelow'
<1>1. /\ streak \in 0..StopConfirm /\ looksBelow \in 0..StopConfirm /\ StopConfirm \in Nat \ {0}
      /\ high \in Nat /\ x \in Nat
    BY StopAssumption, SeenPrices, PricesArePositive DEF TypeOK
<1>2. /\ looksBelow' = IF x >= high THEN 0 ELSE IF looksBelow < StopConfirm THEN looksBelow + 1 ELSE looksBelow
      /\ high' = Higher(high, x)
      /\ streak' = 0 \/ streak' = streak \/ streak' = streak + 1
    BY DEF LookSwing, Ends, Observe
<1>3. streak' > 0 => x < high
    <2>1. streak' > 0 => x < high'
        BY BrokenMeansBelow
    <2> QED
        BY <1>1, <1>2, <2>1 DEF Higher
<1>4. streak' \in Nat
    BY <1>1, <1>2
<1>5. CASE streak' = 0
    BY <1>1, <1>2, <1>5
<1>6. CASE streak' > 0
    <2>1. looksBelow' = IF looksBelow < StopConfirm THEN looksBelow + 1 ELSE looksBelow
        BY <1>1, <1>2, <1>3, <1>6
    <2> QED
        BY <1>1, <1>2, <2>1 DEF Ridden
<1> QED
    BY <1>4, <1>5, <1>6

LEMMA NextRidden ==
    Fast <= Slow /\ TypeOK /\ Remembered /\ Ridden /\ [Next]_vars => Ridden'
<1> SUFFICES ASSUME Fast <= Slow, TypeOK, Remembered, Ridden, [Next]_vars PROVE Ridden'
    OBVIOUS
<1>1. ASSUME NEW c \in Coins, Consider(c) PROVE Ridden'
    BY <1>1 DEF Consider, Ridden, trackers, history
<1>2. CASE Buy
    BY <1>2 DEF Buy, Ridden, trackers, history
<1>3. ASSUME NEW l \in SwingLots, EnterSwing(l) PROVE Ridden'
    BY <1>3 DEF EnterSwing, Ridden, trackers, history
<1>4. ASSUME NEW x \in Shows, LookSwing(x) PROVE Ridden'
    <2>1. shaken' >= Confirm \/ conf' <= shaken'
        BY <1>4, ObserveRides DEF LookSwing
    <2>2. looksBelow' >= StopConfirm \/ streak' <= looksBelow'
        BY <1>4, LookSwingStreak
    <2>3. mode' = "swing"
        BY <1>4 DEF LookSwing
    <2> QED
        BY <2>1, <2>2, <2>3 DEF Ridden
<1>5. ASSUME NEW x \in Shows, NEW y \in Shows, LookSniper(x, y) PROVE Ridden'
    <2>1. shaken' >= Confirm \/ conf' <= shaken'
        BY <1>5, ObserveRides DEF LookSniper
    <2>2. streak' = 0 /\ looksBelow' \in Nat
        <3>1. TypeOK' /\ mode = "sniper" /\ streak' = streak
            BY <1>5, LookSniperType DEF LookSniper
        <3> QED
            BY <3>1 DEF TypeOK, Ridden
    <2> QED
        BY <2>1, <2>2 DEF Ridden
<1>6. ASSUME NEW y \in Shows, PollTick(y) PROVE Ridden'
    <2>1. shaken' >= Confirm \/ conf' <= shaken'
        BY <1>6, ObserveRides DEF PollTick
    <2>2. UNCHANGED <<mode, streak, looksBelow>>
        BY <1>6 DEF PollTick
    <2> QED
        BY <2>1, <2>2 DEF Ridden
<1>7. CASE Restart \/ Forget
    <2>1. TypeOK' /\ conf' = 0 /\ streak' = 0
        BY <1>7, NextTypeOK DEF Restart, Forget
    <2> QED
        BY <2>1 DEF TypeOK, Ridden
<1>8. CASE DeadlinePasses \/ FeedsMove \/ Settle
    BY <1>8 DEF DeadlinePasses, FeedsMove, Settle, Ridden, trackers, history
<1>9. CASE UNCHANGED vars
    BY <1>9 DEF vars, Ridden, trackers, history
<1> QED
    BY <1>1, <1>2, <1>3, <1>4, <1>5, <1>6, <1>7, <1>8, <1>9 DEF Next, Look, Shows

LEMMA InitRidden == Init => Ridden
BY DEF Init, Untracked, Ridden

(* A trend exit has had its confirmations, all of them on windows that held *)
(* a fall; a structure stop its looks below the best price.                 *)
LEMMA NextWicks ==
    Fast <= Slow /\ TypeOK /\ Entered /\ Remembered /\ Ridden /\ WicksAreRidden /\ [Next]_vars
        => WicksAreRidden'
<1> SUFFICES ASSUME Fast <= Slow, TypeOK, Entered, Remembered, Ridden, WicksAreRidden, [Next]_vars
             PROVE  WicksAreRidden'
    OBVIOUS
<1>1. ASSUME NEW c \in Coins, Consider(c) PROVE WicksAreRidden'
    BY <1>1 DEF Consider, WicksAreRidden, history
<1>2. CASE Buy
    BY <1>2 DEF Buy, WicksAreRidden, history
<1>3. ASSUME NEW l \in SwingLots, EnterSwing(l) PROVE WicksAreRidden'
    BY <1>3 DEF EnterSwing, WicksAreRidden, history
<1>4. ASSUME NEW x \in Shows, LookSwing(x) PROVE WicksAreRidden'
    <2> DEFINE facts == SwingFacts(x)
    <2>1. verdict' = PolicyExit(facts)
        BY <1>4 DEF LookSwing, Ends
    <2>2. /\ facts.flip => conf' >= Confirm
          /\ facts.streak = streak'
        BY DEF SwingFacts, Confirmed
    <2>3. /\ PolicyExit(facts) = "trend_exit" => facts.flip
          /\ PolicyExit(facts) = "structure_stop" => facts.streak >= StopConfirm
        BY DEF PolicyExit
    <2>4. /\ shaken' >= Confirm \/ conf' <= shaken'
          /\ looksBelow' >= StopConfirm \/ streak' <= looksBelow'
        BY <1>4, LookSwingStreak, ObserveRides DEF LookSwing
    <2>5. TypeOK'
        BY <1>4, LookSwingType
    <2>6. {conf', shaken', streak', looksBelow', Confirm, StopConfirm} \subseteq Int
        BY <2>5, TrendAssumption, StopAssumption DEF TypeOK
    <2> HIDE DEF facts
    <2> QED
        BY <2>1, <2>2, <2>3, <2>4, <2>6 DEF WicksAreRidden
<1>5. ASSUME NEW x \in Shows, NEW y \in Shows, LookSniper(x, y) PROVE WicksAreRidden'
    <2> DEFINE facts == SniperFacts(x)
               why == SniperExit(facts, WidenedStop)
    <2>1. verdict' = why
        BY <1>5 DEF LookSniper, Ends
    <2>2. facts.flip => conf' >= Confirm
        BY DEF SniperFacts, Confirmed
    <2>3. (why = "trend_exit" => facts.flip) /\ why # "structure_stop"
        BY DEF SniperExit
    <2>4. shaken' >= Confirm \/ conf' <= shaken'
        BY <1>5, ObserveRides DEF LookSniper
    <2>5. TypeOK'
        BY <1>5, LookSniperType
    <2>6. {conf', shaken', Confirm} \subseteq Int
        BY <2>5, TrendAssumption DEF TypeOK
    <2> HIDE DEF facts, why
    <2> QED
        BY <2>1, <2>2, <2>3, <2>4, <2>6 DEF WicksAreRidden
<1>6. ASSUME NEW y \in Shows, PollTick(y) PROVE WicksAreRidden'
    <2>1. verdict' = "none"
        BY <1>6 DEF PollTick, Entered
    <2> QED
        BY <2>1 DEF WicksAreRidden
<1>7. CASE Restart \/ DeadlinePasses \/ FeedsMove \/ Settle
    BY <1>7 DEF Restart, DeadlinePasses, FeedsMove, Settle, WicksAreRidden, history
<1>8. CASE Forget
    BY <1>8 DEF Forget, WicksAreRidden
<1>9. CASE UNCHANGED vars
    BY <1>9 DEF vars, WicksAreRidden, history
<1> QED
    BY <1>1, <1>2, <1>3, <1>4, <1>5, <1>6, <1>7, <1>8, <1>9 DEF Next, Look, Shows

(* One wick closes nothing: with a fast average that is not the longer one, *)
(* no confirmation is ever counted on a window of prices that only rose, so *)
(* a trend exit has seen as many shaken observations in a row as it asks    *)
(* for; the structure stop has seen its looks below the best price.  A fast *)
(* average longer than the slow one, which the configuration accepts, turns *)
(* the signal around: that is the hypothesis.                               *)
THEOREM WicksRidden == Fast <= Slow => (Spec => []WicksAreRidden)
<1> SUFFICES ASSUME Fast <= Slow PROVE Spec => []WicksAreRidden
    OBVIOUS
<1>1. Init => WicksAreRidden
    BY DEF Init, WicksAreRidden
<1>2. TypeOK /\ Remembered /\ Ridden /\ [Next]_vars => Ridden'
    BY NextRidden
<1>3. TypeOK /\ Entered /\ Remembered /\ Ridden /\ WicksAreRidden /\ [Next]_vars => WicksAreRidden'
    BY NextWicks
<1> QED
    BY <1>1, <1>2, <1>3, InitTypeOK, NextTypeOK, InitEntered, NextEntered,
       InitRemembered, NextRemembered, InitRidden, PTL DEF Spec

=============================================================================
