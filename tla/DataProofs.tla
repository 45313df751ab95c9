----------------------------- MODULE DataProofs -----------------------------
(***************************************************************************)
(* Proofs about the units that go over data in loops: the packet parser,   *)
(* the numbers of print, and the options of telnet, each as a part of      *)
(* UnitsSpec.  What a loop computes is a recursive function of the model;  *)
(* that it has a value, and what holds of it at the end, is an induction   *)
(* over the numbers below the length of the data.                          *)
(***************************************************************************)
EXTENDS Units, TLAPS, SequenceTheorems, WellFoundedInduction

\* A set of natural numbers has a least element.
LEMMA Least ==
    ASSUME NEW set, set \subseteq Nat, set # {}
    PROVE  \E x \in set : \A y \in set : x <= y
<1> DEFINE R == {ss \in Nat \X Nat : ss[1] < ss[2]}
<1>1. IsWellFoundedOn(R, Nat)
    BY NatLessThanWellFounded, Zenon DEF OpToRel
<1>2. \A x, y \in Nat : y < x => <<y, x>> \in R
    OBVIOUS
<1> HIDE DEF R
<1>3. \E x \in set : \A y \in set : ~ (<<y, x>> \in R)
    BY <1>1, WFMin, Zenon
<1>4. \E x \in set : \A y \in set : ~(y < x)
    BY <1>2, <1>3, Zenon
<1> QED
    BY <1>4

-----------------------------------------------------------------------------
(* Loops over data: they have a result, and what holds after each round    *)
(* holds at the end.                                                       *)

\* Induction over the natural numbers, for a set of them.
LEMMA Induct ==
    ASSUME NEW set, 0 \in set, \A n \in Nat : n \in set => n + 1 \in set
    PROVE  \A n \in Nat : n \in set
<1> SUFFICES ASSUME NEW m \in Nat, m \notin set PROVE FALSE
    OBVIOUS
<1> DEFINE rest == Nat \ set
<1>1. rest # {} /\ rest \subseteq Nat
    OBVIOUS
<1>2. PICK x \in rest : \A y \in rest : x <= y
    <2> HIDE DEF rest
    <2> QED
        BY <1>1, Least
<1>3. x \in Nat \ {0} /\ x \notin set
    BY <1>2
<1>4. x - 1 \in Nat /\ ~(x - 1 \in rest)
    BY <1>2, <1>3
<1> QED
    BY <1>3, <1>4

\* What a loop computes, from a, with F[k] the k-th time round.
Loops(S, a, n, F) == {f \in [0..n -> S] : f[0] = a /\ \A k \in 1..n : f[k] = F[k][f[k - 1]]}

\* A loop from 1 to n, each time from the value before and the counter, has a result.
LEMMA Loop ==
    ASSUME NEW S, NEW a \in S, NEW n \in Nat, NEW F \in [1..n -> [S -> S]]
    PROVE  Loops(S, a, n, F) # {}
<1> DEFINE Upto(m) == {f \in [0..m -> S] : \A k \in 0..m : f[k] = IF k = 0 THEN a ELSE F[k][f[k - 1]]}
           set == {m \in Nat : m > n \/ Upto(m) # {}}
<1>1. 0 \in set
    <2>1. [k \in 0..0 |-> a] \in Upto(0)
        OBVIOUS
    <2> QED
        BY <2>1
<1>2. ASSUME NEW m \in Nat, m \in set PROVE m + 1 \in set
    <2>1. CASE m + 1 > n
        BY <2>1
    <2>2. CASE m + 1 <= n
        <3>1. PICK f \in [0..m -> S] : \A k \in 0..m : f[k] = IF k = 0 THEN a ELSE F[k][f[k - 1]]
            BY <1>2, <2>2
        <3> DEFINE g == [k \in 0..(m + 1) |-> IF k <= m THEN f[k] ELSE F[m + 1][f[m]]]
        <3>2. F[m + 1][f[m]] \in S
            BY <2>2, <3>1
        <3>3. g \in [0..(m + 1) -> S]
            BY <3>1, <3>2
        <3>4. \A k \in 0..(m + 1) : g[k] = IF k = 0 THEN a ELSE F[k][g[k - 1]]
            <4> SUFFICES ASSUME NEW k \in 0..(m + 1)
                         PROVE  g[k] = IF k = 0 THEN a ELSE F[k][g[k - 1]]
                OBVIOUS
            <4>1. CASE k <= m
                <5>1. g[k] = f[k] /\ k \in 0..m /\ (k # 0 => g[k - 1] = f[k - 1])
                    BY <4>1
                <5> HIDE DEF g
                <5> QED
                    BY <3>1, <5>1
            <4>2. CASE k = m + 1
                <5>1. g[k] = F[m + 1][f[m]] /\ k # 0 /\ k - 1 = m /\ g[m] = f[m]
                    BY <4>2
                <5> HIDE DEF g
                <5> QED
                    BY <4>2, <5>1
            <4> QED
                BY <4>1, <4>2
        <3>5. g \in Upto(m + 1)
            BY <3>3, <3>4
        <3> HIDE DEF Upto
        <3> QED
            BY <3>5
    <2> QED
        BY <2>1, <2>2
<1>3. n \in set
    <2> HIDE DEF set
    <2> QED
        BY <1>1, <1>2, Induct
<1>4. PICK f \in [0..n -> S] : \A k \in 0..n : f[k] = IF k = 0 THEN a ELSE F[k][f[k - 1]]
    BY <1>3
<1>5. \A k \in 1..n : k \in 0..n /\ k # 0
    OBVIOUS
<1> QED
    BY <1>4, <1>5 DEF Loops

-----------------------------------------------------------------------------
(* The answers of the Ethernet boot loader: first the checksum.            *)

\* A sum is that of the numbers before each place.
LEMMA PrefixTotals ==
    ASSUME NEW s \in Seq(Nat)
    PROVE  /\ K!Totals(s) \in [0..Len(s) -> Nat]
           /\ K!Totals(s)[0] = 0
           /\ \A n \in Nat : n + 1 \in 1..Len(s) => K!Totals(s)[n + 1] = K!Totals(s)[n] + s[n + 1]
<1> DEFINE Sums(f) == f = [k \in 0..Len(s) |-> IF k = 0 THEN 0 ELSE f[k - 1] + s[k]]
<1>1. PICK n \in Nat : n = Len(s)
    OBVIOUS
<1>2. PICK F \in [1..n -> [Nat -> Nat]] : \A m \in Nat, k \in 1..n : F[k][m] = m + s[k]
    <2> DEFINE G == [k \in 1..n |-> [m \in Nat |-> m + s[k]]]
    <2>1. G \in [1..n -> [Nat -> Nat]] /\ \A m \in Nat, k \in 1..n : G[k][m] = m + s[k]
        BY <1>1
    <2> QED
        BY <2>1
<1>3. PICK f : f \in Loops(Nat, 0, n, F)
    <2>1. Loops(Nat, 0, n, F) # {}
        BY Loop
    <2> QED
        BY <2>1
<1>10. f \in [0..n -> Nat] /\ f[0] = 0 /\ \A k \in 1..n : f[k] = F[k][f[k - 1]]
    BY <1>3 DEF Loops
<1>9. Sums(f)
    <2>1. ASSUME NEW k \in 1..n PROVE f[k] = f[k - 1] + s[k]
        <3>1. k - 1 \in 0..n /\ f[k] = F[k][f[k - 1]]
            <4>1. k - 1 \in 0..n
                OBVIOUS
            <4> QED
                BY <1>10, <4>1
        <3>2. f[k - 1] \in Nat
            BY <1>10, <3>1
        <3> QED
            BY <1>2, <3>1, <3>2
    <2>2. ASSUME NEW k \in 0..n PROVE f[k] = IF k = 0 THEN 0 ELSE f[k - 1] + s[k]
        <3>1. CASE k = 0
            BY <1>10, <3>1
        <3>2. CASE k # 0
            <4>1. k \in 1..n
                BY <3>2
            <4> QED
                BY <2>1, <3>2, <4>1
        <3> QED
            BY <3>1, <3>2
    <2>3. f = [k \in 0..n |-> f[k]]
        BY <1>10
    <2> QED
        BY <1>1, <2>2, <2>3
<1>4. K!Totals(s) = CHOOSE g : Sums(g)
    BY DEF K!Totals
<1>5. Sums(K!Totals(s))
    <2> HIDE DEF Sums
    <2> QED
        BY <1>4, <1>9
<1>6. \A k \in 0..Len(s) : K!Totals(s)[k] = IF k = 0 THEN 0 ELSE K!Totals(s)[k - 1] + s[k]
    BY <1>5
<1>7. DOMAIN K!Totals(s) = 0..Len(s)
    BY <1>5
<1>8. \A k \in 0..Len(s) : K!Totals(s)[k] \in Nat
    <2> DEFINE set == {k \in Nat : k > Len(s) \/ K!Totals(s)[k] \in Nat}
    <2>1. 0 \in set
        BY <1>1, <1>6
    <2>2. ASSUME NEW m \in Nat, m \in set PROVE m + 1 \in set
        <3>1. CASE m + 1 > Len(s)
            BY <3>1
        <3>2. CASE m + 1 <= Len(s)
            <4>1. m + 1 \in 0..Len(s) /\ m + 1 # 0 /\ (m + 1) - 1 = m /\ K!Totals(s)[m] \in Nat
                BY <1>1, <2>2, <3>2
            <4>2. K!Totals(s)[m + 1] = K!Totals(s)[m] + s[m + 1]
                BY <1>6, <4>1
            <4>3. s[m + 1] \in Nat
                BY <1>1, <3>2
            <4> QED
                BY <4>1, <4>2, <4>3
        <3> QED
            BY <1>1, <3>1, <3>2
    <2>3. \A m \in Nat : m \in set
        <3> HIDE DEF set
        <3> QED
            BY <2>1, <2>2, Induct
    <2> QED
        BY <2>3
<1>14. K!Totals(s) = [k \in 0..Len(s) |-> K!Totals(s)[k]]
    BY <1>5
<1>11. K!Totals(s) \in [0..Len(s) -> Nat]
    BY <1>8, <1>14
<1>12. \A m \in Nat : m + 1 \in 1..Len(s) => m + 1 \in 0..Len(s) /\ m + 1 # 0 /\ (m + 1) - 1 = m
    OBVIOUS
<1>13. 0 \in 0..Len(s)
    BY <1>1
<1> QED
    BY <1>6, <1>11, <1>12, <1>13

LEMMA TotalTypes == ASSUME NEW s \in Seq(Nat) PROVE K!Total(s) \in Nat
BY PrefixTotals DEF K!Total

\* No more than so many times the largest.
LEMMA TotalBound ==
    ASSUME NEW s \in Seq(Nat), NEW b \in Nat, \A k \in 1..Len(s) : s[k] <= b
    PROVE  K!Total(s) <= b * Len(s)
<1> DEFINE R == K!Totals(s)
           set == {n \in Nat : n <= Len(s) => R[n] <= b * n}
<1>1. R \in [0..Len(s) -> Nat] /\ R[0] = 0 /\ \A n \in Nat : n + 1 \in 1..Len(s) => R[n + 1] = R[n] + s[n + 1]
    BY PrefixTotals
<1> HIDE DEF R
<1>2. Len(s) \in Nat
    OBVIOUS
<1>3. 0 \in set
    BY <1>1, <1>2
<1>4. ASSUME NEW n \in Nat, n \in set PROVE n + 1 \in set
    <2>1. CASE ~(n + 1 <= Len(s))
        BY <2>1
    <2>2. CASE n + 1 <= Len(s)
        <3>1. n \in 0..Len(s) /\ n + 1 \in 1..Len(s) /\ R[n] <= b * n
            BY <1>2, <1>4, <2>2
        <3>2. R[n + 1] = R[n] + s[n + 1] /\ s[n + 1] <= b /\ s[n + 1] \in Nat /\ R[n] \in Nat
            BY <1>1, <3>1
        <3>3. PICK q \in Nat : q = b * n /\ b * (n + 1) = q + b
            <4>1. b * (n + 1) = b * n + b /\ b * n \in Nat
                OBVIOUS
            <4> QED
                BY ONLY <4>1
        <3>4. R[n + 1] <= b * (n + 1)
            BY ONLY <3>1, <3>2, <3>3, b \in Nat
        <3> QED
            BY <3>4
    <2> QED
        BY <2>1, <2>2
<1>5. Len(s) \in set
    <2> HIDE DEF set
    <2> QED
        BY <1>2, <1>3, <1>4, Induct
<1> QED
    BY <1>5 DEF R, K!Total

\* Something more in one place.
LEMMA TotalMore ==
    ASSUME NEW s \in Seq(Nat), NEW t \in Seq(Nat), Len(s) = Len(t), NEW c \in Nat,
           NEW i \in 1..Len(s), t[i] = s[i] + c, \A k \in 1..Len(s) : k # i => t[k] = s[k]
    PROVE  K!Total(t) = K!Total(s) + c
<1> DEFINE S == K!Totals(s)
           R == K!Totals(t)
           set == {n \in Nat : n <= Len(s) => R[n] = IF n < i THEN S[n] ELSE S[n] + c}
<1>1. S \in [0..Len(s) -> Nat] /\ S[0] = 0 /\ \A n \in Nat : n + 1 \in 1..Len(s) => S[n + 1] = S[n] + s[n + 1]
    BY PrefixTotals
<1>2. R \in [0..Len(s) -> Nat] /\ R[0] = 0 /\ \A n \in Nat : n + 1 \in 1..Len(s) => R[n + 1] = R[n] + t[n + 1]
    BY PrefixTotals
<1> HIDE DEF S, R
<1>3. Len(s) \in Nat /\ i \in Nat /\ i >= 1 /\ i <= Len(s)
    OBVIOUS
<1>4. 0 \in set
    BY <1>1, <1>2, <1>3
<1>5. ASSUME NEW n \in Nat, n \in set PROVE n + 1 \in set
    <2>1. CASE ~(n + 1 <= Len(s))
        BY <2>1
    <2>2. CASE n + 1 <= Len(s)
        <3>1. n \in 0..Len(s) /\ n + 1 \in 1..Len(s)
              /\ R[n] = IF n < i THEN S[n] ELSE S[n] + c
            BY <1>3, <1>5, <2>2
        <3>2. R[n + 1] = R[n] + t[n + 1] /\ S[n + 1] = S[n] + s[n + 1]
            BY <1>1, <1>2, <3>1
        <3>3. S[n] \in Nat /\ R[n] \in Nat /\ s[n + 1] \in Nat /\ t[n + 1] \in Nat
            <4>1. S[n] \in Nat /\ R[n] \in Nat
                BY <1>1, <1>2, <3>1
            <4>2. s[n + 1] \in Nat /\ t[n + 1] \in Nat
                <5>1. n + 1 \in 1..Len(s) /\ n + 1 \in 1..Len(t)
                    BY <3>1
                <5> QED
                    BY <5>1
            <4> QED
                BY <4>1, <4>2
        <3>4. t[n + 1] = IF n + 1 = i THEN s[n + 1] + c ELSE s[n + 1]
            BY <3>1
        <3>5. R[n + 1] = IF n + 1 < i THEN S[n + 1] ELSE S[n + 1] + c
            <4>1. CASE n + 1 < i
                BY <1>3, <3>1, <3>2, <3>4, <4>1
            <4>2. CASE n + 1 = i
                <5>1. R[n] = S[n] /\ t[n + 1] = s[n + 1] + c
                    BY <1>3, <3>1, <3>4, <4>2
                <5>2. ~(n + 1 < i)
                    BY <1>3, <4>2
                <5>3. R[n + 1] = S[n] + (s[n + 1] + c) /\ S[n + 1] = S[n] + s[n + 1]
                    BY <3>2, <5>1
                <5>4. R[n + 1] = S[n + 1] + c
                    <6>1. PICK x \in Nat, y \in Nat : x = S[n] /\ y = s[n + 1]
                        BY <3>3
                    <6>2. x + (y + c) = (x + y) + c
                        OBVIOUS
                    <6> QED
                        BY <5>3, <6>1, <6>2
                <5> QED
                    BY <5>2, <5>4
            <4>3. CASE n + 1 > i
                <5>1. R[n] = S[n] + c /\ t[n + 1] = s[n + 1]
                    BY <1>3, <3>1, <3>4, <4>3
                <5>2. ~(n + 1 < i)
                    BY <1>3, <4>3
                <5>3. R[n + 1] = (S[n] + c) + s[n + 1] /\ S[n + 1] = S[n] + s[n + 1]
                    BY <3>2, <5>1
                <5>4. PICK x \in Nat, y \in Nat : x = S[n] /\ y = s[n + 1]
                    BY <3>3
                <5>5. (x + c) + y = (x + y) + c
                    OBVIOUS
                <5> QED
                    BY <5>2, <5>3, <5>4, <5>5
            <4> QED
                BY <1>3, <4>1, <4>2, <4>3
        <3> QED
            BY <3>5
    <2> QED
        BY <2>1, <2>2
<1>6. Len(s) \in set
    <2> HIDE DEF set
    <2> QED
        BY <1>3, <1>4, <1>5, Induct
<1> QED
    BY <1>3, <1>6 DEF S, R, K!Total

\* Two by two.
LEMMA TotalPairs ==
    ASSUME NEW s \in Seq(Nat), NEW w \in Seq(Nat), Len(s) = 2 * Len(w) \/ Len(s) = 2 * Len(w) - 1,
           \A k \in 1..Len(w) : w[k] = s[2 * k - 1] + IF 2 * k <= Len(s) THEN s[2 * k] ELSE 0
    PROVE  K!Total(s) = K!Total(w)
<1> DEFINE S == K!Totals(s)
           W == K!Totals(w)
           At(n) == IF 2 * n <= Len(s) THEN 2 * n ELSE 2 * n - 1
           set == {n \in Nat : n <= Len(w) => W[n] = S[At(n)]}
<1>1. S \in [0..Len(s) -> Nat] /\ S[0] = 0 /\ \A n \in Nat : n + 1 \in 1..Len(s) => S[n + 1] = S[n] + s[n + 1]
    BY PrefixTotals
<1>2. W \in [0..Len(w) -> Nat] /\ W[0] = 0 /\ \A n \in Nat : n + 1 \in 1..Len(w) => W[n + 1] = W[n] + w[n + 1]
    BY PrefixTotals
<1> HIDE DEF S, W
<1>3. Len(s) \in Nat /\ Len(w) \in Nat
    OBVIOUS
<1>4. 0 \in set
    BY <1>1, <1>2, <1>3
<1>5. ASSUME NEW n \in Nat, n \in set PROVE n + 1 \in set
    <2>1. CASE ~(n + 1 <= Len(w))
        BY <2>1
    <2>2. CASE n + 1 <= Len(w)
        <3>1. n \in 0..Len(w) /\ n + 1 \in 1..Len(w) /\ W[n] = S[At(n)] /\ At(n) = 2 * n
            <4>1. 2 * n <= Len(s)
                BY <1>3, <2>2
            <4>2. n <= Len(w) /\ n \in 0..Len(w) /\ n + 1 \in 1..Len(w)
                BY ONLY <1>3, <2>2, n \in Nat
            <4>3. At(n) = 2 * n
                BY ONLY <4>1
            <4>4. W[n] = S[At(n)]
                <5> HIDE DEF At
                <5> QED
                    BY ONLY <1>5, <4>2
            <4> HIDE DEF At
            <4> QED
                BY ONLY <4>2, <4>3, <4>4
        <3>2. W[n + 1] = S[2 * n] + w[n + 1]
            BY <1>2, <3>1
        <3>3. /\ 2 * n \in 0..Len(s) /\ 2 * n + 1 \in 1..Len(s) /\ 2 * n \in Nat
              /\ 2 * (n + 1) - 1 = 2 * n + 1 /\ 2 * (n + 1) = 2 * n + 2
            BY <1>3, <2>2
        <3>4. S[2 * n + 1] = S[2 * n] + s[2 * n + 1] /\ S[2 * n] \in Nat /\ s[2 * n + 1] \in Nat
            <4> DEFINE m == 2 * n
            <4>1. m \in Nat /\ m \in 0..Len(s) /\ m + 1 \in 1..Len(s)
                BY <3>3
            <4>2. s[m + 1] \in Nat
                BY <4>1
            <4> HIDE DEF m
            <4>3. S[m + 1] = S[m] + s[m + 1] /\ S[m] \in Nat
                BY <1>1, <4>1
            <4>4. S[m + 1] = S[m] + s[m + 1] /\ S[m] \in Nat /\ s[m + 1] \in Nat
                BY ONLY <4>2, <4>3
            <4> QED
                BY ONLY <4>4 DEF m
        <3>5. w[n + 1] = s[2 * n + 1] + IF 2 * n + 2 <= Len(s) THEN s[2 * n + 2] ELSE 0
            BY <3>1, <3>3
        <3>6. CASE 2 * n + 2 <= Len(s)
            <4>1. 2 * n + 2 \in 1..Len(s) /\ 2 * n + 2 = (2 * n + 1) + 1 /\ 2 * n + 1 \in Nat
                BY <1>3, <3>6
            <4>2. S[2 * n + 2] = S[2 * n + 1] + s[2 * n + 2] /\ s[2 * n + 2] \in Nat
                BY <1>1, <4>1
            <4>3. At(n + 1) = 2 * n + 2
                BY <3>3, <3>6
            <4>4. W[n + 1] = S[2 * n + 2]
                <5>1. PICK x \in Nat, y \in Nat, z \in Nat :
                         x = S[2 * n] /\ y = s[2 * n + 1] /\ z = s[2 * n + 2]
                    BY <3>4, <4>2
                <5>2. w[n + 1] = y + z
                    BY ONLY <3>5, <3>6, <5>1
                <5>3. S[2 * n + 2] = (x + y) + z /\ W[n + 1] = x + (y + z)
                    BY ONLY <3>2, <3>4, <4>2, <5>1, <5>2
                <5>4. (x + y) + z = x + (y + z)
                    OBVIOUS
                <5> QED
                    BY ONLY <5>3, <5>4
            <4>6. n + 1 \in Nat
                OBVIOUS
            <4>7. S[At(n + 1)] = S[2 * n + 2]
                BY ONLY <4>3
            <4> HIDE DEF At
            <4>5. W[n + 1] = S[At(n + 1)] /\ n + 1 \in Nat
                BY ONLY <4>4, <4>6, <4>7
            <4> HIDE DEF At
            <4> QED
                BY <4>5
        <3>7. CASE ~(2 * n + 2 <= Len(s))
            <4>1. At(n + 1) = 2 * n + 1
                BY <3>3, <3>7
            <4>2. W[n + 1] = S[2 * n + 1]
                BY <3>2, <3>4, <3>5, <3>7
            <4>5. W[n + 1] = S[At(n + 1)] /\ n + 1 \in Nat
                BY <4>1, <4>2
            <4> HIDE DEF At
            <4> QED
                BY <4>5
        <3> QED
            BY <3>6, <3>7
    <2> QED
        BY <2>1, <2>2
<1>6. Len(w) \in set
    <2> HIDE DEF set
    <2> QED
        BY <1>3, <1>4, <1>5, Induct
<1>7. At(Len(w)) = Len(s)
    BY <1>3
<1> HIDE DEF At
<1>8. W[Len(w)] = S[Len(s)]
    BY <1>3, <1>6, <1>7
<1> QED
    BY <1>8 DEF S, W, K!Total

LEMMA Halved ==
    ASSUME NEW n \in Nat
    PROVE  \E m \in Nat : m = (n + 1) \div 2 /\ (n = 2 * m \/ n = 2 * m - 1)
<1>1. (n + 1) \div 2 \in Nat
    OBVIOUS
<1>2. n = 2 * ((n + 1) \div 2) \/ n = 2 * ((n + 1) \div 2) - 1
    OBVIOUS
<1> QED
    BY <1>1, <1>2

LEMMA Bytes ==
    /\ \A b : b \in K!Byte <=> b \in Nat /\ b <= 255
    /\ K!Byte \subseteq Nat
BY DEF K!Byte

\* The words of a message, and their sum byte by byte.
LEMMA SumOfWords ==
    ASSUME NEW bytes \in Seq(K!Byte)
    PROVE  /\ K!Words(bytes) \in Seq(Nat)
           /\ \A k \in 1..Len(K!Words(bytes)) : K!Words(bytes)[k] <= 65535
           /\ Len(K!Words(bytes)) = (Len(bytes) + 1) \div 2
           /\ \A k \in 1..Len(K!Words(bytes)) :
                 K!Words(bytes)[k] =
                    256 * bytes[2 * k - 1] + IF 2 * k <= Len(bytes) THEN bytes[2 * k] ELSE 0
           /\ K!Sum(bytes) = K!Total(K!Words(bytes))
<1> DEFINE even == IF Len(bytes) % 2 = 0 THEN bytes ELSE Append(bytes, 0)
           halves == [k \in 1..Len(bytes) |-> IF k % 2 = 1 THEN bytes[k] * 256 ELSE bytes[k]]
<1>1. PICK n \in Nat : n = Len(bytes)
    OBVIOUS
<1>2. PICK m \in Nat : m = (n + 1) \div 2 /\ (n = 2 * m \/ n = 2 * m - 1)
    BY Halved
<1>3. /\ even \in Seq(K!Byte) /\ Len(even) = 2 * m
      /\ \A i \in 1..n : even[i] = bytes[i] /\ bytes[i] \in K!Byte
      /\ n = 2 * m - 1 => even[2 * m] = 0
    <2>1. CASE n = 2 * m
        <3>1. n % 2 = 0
            BY <2>1
        <3>2. even = bytes
            BY <1>1, <3>1
        <3>3. n # 2 * m - 1
            BY <2>1
        <3>4. \A i \in 1..n : bytes[i] \in K!Byte
            BY <1>1
        <3> HIDE DEF even
        <3> QED
            BY <1>1, <2>1, <3>2, <3>3, <3>4
    <2>2. CASE n = 2 * m - 1
        <3>1. n % 2 # 0 /\ n + 1 = 2 * m
            BY <2>2
        <3>2. even = Append(bytes, 0)
            BY <1>1, <3>1
        <3> HIDE DEF even
        <3>3. 0 \in K!Byte
            BY Bytes
        <3>4. even \in Seq(K!Byte) /\ Len(even) = n + 1 /\ even[n + 1] = 0
            BY <1>1, <3>2, <3>3
        <3>5. \A i \in 1..n : even[i] = bytes[i] /\ bytes[i] \in K!Byte
            BY <1>1, <3>2
        <3> QED
            BY <3>1, <3>4, <3>5
    <2> QED
        BY <1>2, <2>1, <2>2
<1> HIDE DEF even
<1>13. ASSUME NEW k \in 1..m
      PROVE  /\ 2 * k - 1 \in 1..n /\ even[2 * k - 1] = bytes[2 * k - 1] /\ bytes[2 * k - 1] \in K!Byte
             /\ even[2 * k] = IF 2 * k <= n THEN bytes[2 * k] ELSE 0
             /\ even[2 * k] \in K!Byte
    <2>1. 2 * k - 1 \in 1..n /\ 2 * k \in 1..(2 * m)
        BY <1>2
    <2>2. 2 * k <= n => 2 * k \in 1..n
        BY <2>1
    <2>3. ~(2 * k <= n) => n = 2 * m - 1 /\ 2 * k = 2 * m
        BY <1>2
    <2>4. even[2 * k] = IF 2 * k <= n THEN bytes[2 * k] ELSE 0
        <3>1. CASE 2 * k <= n
            BY <1>3, <2>2, <3>1
        <3>2. CASE ~(2 * k <= n)
            BY <1>3, <2>3, <3>2
        <3> QED
            BY <3>1, <3>2
    <2>5. even[2 * k] \in K!Byte
        BY <1>3, <2>1
    <2> QED
        BY <1>3, <2>1, <2>4, <2>5
<1> DEFINE w == K!Words(bytes)
<1>4. w = [k \in 1..m |-> 256 * even[2 * k - 1] + even[2 * k]]
    <2>1. Len(even) \div 2 = m
        <3>1. (2 * m) \div 2 = m
            OBVIOUS
        <3> QED
            BY <1>3, <3>1
    <2> QED
        <3>1. w = [k \in 1..(Len(even) \div 2) |-> 256 * even[2 * k - 1] + even[2 * k]]
            BY DEF K!Words, even
        <3> HIDE DEF w
        <3> QED
            BY <2>1, <3>1
<1> HIDE DEF w
<1>5. ASSUME NEW k \in 1..m
      PROVE  /\ w[k] \in Nat /\ w[k] <= 65535
             /\ w[k] = 256 * bytes[2 * k - 1] + IF 2 * k <= n THEN bytes[2 * k] ELSE 0
    <2>1. w[k] = 256 * even[2 * k - 1] + even[2 * k]
        BY <1>4
    <2>2. w[k] \in Nat /\ w[k] <= 65535
        <3>1. PICK hi \in Nat, lo \in Nat :
                 hi = even[2 * k - 1] /\ lo = even[2 * k] /\ hi <= 255 /\ lo <= 255
            BY <1>13, Bytes
        <3>2. 256 * hi + lo \in Nat /\ 256 * hi + lo <= 65535
            BY <3>1
        <3> QED
            BY <2>1, <3>1, <3>2
    <2>3. even[2 * k] = IF 2 * k <= n THEN bytes[2 * k] ELSE 0
        BY <1>13
    <2> QED
        BY <1>13, <2>1, <2>2, <2>3
<1>6. w \in Seq(Nat) /\ Len(w) = m
    <2>1. w \in [1..m -> Nat]
        BY <1>4, <1>5
    <2> QED
        BY <2>1
<1>7. m = (n + 1) \div 2
    BY <1>2
<1>8. halves \in Seq(Nat) /\ Len(halves) = n
    <2>1. \A k \in 1..n : bytes[k] \in Nat
        BY <1>1, Bytes
    <2>2. halves \in [1..n -> Nat]
        BY <1>1, <2>1
    <2> QED
        BY <2>2
<1>9. ASSUME NEW k \in 1..m
      PROVE  w[k] = halves[2 * k - 1] + IF 2 * k <= Len(halves) THEN halves[2 * k] ELSE 0
    <2>1. (2 * k - 1) % 2 = 1 /\ (2 * k) % 2 = 0
        OBVIOUS
    <2>2. halves[2 * k - 1] = 256 * bytes[2 * k - 1] /\ (2 * k <= n => halves[2 * k] = bytes[2 * k])
        <3>1. 2 * k - 1 \in 1..n /\ (2 * k <= n => 2 * k \in 1..n)
            BY <1>13
        <3>2. bytes[2 * k - 1] \in K!Byte
            BY <1>13
        <3>3. halves[2 * k - 1] = bytes[2 * k - 1] * 256
            BY <1>1, <2>1, <3>1
        <3>4. 2 * k <= n => halves[2 * k] = bytes[2 * k]
            BY <1>1, <2>1, <3>1
        <3> QED
            BY <3>2, <3>3, <3>4, Bytes
    <2> HIDE DEF halves
    <2> QED
        BY <1>5, <1>8, <2>2
<1>10. K!Sum(bytes) = K!Total(halves)
    BY DEF K!Sum
<1> HIDE DEF halves, w
<1>11. Len(halves) = 2 * Len(w) \/ Len(halves) = 2 * Len(w) - 1
    BY <1>2, <1>6, <1>8
<1>12. K!Total(halves) = K!Total(w)
    BY <1>6, <1>8, <1>9, <1>11, TotalPairs
<1> QED
    BY <1>1, <1>5, <1>6, <1>7, <1>10, <1>12 DEF w

LEMMA Halves ==
    ASSUME NEW sum \in Nat
    PROVE  \E a \in Nat, b \in Nat : /\ sum = 65536 * a + b /\ b <= 65535
                                     /\ a = sum \div 65536 /\ b = sum % 65536
OBVIOUS

LEMMA TwoBytes ==
    ASSUME NEW c \in Nat
    PROVE  \E a \in Nat, b \in Nat : /\ c = 256 * a + b /\ b <= 255
                                     /\ a = c \div 256 /\ b = c % 256
OBVIOUS

\* The carries are added: a sum below 2^31 becomes 16 bits of the same class.
LEMMA Carries ==
    ASSUME NEW sum \in Nat, sum < 65536 * 1000
    PROVE  /\ 65535 - K!Carried(K!Carried(sum)) \in Nat
           /\ K!Carried(K!Carried(sum)) \in Nat
           /\ sum + (65535 - K!Carried(K!Carried(sum))) > 0
           /\ (sum + (65535 - K!Carried(K!Carried(sum)))) % 65535 = 0
<1> DEFINE once == K!Carried(sum)
           twice == K!Carried(once)
<1>1. PICK a \in Nat, b \in Nat : /\ sum = 65536 * a + b /\ b <= 65535
                                  /\ a = sum \div 65536 /\ b = sum % 65536
    BY Halves
<1>2. once = a + b /\ once \in Nat
    BY <1>1 DEF K!Carried
<1>3. PICK c \in Nat, d \in Nat : /\ once = 65536 * c + d /\ d <= 65535
                                  /\ c = once \div 65536 /\ d = once % 65536
    BY <1>2, Halves
<1>4. twice = c + d
    BY <1>3 DEF K!Carried
<1> HIDE DEF once, twice
<1>5. c <= 1 /\ (c = 1 => d < 1000)
    BY <1>1, <1>2, <1>3
<1>6. twice \in Nat /\ twice <= 65535
    <2>1. d <= 65535 /\ c + d <= 65535
        BY <1>3, <1>5
    <2> QED
        BY <1>4, <2>1
<1>7. sum + (65535 - twice) = 65535 * (a + c + 1)
    BY <1>1, <1>2, <1>3, <1>4
<1> QED
    BY <1>5, <1>6, <1>7 DEF once, twice

\* A message with its checksum verifies.
LEMMA ChecksumVerifies ==
    ASSUME NEW bytes \in Seq(K!Byte), Len(bytes) <= 96, NEW n \in Nat, n % 2 = 1,
           n + 1 \in 1..Len(bytes), bytes[n] = 0, bytes[n + 1] = 0
    PROVE  /\ K!Verifies(K!WithChecksum(bytes, n))
           /\ Len(K!WithChecksum(bytes, n)) = Len(bytes)
           /\ K!WithChecksum(bytes, n) \in Seq(K!Byte)
           /\ \A k \in 1..Len(bytes) : k \notin {n, n + 1} => K!WithChecksum(bytes, n)[k] = bytes[k]
<1> DEFINE c == K!header_checksum16(bytes)
           after == K!WithChecksum(bytes, n)
           v == K!Words(bytes)
           w == K!Words(after)
<1>1. v \in Seq(Nat) /\ K!Sum(bytes) = K!Total(v) /\ Len(v) <= 48
    <2>1. Len(bytes) \in Nat
        OBVIOUS
    <2>2. v \in Seq(Nat) /\ K!Sum(bytes) = K!Total(v) /\ Len(v) = (Len(bytes) + 1) \div 2
        BY SumOfWords
    <2> HIDE DEF v
    <2> QED
        BY <2>1, <2>2
<1>2. K!Total(v) \in Nat /\ K!Total(v) <= 65535 * Len(v)
    <2>2. \A k \in 1..Len(v) : v[k] <= 65535
        BY SumOfWords
    <2> HIDE DEF v
    <2> QED
        BY <1>1, <2>2, TotalBound, TotalTypes
<1>3. K!Total(v) < 65536 * 1000
    <2>1. Len(v) \in Nat
        BY <1>1
    <2> HIDE DEF v
    <2> QED
        BY <1>1, <1>2, <2>1
<1>4. c \in Nat /\ c <= 65535 /\ K!Total(v) + c > 0 /\ (K!Total(v) + c) % 65535 = 0
    <2>1. PICK sum \in Nat : sum = K!Total(v) /\ sum < 65536 * 1000
        BY <1>2, <1>3
    <2>2. c = 65535 - K!Carried(K!Carried(sum))
        BY <1>1, <2>1 DEF K!header_checksum16
    <2> HIDE DEF c, v
    <2>3. /\ 65535 - K!Carried(K!Carried(sum)) \in Nat
          /\ K!Carried(K!Carried(sum)) \in Nat
          /\ sum + (65535 - K!Carried(K!Carried(sum))) > 0
          /\ (sum + (65535 - K!Carried(K!Carried(sum)))) % 65535 = 0
        BY <2>1, Carries
    <2> QED
        BY <2>1, <2>2, <2>3
<1> HIDE DEF c
<1>5. K!High(c) \in K!Byte /\ K!Low(c) \in K!Byte /\ c = 256 * K!High(c) + K!Low(c)
    <2>1. PICK a \in Nat, b \in Nat : /\ c = 256 * a + b /\ b <= 255
                                      /\ a = c \div 256 /\ b = c % 256
        BY ONLY <1>4, TwoBytes
    <2>2. a <= 255
        BY ONLY <1>4, <2>1, a \in Nat, b \in Nat
    <2>3. a \in K!Byte /\ b \in K!Byte
        BY ONLY <2>1, <2>2, a \in Nat, b \in Nat, Bytes
    <2>4. a = K!High(c) /\ b = K!Low(c)
        BY ONLY <2>1 DEF K!High, K!Low
    <2> QED
        BY ONLY <2>1, <2>3, <2>4
<1>6. after = [bytes EXCEPT ![n] = K!High(c), ![n + 1] = K!Low(c)]
    BY DEF K!WithChecksum, c
<1>7. n \in 1..Len(bytes) /\ n + 1 \in 1..Len(bytes) /\ Len(bytes) \in Nat
    <2>1. n # 0
        OBVIOUS
    <2> QED
        BY <2>1
<1>8. /\ after \in Seq(K!Byte) /\ Len(after) = Len(bytes)
      /\ after[n] = K!High(c) /\ after[n + 1] = K!Low(c)
      /\ \A k \in 1..Len(bytes) : k \notin {n, n + 1} => after[k] = bytes[k]
    BY <1>5, <1>6, <1>7
<1> HIDE DEF after
<1>9. /\ w \in Seq(Nat) /\ Len(w) = Len(v)
      /\ \A k \in 1..Len(v) :
            w[k] = 256 * after[2 * k - 1] + IF 2 * k <= Len(bytes) THEN after[2 * k] ELSE 0
    <2>1. /\ w \in Seq(Nat) /\ Len(w) = (Len(after) + 1) \div 2
          /\ \A k \in 1..Len(w) :
                w[k] = 256 * after[2 * k - 1] + IF 2 * k <= Len(after) THEN after[2 * k] ELSE 0
        <3>1. after \in Seq(K!Byte)
            BY <1>8
        <3> QED
            BY ONLY <3>1, SumOfWords
    <2>2. Len(v) = (Len(bytes) + 1) \div 2
        BY SumOfWords
    <2>3. Len(after) = Len(bytes)
        BY <1>8
    <2> HIDE DEF v, w
    <2> QED
        BY ONLY <2>1, <2>2, <2>3
<1>16. \A k \in 1..Len(v) :
          v[k] = 256 * bytes[2 * k - 1] + IF 2 * k <= Len(bytes) THEN bytes[2 * k] ELSE 0
    BY SumOfWords
<1>10. PICK i \in Nat : n = 2 * i - 1
    <2>1. n # 2 * ((n + 1) \div 2)
        OBVIOUS
    <2> QED
        BY <2>1, Halved
<1>11. i \in 1..Len(v) /\ 2 * i = n + 1
    <2>1. Len(v) = (Len(bytes) + 1) \div 2
        BY SumOfWords
    <2> HIDE DEF v
    <2> QED
        BY <1>7, <1>10, <2>1
<1> HIDE DEF v, w
<1>12. w[i] = v[i] + c
    <2>1. v[i] = 256 * bytes[n] + bytes[n + 1]
        BY <1>7, <1>10, <1>11, <1>16
    <2>2. w[i] = 256 * after[n] + after[n + 1]
        BY <1>7, <1>9, <1>10, <1>11
    <2>3. v[i] = 0
        BY <2>1
    <2> QED
        BY <1>4, <1>5, <1>8, <2>2, <2>3
<1>13. ASSUME NEW k \in 1..Len(v), k # i PROVE w[k] = v[k]
    <2>1. Len(v) = (Len(bytes) + 1) \div 2
        BY SumOfWords DEF v
    <2>2. 2 * k - 1 \in 1..Len(bytes) /\ 2 * k - 1 \notin {n, n + 1} /\ 2 * k \notin {n, n + 1}
        BY <1>7, <1>10, <1>13, <2>1
    <2>3. after[2 * k - 1] = bytes[2 * k - 1]
        BY <1>8, <2>2
    <2>4. CASE 2 * k <= Len(bytes)
        <3>1. 2 * k \in 1..Len(bytes)
            BY <1>7, <2>4
        <3>2. after[2 * k] = bytes[2 * k]
            BY <1>8, <2>2, <3>1
        <3> QED
            BY <1>9, <1>16, <2>3, <2>4, <3>2
    <2>5. CASE ~(2 * k <= Len(bytes))
        BY <1>9, <1>16, <2>3, <2>5
    <2> QED
        BY <2>4, <2>5
<1>14. K!Total(w) = K!Total(v) + c
    <2>1. v \in Seq(Nat) /\ w \in Seq(Nat) /\ Len(v) = Len(w) /\ c \in Nat /\ i \in 1..Len(v)
        BY <1>1, <1>4, <1>9, <1>11
    <2> QED
        BY <2>1, <1>12, <1>13, TotalMore
<1>15. K!Verifies(after)
    BY <1>4, <1>14 DEF K!Verifies, w
<1> QED
    BY <1>8, <1>15 DEF after

-----------------------------------------------------------------------------
(* Sequences in parts; a lemma for each, as their lengths are numbers here. *)

LEMMA SeqOf ==
    ASSUME NEW S, NEW n \in Nat, NEW s \in [1..n -> S]
    PROVE  s \in Seq(S) /\ Len(s) = n
OBVIOUS

LEMMA Element ==
    ASSUME NEW S, NEW s \in Seq(S), NEW n \in Nat, Len(s) = n, NEW k \in 1..n
    PROVE  s[k] \in S
OBVIOUS

Joined(S, s, t, m, n) ==
    /\ s \o t \in Seq(S) /\ Len(s \o t) = m + n
    /\ \A k \in 1..m : (s \o t)[k] = s[k]
    /\ \A k \in 1..n : (s \o t)[m + k] = t[k]

LEMMA Concatenated ==
    ASSUME NEW S, NEW s \in Seq(S), NEW t \in Seq(S), NEW m \in Nat, NEW n \in Nat,
           Len(s) = m, Len(t) = n
    PROVE  Joined(S, s, t, m, n)
<1>1. /\ s \o t \in Seq(S) /\ Len(s \o t) = m + n
      /\ \A k \in 1..(m + n) : (s \o t)[k] = IF k <= m THEN s[k] ELSE t[k - m]
    BY ConcatProperties
<1>2. ASSUME NEW k \in 1..n PROVE (s \o t)[m + k] = t[k]
    <2>1. m + k \in 1..(m + n) /\ ~(m + k <= m) /\ (m + k) - m = k
        OBVIOUS
    <2> QED
        BY <1>1, <2>1
<1>3. ASSUME NEW k \in 1..m PROVE (s \o t)[k] = s[k]
    <2>1. k \in 1..(m + n) /\ k <= m
        OBVIOUS
    <2> QED
        BY <1>1, <2>1
<1> QED
    BY <1>1, <1>2, <1>3 DEF Joined

Cut(S, s, m, n) ==
    /\ SubSeq(s, m + 1, m + n) \in Seq(S) /\ Len(SubSeq(s, m + 1, m + n)) = n
    /\ \A k \in 1..n : SubSeq(s, m + 1, m + n)[k] = s[m + k]

LEMMA Piece ==
    ASSUME NEW S, NEW s \in Seq(S), NEW l \in Nat, Len(s) = l, NEW m \in Nat, NEW n \in Nat,
           m + n <= l
    PROVE  Cut(S, s, m, n)
BY DEF Cut

LEMMA SeqSame ==
    ASSUME NEW S, NEW s \in Seq(S), NEW t \in Seq(S), NEW n \in Nat, Len(s) = n, Len(t) = n,
           \A k \in 1..n : s[k] = t[k]
    PROVE  s = t
BY SeqEqual

\* A header of three parts, whose last part a station reads.
InParts(S, s, t, u, m, n) ==
    /\ s \o t \o u \in Seq(S) /\ Len(s \o t \o u) = m + n
    /\ \A k \in 1..m : (s \o t \o u)[k] = s[k]
    /\ \A v \in Seq(S) :
          /\ Len(v) = m + n
          /\ \A k \in 1..n : v[m + k] = (s \o t \o u)[m + k]
          => SubSeq(v, m + 1, m + n) = t \o u

LEMMA Parts ==
    ASSUME NEW S, NEW s \in Seq(S), NEW t \in Seq(S), NEW u \in Seq(S),
           NEW m \in Nat, NEW n \in Nat, NEW o \in Nat, Len(s) = m, Len(t) = n, Len(u) = o
    PROVE  InParts(S, s, t, u, m, n + o)
<1> DEFINE a == t \o u
           b == s \o a
<1>1. a \in Seq(S) /\ Len(a) = n + o /\ n + o \in Nat
    BY Concatenated
<1>2. s \o t \o u = b
    OBVIOUS
<1> HIDE DEF a
<1>3. /\ b \in Seq(S) /\ Len(b) = m + (n + o)
      /\ \A k \in 1..m : b[k] = s[k]
      /\ \A k \in 1..(n + o) : b[m + k] = a[k]
    <2>1. s \in Seq(S) /\ a \in Seq(S) /\ m \in Nat /\ n + o \in Nat /\ Len(s) = m /\ Len(a) = n + o
        BY <1>1
    <2>2. Joined(S, s, a, m, n + o)
        BY ONLY <2>1, Concatenated, Zenon
    <2> QED
        BY <2>2 DEF Joined
<1> HIDE DEF b
<1>4. ASSUME NEW v \in Seq(S), Len(v) = m + (n + o), \A k \in 1..(n + o) : v[m + k] = b[m + k]
      PROVE  SubSeq(v, m + 1, m + (n + o)) = a
    <2> DEFINE w == SubSeq(v, m + 1, m + (n + o))
    <2>1. w \in Seq(S) /\ Len(w) = n + o /\ \A k \in 1..(n + o) : w[k] = v[m + k]
        BY <1>1, <1>4, Piece DEF Cut
    <2> HIDE DEF w
    <2>2. \A k \in 1..(n + o) : w[k] = a[k]
        BY <1>3, <1>4, <2>1
    <2>3. w = a
        BY <1>1, <2>1, <2>2, SeqSame
    <2> QED
        BY <2>3 DEF w
<1> QED
    BY <1>2, <1>3, <1>4 DEF a, InParts

\* The header of an answer.
LEMMA HeaderSound ==
    ASSUME NEW dst \in Seq(K!Byte), Len(dst) = 4, NEW len \in Nat, len <= 96
    PROVE  /\ K!Verifies(K!ip_header(dst, len, 1))
           /\ SubSeq(K!ip_header(dst, len, 1), 13, 20) = K!self_g.ip \o dst
<1> DEFINE top == <<69, 0, K!High(len), K!Low(len), 0, 0, 0, 0, 64, 1, 0, 0>>
           self == K!self_g.ip
           bytes == top \o self \o dst
           after == K!WithChecksum(bytes, 11)
<1>0. PICK m \in Nat, n \in Nat : m = 12 /\ n = 4
    OBVIOUS
<1>1. top \in Seq(K!Byte) /\ Len(top) = m /\ top[11] = 0 /\ top[12] = 0
    <2>1. K!High(len) \in K!Byte /\ K!Low(len) \in K!Byte
        BY Bytes DEF K!High, K!Low
    <2>2. 69 \in K!Byte /\ 0 \in K!Byte /\ 64 \in K!Byte /\ 1 \in K!Byte
        BY Bytes
    <2> QED
        BY <1>0, <2>1, <2>2
<1>2. self \in Seq(K!Byte) /\ Len(self) = n
    <2>1. K!self_g.ip = <<192, 168, 0, 17>>
        BY DEF K!self_g
    <2>2. 192 \in K!Byte /\ 168 \in K!Byte /\ 0 \in K!Byte /\ 17 \in K!Byte
        BY Bytes
    <2>3. <<192, 168, 0, 17>> \in Seq(K!Byte) /\ Len(<<192, 168, 0, 17>>) = 4
        BY <2>2
    <2> QED
        BY <1>0, <2>1, <2>3
<1>3. Len(dst) = n
    BY <1>0
<1>7. K!ip_header(dst, len, 1) = after
    BY DEF K!ip_header
<1> HIDE DEF top, self
<1>4. /\ bytes \in Seq(K!Byte) /\ Len(bytes) = m + (n + n)
      /\ \A k \in 1..m : bytes[k] = top[k]
      /\ \A v \in Seq(K!Byte) :
            /\ Len(v) = m + (n + n)
            /\ \A k \in 1..(n + n) : v[m + k] = bytes[m + k]
            => SubSeq(v, m + 1, m + (n + n)) = self \o dst
    <2>1. /\ top \in Seq(K!Byte) /\ self \in Seq(K!Byte) /\ dst \in Seq(K!Byte) /\ m \in Nat /\ n \in Nat
          /\ Len(top) = m /\ Len(self) = n /\ Len(dst) = n
        BY <1>1, <1>2, <1>3
    <2>2. InParts(K!Byte, top, self, dst, m, n + n)
        BY ONLY <2>1, Parts, Zenon
    <2> QED
        BY <2>2 DEF InParts
<1> HIDE DEF bytes
<1>5. 11 \in 1..m /\ 12 \in 1..m /\ 11 % 2 = 1 /\ 11 + 1 = 12 /\ m + (n + n) = 20 /\ m + 1 = 13
    BY <1>0
<1>6. bytes[11] = 0 /\ bytes[12] = 0 /\ Len(bytes) = 20
    BY <1>1, <1>4, <1>5
<1>8. /\ K!Verifies(after) /\ Len(after) = Len(bytes) /\ after \in Seq(K!Byte)
      /\ \A k \in 1..Len(bytes) : k \notin {11, 12} => after[k] = bytes[k]
    <2>1. 11 \in Nat /\ 11 % 2 = 1 /\ 11 + 1 \in 1..Len(bytes) /\ Len(bytes) <= 96
        BY <1>6
    <2>2. bytes[11] = 0 /\ bytes[11 + 1] = 0
        BY <1>5, <1>6
    <2> HIDE DEF after
    <2>3. /\ K!Verifies(K!WithChecksum(bytes, 11))
          /\ Len(K!WithChecksum(bytes, 11)) = Len(bytes)
          /\ K!WithChecksum(bytes, 11) \in Seq(K!Byte)
          /\ \A k \in 1..Len(bytes) : k \notin {11, 11 + 1} => K!WithChecksum(bytes, 11)[k] = bytes[k]
        BY <1>4, <2>1, <2>2, ChecksumVerifies
    <2> QED
        BY <1>5, <2>3 DEF after
<1> HIDE DEF after
<1>9. \A k \in 1..(n + n) : after[m + k] = bytes[m + k]
    <2>1. \A k \in 1..(n + n) : m + k \in 1..20 /\ m + k # 11 /\ m + k # 12
        BY <1>0
    <2> QED
        BY <1>6, <1>8, <2>1
<1>10. SubSeq(after, m + 1, m + (n + n)) = self \o dst
    BY <1>4, <1>8, <1>9
<1>11. SubSeq(after, 13, 20) = self \o dst
    BY <1>5, <1>10
<1> QED
    BY <1>7, <1>8, <1>11 DEF self

\* The data of an echo in its answer.
Echoed(m, l, n, after) ==
    /\ K!Verifies(after) /\ Len(after) = n
    /\ SubSeq(after, 1, 2) = <<0, 0>>
    /\ SubSeq(after, 5, l) = SubSeq(m, 5, l)

LEMMA EchoSound ==
    ASSUME NEW m \in Seq(K!Byte), NEW l \in Nat, Len(m) = l, l >= 8,
           NEW n \in Nat, l <= n, n <= 96, NEW u \in K!Byte,
           NEW icmp, icmp = [k \in 1..n |-> IF k <= 4 THEN 0 ELSE IF k <= 8 \/ k <= l THEN m[k] ELSE u],
           NEW after, after = K!WithChecksum(icmp, 3)
    PROVE  Echoed(m, l, n, after)
<1>1. icmp \in [1..n -> K!Byte]
    <2>1. ASSUME NEW k \in 1..n PROVE (IF k <= 4 THEN 0 ELSE IF k <= 8 \/ k <= l THEN m[k] ELSE u) \in K!Byte
        <3>1. 0 \in K!Byte
            BY Bytes
        <3>2. CASE k <= 8 \/ k <= l
            <4>1. k \in 1..l
                BY <3>2
            <4>2. m[k] \in K!Byte
                BY <4>1, Element
            <4> QED
                BY <3>1, <4>2
        <3> QED
            BY <3>1, <3>2
    <2> QED
        BY <2>1
<1>2. icmp \in Seq(K!Byte) /\ Len(icmp) = n
    BY <1>1, SeqOf
<1>3. 1..4 \subseteq 1..n /\ 3 \in 1..n /\ 4 \in 1..n /\ 1 \in 1..n /\ 2 \in 1..n
    OBVIOUS
<1>4. icmp[1] = 0 /\ icmp[2] = 0 /\ icmp[3] = 0 /\ icmp[4] = 0
    BY <1>3
<1>5. ASSUME NEW k \in 1..(l - 4) PROVE icmp[4 + k] = m[4 + k]
    <2>1. 4 + k \in 1..n /\ ~(4 + k <= 4) /\ 4 + k <= l
        OBVIOUS
    <2> QED
        BY <2>1
<1>6. /\ K!Verifies(after) /\ Len(after) = n /\ after \in Seq(K!Byte)
      /\ \A k \in 1..n : k # 3 /\ k # 4 => after[k] = icmp[k]
    <2>1. 3 \in Nat /\ 3 % 2 = 1 /\ 3 + 1 = 4
        OBVIOUS
    <2>2. 3 + 1 \in 1..Len(icmp) /\ Len(icmp) <= 96 /\ icmp[3] = 0 /\ icmp[3 + 1] = 0
        BY <1>2, <1>3, <1>4, <2>1
    <2>3. /\ K!Verifies(K!WithChecksum(icmp, 3))
          /\ Len(K!WithChecksum(icmp, 3)) = Len(icmp)
          /\ K!WithChecksum(icmp, 3) \in Seq(K!Byte)
          /\ \A k \in 1..Len(icmp) : k \notin {3, 3 + 1} => K!WithChecksum(icmp, 3)[k] = icmp[k]
        BY ONLY <1>2, <2>1, <2>2, ChecksumVerifies
    <2> QED
        BY ONLY <1>2, <2>1, <2>3, after = K!WithChecksum(icmp, 3)
<1>7. SubSeq(after, 1, 2) = <<0, 0>>
    <2>1. 0 \in Nat /\ 2 \in Nat /\ 0 + 2 <= n /\ 0 + 1 = 1 /\ 0 + 2 = 2 /\ 1 \in 1..2 /\ 2 \in 1..2
        OBVIOUS
    <2>2. after \in Seq(K!Byte) /\ n \in Nat /\ Len(after) = n
        BY <1>6
    <2>3. Cut(K!Byte, after, 0, 2)
        BY ONLY <2>1, <2>2, Piece, Zenon
    <2> DEFINE s == SubSeq(after, 1, 2)
    <2>4. s \in Seq(K!Byte) /\ Len(s) = 2 /\ s[1] = after[1] /\ s[2] = after[2]
        BY <2>1, <2>3 DEF Cut
    <2>5. after[1] = 0 /\ after[2] = 0
        BY <1>3, <1>4, <1>6
    <2> HIDE DEF s
    <2>6. s = <<0, 0>>
        BY ONLY <2>4, <2>5
    <2> QED
        BY <2>6 DEF s
<1>8. SubSeq(after, 5, l) = SubSeq(m, 5, l)
    <2> DEFINE o == l - 4
    <2>1. 4 \in Nat /\ o \in Nat /\ 4 + 1 = 5 /\ 4 + o = l /\ 4 + o <= l /\ 4 + o <= n
        OBVIOUS
    <2>2. /\ after \in Seq(K!Byte) /\ n \in Nat /\ Len(after) = n
          /\ m \in Seq(K!Byte) /\ l \in Nat /\ Len(m) = l
        BY <1>6
    <2>5. \A k \in 1..o : 4 + k \in 1..n /\ 4 + k # 3 /\ 4 + k # 4
        OBVIOUS
    <2>7. \A k \in 1..o : after[4 + k] = m[4 + k]
        BY <1>5, <1>6, <2>5
    <2> HIDE DEF o
    <2>3. Cut(K!Byte, after, 4, o)
        BY ONLY <2>1, <2>2, Piece, Zenon
    <2>4. Cut(K!Byte, m, 4, o)
        BY ONLY <2>1, <2>2, Piece, Zenon
    <2> DEFINE s == SubSeq(after, 4 + 1, 4 + o)
               t == SubSeq(m, 4 + 1, 4 + o)
    <2>6. /\ s \in Seq(K!Byte) /\ t \in Seq(K!Byte) /\ Len(s) = o /\ Len(t) = o
          /\ \A k \in 1..o : s[k] = after[4 + k] /\ t[k] = m[4 + k]
        BY <2>3, <2>4 DEF Cut
    <2> HIDE DEF s, t
    <2>8. \A k \in 1..o : s[k] = t[k]
        BY <2>6, <2>7
    <2>9. s = t
        BY <2>1, <2>6, <2>8, SeqSame
    <2> QED
        BY ONLY <2>1, <2>9 DEF s, t
<1> QED
    BY <1>6, <1>7, <1>8 DEF Echoed

\* An answer to an echo.
LEMMA PingSound ==
    ASSUME NEW f, K!Legal(f), f.type = "ip", f.header[10] = 1, NEW u \in K!Byte
    PROVE  LET r == K!ping_reply(f, f.message, u)
           IN  /\ r.type = "ip" /\ r.eth.dst = f.src
               /\ SubSeq(r.header, 13, 20) = K!self_g.ip \o SubSeq(f.header, 13, 16)
               /\ K!Verifies(r.header) /\ K!Verifies(r.message)
               /\ SubSeq(r.message, 1, 2) = <<0, 0>>
               /\ SubSeq(r.message, 5, Len(f.message)) = SubSeq(f.message, 5, Len(f.message))
               /\ K!Optioned(f) \/ Len(r.message) = Len(f.message)
<1> DEFINE words == f.header[1] % 16
           icmp == [k \in 1..(f.len - 20) |->
                       IF k <= 4 THEN 0
                       ELSE IF k <= 8 \/ k <= f.len - words * 4 THEN f.message[k] ELSE u]
           after == K!WithChecksum(icmp, 3)
           r == K!ping_reply(f, f.message, u)
<1>1. /\ r.type = "ip" /\ r.eth.dst = f.src /\ r.message = after
      /\ r.header = K!ip_header(SubSeq(f.header, 13, 16), f.len, 1)
    BY DEF K!ping_reply, K!ethernet_header
<1> HIDE DEF r
<1>2. /\ f.message \in Seq(K!Byte) /\ f.len = 4 * words + Len(f.message)
      /\ Len(f.message) >= 8 /\ 14 + f.len <= 96
      /\ f.header \in [1..20 -> K!Byte] /\ words >= 5
    BY DEF K!Legal
<1>3. PICK w \in Nat : w = words
    <2>1. f.header[1] \in K!Byte
        <3>1. 1 \in 1..20
            OBVIOUS
        <3> QED
            BY ONLY <1>2, <3>1
    <2> QED
        BY <2>1, Bytes
<1>4. PICK l \in Nat : l = Len(f.message)
    BY <1>2
<1> HIDE DEF words
<1>5. f.len = 4 * w + l /\ l >= 8 /\ 14 + f.len <= 96 /\ w >= 5
    BY ONLY <1>2, <1>3, <1>4
<1>6. PICK n \in Nat : n = f.len - 20 /\ l <= n /\ n <= 62 /\ f.len - words * 4 = l /\ (w = 5 => n = l)
    <2>1. 4 * w + l - 20 \in Nat
        BY <1>5
    <2> QED
        BY ONLY <1>3, <1>5, <2>1, w \in Nat, l \in Nat
<1>7. PICK m \in Seq(K!Byte) : m = f.message /\ Len(m) = l
    BY <1>2, <1>4
<1>8. icmp = [k \in 1..n |-> IF k <= 4 THEN 0 ELSE IF k <= 8 \/ k <= l THEN m[k] ELSE u]
    BY <1>6, <1>7
<1> HIDE DEF icmp
<1>9. after = K!WithChecksum(icmp, 3)
    OBVIOUS
<1> HIDE DEF after
<1>10. /\ K!Verifies(after) /\ Len(after) = n
       /\ SubSeq(after, 1, 2) = <<0, 0>>
       /\ SubSeq(after, 5, l) = SubSeq(m, 5, l)
    <2>1. /\ m \in Seq(K!Byte) /\ l \in Nat /\ Len(m) = l /\ l >= 8
          /\ n \in Nat /\ l <= n /\ n <= 96 /\ u \in K!Byte
          /\ icmp = [k \in 1..n |-> IF k <= 4 THEN 0 ELSE IF k <= 8 \/ k <= l THEN m[k] ELSE u]
          /\ after = K!WithChecksum(icmp, 3)
        BY <1>5, <1>6, <1>7, <1>8, <1>9
    <2>2. Echoed(m, l, n, after)
        BY ONLY <2>1, EchoSound, Zenon
    <2> QED
        BY <1>7, <2>2 DEF Echoed
<1>11. /\ K!Verifies(r.header)
       /\ SubSeq(r.header, 13, 20) = K!self_g.ip \o SubSeq(f.header, 13, 16)
    <2> DEFINE h == f.header
               d == SubSeq(h, 13, 16)
    <2>1. 12 \in Nat /\ 4 \in Nat /\ 20 \in Nat /\ 12 + 4 <= 20 /\ 12 + 1 = 13 /\ 12 + 4 = 16
        OBVIOUS
    <2>2. h \in Seq(K!Byte) /\ Len(h) = 20
        <3>1. PICK z \in Nat : z = 20
            OBVIOUS
        <3>2. h \in [1..z -> K!Byte]
            BY ONLY <1>2, <3>1
        <3> HIDE DEF h
        <3>3. h \in Seq(K!Byte) /\ Len(h) = z
            BY ONLY <3>2, z \in Nat, SeqOf, Zenon
        <3> QED
            BY ONLY <3>1, <3>3
    <2> HIDE DEF h
    <2>3. Cut(K!Byte, h, 12, 4)
        BY ONLY <2>1, <2>2, Piece, Zenon
    <2>4. d \in Seq(K!Byte) /\ Len(d) = 4
        BY ONLY <2>1, <2>3 DEF Cut
    <2> HIDE DEF d
    <2>5. f.len \in Nat /\ f.len <= 96
        BY ONLY <1>5, w \in Nat, l \in Nat
    <2>6. K!Verifies(K!ip_header(d, f.len, 1)) /\ SubSeq(K!ip_header(d, f.len, 1), 13, 20) = K!self_g.ip \o d
        BY ONLY <2>4, <2>5, HeaderSound, Zenon
    <2> QED
        BY ONLY <1>1, <2>6 DEF d, h
<1>12. K!Optioned(f) \/ Len(after) = l
    <2>1. K!Optioned(f) <=> words > 5
        BY DEF K!Optioned, words
    <2> QED
        BY ONLY <1>3, <1>5, <1>6, <1>10, <2>1, w \in Nat
<1> QED
    BY ONLY <1>1, <1>4, <1>7, <1>10, <1>11, <1>12 DEF r

\* Of one frame, what the answer is.
LEMMA ReplyStep ==
    ASSUME K!parse_rx_packet PROVE K!ReplySound'
<1>1. PICK f \in Frames :
         /\ frame' = f
         /\ CASE f.type = "arp" -> K!parse_arp_packet(f)
              [] f.type = "ip"  -> K!parse_ip_packet(f)
              [] OTHER          -> reply' = K!NoFrame /\ handed' = "nobody"
    BY DEF K!parse_rx_packet
<1>2. K!Legal(f)
    BY FramesAssumption
<1>3. K!NoFrame.type = "none"
    BY DEF K!NoFrame
<1> DEFINE wanted == K!ForSelf(f) /\ (f.type = "ip" => f.header[10] = 1)
           given == f.type = "ip" /\ K!ForSelf(f) /\ f.header[10] \in {6, 17}
<1>4. CASE f.type = "arp"
    <2>1. reply' = IF K!ForSelf(f) THEN K!arp_reply(f.sender.mac, f.sender.ip) ELSE K!NoFrame
        BY <1>1, <1>4 DEF K!parse_arp_packet, K!ForSelf
    <2>2. handed' = "nobody"
        BY <1>1, <1>4 DEF K!parse_arp_packet
    <2> DEFINE r == K!arp_reply(f.sender.mac, f.sender.ip)
    <2>3. /\ r.type = "arp" /\ r.eth.dst = f.sender.mac /\ r.op = 2 /\ r.sender = K!self_g
          /\ r.target = [mac |-> f.sender.mac, ip |-> f.sender.ip]
        BY DEF K!arp_reply, K!ethernet_header
    <2> HIDE DEF r
    <2>4. f.sender = [mac |-> f.sender.mac, ip |-> f.sender.ip]
        BY <1>2, <1>4 DEF K!Legal
    <2>5. reply' = IF K!ForSelf(f) THEN r ELSE K!NoFrame
        BY <2>1 DEF r
    <2>6. reply' # K!NoFrame <=> wanted
        BY <1>3, <1>4, <2>3, <2>5
    <2>7. handed' # "nobody" <=> given
        BY <1>4, <2>2
    <2>8. reply' # K!NoFrame => reply' = r
        BY <2>5
    <2> QED
        BY <1>1, <1>4, <2>3, <2>4, <2>6, <2>7, <2>8 DEF K!ReplySound
<1>5. CASE f.type = "ip"
    <2> DEFINE mine == f.header[1] \div 16 = 4 /\ SubSeq(f.header, 17, 20) = K!self_g.ip
    <2>1. K!ForSelf(f) <=> mine
        BY <1>5 DEF K!ForSelf
    <2>2. K!parse_ip_packet(f)
        BY <1>1, <1>5
    <2>3. PICK u \in Stack :
             reply' = IF mine /\ f.header[10] = 1 THEN K!ping_reply(f, f.message, u) ELSE K!NoFrame
        BY <2>2 DEF K!parse_ip_packet
    <2>4. handed' = CASE mine /\ f.header[10] = 6  -> "tcp"
                      [] mine /\ f.header[10] = 17 -> "udp"
                      [] OTHER                     -> "nobody"
        BY <2>2 DEF K!parse_ip_packet
    <2> HIDE DEF mine
    <2>5. handed' # "nobody" <=> given
        BY <1>5, <2>1, <2>4
    <2>6. CASE mine /\ f.header[10] = 1
        <3> DEFINE r == K!ping_reply(f, f.message, u)
        <3>1. reply' = r
            BY <2>3, <2>6
        <3>2. u \in K!Byte
            BY FramesAssumption
        <3>3. /\ r.type = "ip" /\ r.eth.dst = f.src
              /\ SubSeq(r.header, 13, 20) = K!self_g.ip \o SubSeq(f.header, 13, 16)
              /\ K!Verifies(r.header) /\ K!Verifies(r.message)
              /\ SubSeq(r.message, 1, 2) = <<0, 0>>
              /\ SubSeq(r.message, 5, Len(f.message)) = SubSeq(f.message, 5, Len(f.message))
              /\ K!Optioned(f) \/ Len(r.message) = Len(f.message)
            BY <1>2, <1>5, <2>6, <3>2, PingSound
        <3> HIDE DEF r
        <3>4. reply' # K!NoFrame /\ wanted
            BY <1>3, <1>5, <2>1, <2>6, <3>1, <3>3
        <3>5. r.type = "ip" /\ f.type = "ip" /\ f.type # "arp" /\ frame' = f
            BY <1>1, <1>5, <3>3
        <3> DEFINE Right(g, a) ==
                /\ a.eth.dst = g.src
                /\ SubSeq(a.header, 13, 20) = K!self_g.ip \o SubSeq(g.header, 13, 16)
                /\ K!Verifies(a.header) /\ K!Verifies(a.message)
                /\ SubSeq(a.message, 1, 2) = <<0, 0>>
                /\ SubSeq(a.message, 5, Len(g.message)) = SubSeq(g.message, 5, Len(g.message))
                /\ K!Optioned(g) \/ Len(a.message) = Len(g.message)
        <3>6. Right(f, r)
            BY <3>3
        <3> HIDE DEF Right
        <3>7. Right(frame', reply')
            BY <3>1, <3>5, <3>6
        <3>8. (reply' # K!NoFrame) = (K!ForSelf(frame') /\ (frame'.type = "ip" => frame'.header[10] = 1))
            BY <3>4, <3>5
        <3>9. (handed' # "nobody") = (frame'.type = "ip" /\ K!ForSelf(frame') /\ frame'.header[10] \in {6, 17})
            BY <2>5, <3>5
        <3>10. frame'.type # "arp"
            BY <3>5
        <3> QED
            BY ONLY <3>7, <3>8, <3>9, <3>10 DEF K!ReplySound, Right
    <2>7. CASE ~(mine /\ f.header[10] = 1)
        <3>1. reply' = K!NoFrame /\ ~wanted
            BY <1>5, <2>1, <2>3, <2>7
        <3> QED
            BY <1>1, <1>5, <2>5, <3>1 DEF K!ReplySound
    <2> QED
        BY <2>6, <2>7
<1>6. CASE f.type = "other"
    <2>1. reply' = K!NoFrame /\ handed' = "nobody"
        BY <1>1, <1>6
    <2>2. ~K!ForSelf(f)
        BY <1>6 DEF K!ForSelf
    <2> QED
        BY <1>1, <1>6, <2>1, <2>2 DEF K!ReplySound, K!ForSelf
<1> QED
    BY <1>2, <1>4, <1>5, <1>6 DEF K!Legal

\* Every frame that another station may send is answered as that station
\* expects: an ARP request and an echo, and no other, and the checksums of an
\* echo verify, whatever is in it and whatever the stack held.
THEOREM RepliesSound == UnitsSpec => []ReplySound
<1>1. UnitsInit => K!ReplySound
    BY DEF UnitsInit, K!Idle, K!ReplySound
<1>2. K!ReplySound /\ [UnitsNext]_all => K!ReplySound'
    <2>1. ASSUME K!parse_rx_packet PROVE K!ReplySound'
        BY <2>1, ReplyStep
    <2>2. ASSUME K!Return PROVE K!ReplySound'
        BY <2>2 DEF K!Return, K!ReplySound
    <2>3. ASSUME K!ReplySound, UNCHANGED parsing PROVE K!ReplySound'
        BY <2>3 DEF parsing, K!ReplySound, K!ForSelf, K!Optioned
    <2> QED
        BY <2>1, <2>2, <2>3 DEF UnitsNext, all, K!PacketNext
<1> QED
    BY <1>1, <1>2, PTL DEF UnitsSpec, ReplySound
-----------------------------------------------------------------------------
(* The numbers of print.  The loop of printi divides a word until nothing  *)
(* is left of it; the padding and the sign leave the value alone.          *)

\* What goes round as a loop does is its result.
LEMMA Looping ==
    ASSUME NEW S, NEW a \in S, NEW n \in Nat, NEW F \in [1..n -> [S -> S]], NEW g, g[0] = a,
           \A k \in 1..n : g[k - 1] \in S => g[k] = F[k][g[k - 1]]
    PROVE  \A k \in 0..n : g[k] \in S
<1> DEFINE set == {k \in Nat : k > n \/ g[k] \in S}
<1>1. 0 \in set
    OBVIOUS
<1>2. ASSUME NEW m \in Nat, m \in set PROVE m + 1 \in set
    <2>1. CASE m + 1 > n
        BY <2>1
    <2>2. CASE m + 1 <= n
        <3>1. m + 1 \in 1..n /\ (m + 1) - 1 = m /\ g[m] \in S
            BY <1>2, <2>2
        <3>2. g[m + 1] = F[m + 1][g[m]]
            BY <3>1
        <3>3. F[m + 1][g[m]] \in S
            BY <3>1
        <3> QED
            BY <3>2, <3>3
    <2> QED
        BY <2>1, <2>2
<1>3. \A k \in Nat : k \in set
    <2> HIDE DEF set
    <2> QED
        BY <1>1, <1>2, Induct
<1> QED
    BY <1>3

LEMMA PowersOf16 ==
    /\ P!Powers \in [0..HexMax -> Nat] /\ P!Powers[0] = 1
    /\ \A n \in 1..HexMax : P!Powers[n] = 16 * P!Powers[n - 1]
    /\ \A n \in 0..HexMax : P!Powers[n] > 0
<1> DEFINE Are(f) == f = [k \in 0..HexMax |-> IF k = 0 THEN 1 ELSE 16 * f[k - 1]]
           pos == Nat \ {0}
<1>1. PICK n \in Nat : n = HexMax
    BY PrintfAssumption
<1>2. PICK F \in [1..n -> [pos -> pos]] : \A m \in pos, k \in 1..n : F[k][m] = 16 * m
    <2> DEFINE G == [k \in 1..n |-> [m \in pos |-> 16 * m]]
    <2>1. G \in [1..n -> [pos -> pos]] /\ \A m \in pos, k \in 1..n : G[k][m] = 16 * m
        BY <1>1
    <2> QED
        BY <2>1
<1>3. PICK f : f \in Loops(pos, 1, n, F)
    <2>1. 1 \in pos
        OBVIOUS
    <2>2. Loops(pos, 1, n, F) # {}
        <3> HIDE DEF pos
        <3> QED
            BY ONLY <1>2, <2>1, n \in Nat, Loop
    <2> QED
        BY <2>2
<1>4. f \in [0..n -> pos] /\ f[0] = 1 /\ \A k \in 1..n : f[k] = F[k][f[k - 1]]
    BY <1>3 DEF Loops
<1>5. Are(f)
    <2>1. ASSUME NEW k \in 1..n PROVE f[k] = 16 * f[k - 1]
        <3>1. k - 1 \in 0..n
            OBVIOUS
        <3>2. f[k] = F[k][f[k - 1]] /\ f[k - 1] \in pos
            BY <1>4, <3>1
        <3> QED
            BY <1>2, <3>2
    <2>2. ASSUME NEW k \in 0..n PROVE f[k] = IF k = 0 THEN 1 ELSE 16 * f[k - 1]
        <3>1. k = 0 \/ k \in 1..n
            OBVIOUS
        <3> QED
            BY <1>4, <2>1, <3>1
    <2>3. f = [k \in 0..n |-> f[k]]
        BY <1>4
    <2> QED
        BY <1>1, <2>2, <2>3
<1>6. P!Powers = CHOOSE g : Are(g)
    BY DEF P!Powers
<1>7. Are(P!Powers)
    <2> HIDE DEF Are
    <2> QED
        BY <1>5, <1>6
<1>8. \A k \in 0..n : P!Powers[k] = IF k = 0 THEN 1 ELSE 16 * P!Powers[k - 1]
    BY <1>1, <1>7
<1>9. P!Powers = [k \in 0..n |-> P!Powers[k]]
    BY <1>1, <1>7
<1>10. P!Powers[0] = 1 /\ \A k \in 1..n : P!Powers[k] = 16 * P!Powers[k - 1]
    BY <1>8
<1>11. \A k \in 1..n : P!Powers[k - 1] \in pos => P!Powers[k] = F[k][P!Powers[k - 1]]
    BY <1>2, <1>10
<1>12. \A k \in 0..n : P!Powers[k] \in pos
    <2>1. 1 \in pos /\ F \in [1..n -> [pos -> pos]]
        BY <1>2
    <2> HIDE DEF pos
    <2> QED
        BY ONLY <1>10, <1>11, <2>1, n \in Nat, Looping
<1>13. \A k \in 0..n : P!Powers[k] \in Nat /\ P!Powers[k] > 0
    BY <1>12
<1>14. P!Powers \in [0..n -> Nat]
    BY ONLY <1>9, <1>13
<1> QED
    BY ONLY <1>1, <1>10, <1>13, <1>14

\* The words: two hexadecimal digits at least.
LEMMA WordsAre == \E p \in Nat \ {0} : P!Mod = 256 * p /\ P!Half = 128 * p
<1>1. HexMax \in 1..HexMax /\ HexMax - 1 \in 1..HexMax /\ HexMax - 2 \in 0..HexMax /\ (HexMax - 1) - 1 = HexMax - 2
    BY PrintfAssumption
<1>2. PICK p \in Nat : p = P!Powers[HexMax - 2] /\ p > 0
    BY <1>1, PowersOf16
<1>3. P!Powers[HexMax - 1] = 16 * p
    BY <1>1, <1>2, PowersOf16
<1>4. P!Mod = 16 * (16 * p)
    BY <1>1, <1>3, PowersOf16 DEF P!Mod
<1>5. P!Mod = 256 * p /\ P!Half = 128 * p
    BY <1>4 DEF P!Half
<1> QED
    BY <1>2, <1>5

\* How far a word is from zero, as the division sees it.
Distance(u, b) == IF b # 16 /\ u >= P!Half THEN P!Mod - u ELSE u

LEMMA Divided ==
    ASSUME NEW u \in P!Word, NEW b \in {10, 16}
    PROVE  /\ P!Quotient(u, b) \in P!Word
           /\ Distance(u, b) \in 0..(P!Mod - 1)
           /\ u # 0 => Distance(u, b) > 0 /\ Distance(P!Quotient(u, b), b) < Distance(u, b)
           /\ b = 16 \/ u < P!Half => /\ P!Quotient(u, b) = u \div b /\ P!Remainder(u, b) = u % b
                                      /\ P!Remainder(u, b) \in 0..(b - 1)
                                      /\ u = P!Quotient(u, b) * b + P!Remainder(u, b)
                                      /\ P!Quotient(u, b) <= u
           /\ P!Remainder(u, b) \in Int
<1>1. PICK p \in Nat \ {0} : P!Mod = 256 * p /\ P!Half = 128 * p
    BY WordsAre
<1>2. u \in Nat /\ u < P!Mod
    BY <1>1 DEF P!Word
<1>3. CASE b = 16
    BY <1>1, <1>2, <1>3 DEF P!Word, P!Quotient, P!Remainder, Distance
<1>4. CASE b = 10 /\ u < P!Half
    <2>1. PICK q \in Nat, r \in 0..9 : q = u \div 10 /\ u = 10 * q + r
        BY <1>2
    <2>2. P!Quotient(u, b) = q
        <3>1. ~(u >= P!Half)
            BY <1>1, <1>2, <1>4
        <3>2. P!Quotient(u, 10) = u \div 10
            BY <3>1 DEF P!Quotient, P!_div
        <3> QED
            BY <1>4, <2>1, <3>2
    <2>3. (u - q * 10) % P!Mod = r
        BY <1>1, <2>1
    <2>4. P!Remainder(u, b) = r
        BY <1>1, <1>2, <1>4, <2>1, <2>3 DEF P!Remainder, P!_div, P!Signed
    <2>5. u % 10 = r
        BY <2>1
    <2> QED
        BY <1>1, <1>2, <1>4, <2>1, <2>2, <2>4, <2>5 DEF P!Word, Distance
<1>5. CASE b = 10 /\ u >= P!Half
    <2>1. PICK q \in Nat, r \in 0..9 : q = (P!Mod - u) \div 10 /\ P!Mod - u = 10 * q + r
        BY <1>1, <1>2
    <2>2. q < P!Half /\ P!Mod - q \in Nat
        BY <1>1, <1>2, <1>5, <2>1
    <2>3. P!Quotient(u, b) = (P!Mod - q) % P!Mod
        BY <1>5, <2>1 DEF P!Quotient, P!_div
    <2>4. (P!Mod - q) % P!Mod = IF q = 0 THEN 0 ELSE P!Mod - q
        BY <1>1, <2>2
    <2>5. PICK m \in Nat : m = P!Quotient(u, b) /\ m = IF q = 0 THEN 0 ELSE P!Mod - q
        BY <1>1, <2>2, <2>3, <2>4
    <2>6. P!Remainder(u, b) \in Int
        <3>1. P!_div(u, b) \in Int
            BY <1>5, <2>5 DEF P!Quotient
        <3>2. PICK x \in Int : x = u - P!_div(u, b) * b
            BY <1>2, <1>5, <3>1
        <3>3. PICK y \in Nat : y = x % P!Mod
            BY <1>1
        <3> QED
            BY <1>1, <1>5, <3>2, <3>3 DEF P!Remainder, P!Signed
    <2> QED
        BY <1>1, <1>2, <1>5, <2>1, <2>2, <2>5, <2>6 DEF P!Word, Distance
<1> QED
    BY <1>2, <1>3, <1>4, <1>5, <1>1

-----------------------------------------------------------------------------
(* The loop of printi.                                                     *)

LEMMA Lefts ==
    ASSUME NEW u0 \in P!Word, NEW b \in {10, 16}
    PROVE  /\ P!Left(u0, b) \in [0..P!Mod -> P!Word] /\ P!Left(u0, b)[0] = u0
           /\ \A n \in 1..P!Mod : P!Left(u0, b)[n] = P!Quotient(P!Left(u0, b)[n - 1], b)
<1> DEFINE Are(f) == f = [n \in 0..P!Mod |-> IF n = 0 THEN u0 ELSE P!Quotient(f[n - 1], b)]
<1>1. PICK n \in Nat : n = P!Mod
    BY WordsAre
<1>2. PICK F \in [1..n -> [P!Word -> P!Word]] : \A u \in P!Word, k \in 1..n : F[k][u] = P!Quotient(u, b)
    <2> DEFINE G == [k \in 1..n |-> [u \in P!Word |-> P!Quotient(u, b)]]
    <2>1. \A u \in P!Word : P!Quotient(u, b) \in P!Word
        BY Divided
    <2>2. G \in [1..n -> [P!Word -> P!Word]] /\ \A u \in P!Word, k \in 1..n : G[k][u] = P!Quotient(u, b)
        BY <2>1
    <2> QED
        BY <2>2
<1>3. PICK f : f \in Loops(P!Word, u0, n, F)
    <2>1. Loops(P!Word, u0, n, F) # {}
        BY ONLY <1>2, n \in Nat, u0 \in P!Word, Loop
    <2> QED
        BY <2>1
<1>4. f \in [0..n -> P!Word] /\ f[0] = u0 /\ \A k \in 1..n : f[k] = F[k][f[k - 1]]
    BY <1>3 DEF Loops
<1>5. Are(f)
    <2>1. ASSUME NEW k \in 1..n PROVE f[k] = P!Quotient(f[k - 1], b)
        <3>1. k - 1 \in 0..n
            OBVIOUS
        <3>2. f[k] = F[k][f[k - 1]] /\ f[k - 1] \in P!Word
            BY <1>4, <3>1
        <3> QED
            BY <1>2, <3>2
    <2>2. ASSUME NEW k \in 0..n PROVE f[k] = IF k = 0 THEN u0 ELSE P!Quotient(f[k - 1], b)
        <3>1. k = 0 \/ k \in 1..n
            OBVIOUS
        <3> QED
            BY <1>4, <2>1, <3>1
    <2>3. f = [k \in 0..n |-> f[k]]
        BY <1>4
    <2> QED
        BY <1>1, <2>2, <2>3
<1>6. PICK l : l = P!Left(u0, b)
    OBVIOUS
<1>7. Are(l)
    <2>1. P!Left(u0, b) = CHOOSE g : Are(g)
        BY DEF P!Left
    <2> HIDE DEF Are
    <2> QED
        BY <1>5, <1>6, <2>1
<1>8. \A k \in 0..n : l[k] = IF k = 0 THEN u0 ELSE P!Quotient(l[k - 1], b)
    BY <1>1, <1>7
<1>9. l = [k \in 0..n |-> l[k]]
    BY <1>1, <1>7
<1>10. l[0] = u0 /\ \A k \in 1..n : l[k] = P!Quotient(l[k - 1], b)
    BY <1>8
<1>11. \A k \in 1..n : l[k - 1] \in P!Word => l[k] = F[k][l[k - 1]]
    BY <1>2, <1>10
<1>12. \A k \in 0..n : l[k] \in P!Word
    BY ONLY <1>2, <1>10, <1>11, n \in Nat, u0 \in P!Word, Looping
<1>13. l \in [0..n -> P!Word]
    BY ONLY <1>9, <1>12
<1> QED
    BY ONLY <1>1, <1>6, <1>10, <1>13

\* The loop ends: n digits were written.
Ends(u0, b, n) ==
    /\ n \in 1..P!Mod /\ P!Left(u0, b)[n] = 0 /\ P!Left(u0, b)[n - 1] # 0
    /\ P!Digits(u0, b) = [k \in 1..n |-> P!Digit(P!Remainder(P!Left(u0, b)[n - k], b))]

LEMMA LoopEnds ==
    ASSUME NEW u0 \in P!Word, u0 # 0, NEW b \in {10, 16}
    PROVE  \E n \in Nat : Ends(u0, b, n)
<1>1. PICK m \in Nat : m = P!Mod
    BY WordsAre
<1>2. PICK l \in [0..m -> P!Word] : l = P!Left(u0, b) /\ l[0] = u0 /\ \A n \in 1..m : l[n] = P!Quotient(l[n - 1], b)
    <2>1. /\ P!Left(u0, b) \in [0..m -> P!Word] /\ P!Left(u0, b)[0] = u0
          /\ \A n \in 1..m : P!Left(u0, b)[n] = P!Quotient(P!Left(u0, b)[n - 1], b)
        BY <1>1, Lefts
    <2> QED
        BY ONLY <2>1, Zenon
<1> DEFINE Over(n) == l[n] = 0 /\ l[n - 1] # 0
           set == {k \in Nat : \/ k > m
                               \/ \E n \in 1..k : Over(n)
                               \/ l[k] # 0 /\ Distance(l[k], b) + k <= m}
<1>3. 0 \in set
    BY <1>1, <1>2, Divided
<1>4. ASSUME NEW k \in Nat, k \in set PROVE k + 1 \in set
    <2>1. CASE \E n \in 1..k : Over(n)
        BY <2>1
    <2>2. CASE k + 1 <= m /\ ~(\E n \in 1..k : Over(n))
        <3>1. l[k] # 0 /\ Distance(l[k], b) + k <= m
            BY <1>4, <2>2
        <3>2. k \in 0..m /\ k + 1 \in 0..m /\ k + 1 \in 1..m /\ (k + 1) - 1 = k
            BY <2>2
        <3>3. l[k] \in P!Word /\ l[k + 1] \in P!Word /\ l[k + 1] = P!Quotient(l[k], b)
            BY <1>2, <3>2
        <3>4. PICK x \in Nat, y \in Nat : x = Distance(l[k], b) /\ y = Distance(l[k + 1], b) /\ y < x
            <4>1. Distance(l[k], b) \in 0..(m - 1) /\ Distance(l[k + 1], b) \in 0..(m - 1)
                BY ONLY <1>1, <3>3, b \in {10, 16}, Divided
            <4>2. Distance(l[k + 1], b) < Distance(l[k], b)
                BY ONLY <3>1, <3>3, b \in {10, 16}, Divided
            <4> QED
                BY ONLY <4>1, <4>2
        <3>5. CASE l[k + 1] = 0
            <4>1. Over(k + 1) /\ k + 1 \in 1..(k + 1)
                BY <3>1, <3>2, <3>5
            <4> QED
                BY <4>1
        <3>6. CASE l[k + 1] # 0
            <4>1. Distance(l[k + 1], b) + (k + 1) <= m
                BY <3>1, <3>4
            <4> QED
                BY <3>6, <4>1
        <3> QED
            BY <3>5, <3>6
    <2>3. CASE k + 1 > m
        BY <2>3
    <2> QED
        BY <2>1, <2>2, <2>3
<1>5. \A k \in Nat : k \in set
    <2> HIDE DEF set
    <2> QED
        BY <1>3, <1>4, Induct
<1>6. \E n \in 1..m : Over(n)
    <2>1. m \in set
        BY <1>5
    <2>2. \/ \E n \in 1..m : Over(n)
          \/ l[m] # 0 /\ Distance(l[m], b) + m <= m
        BY <2>1
    <2>3. l[m] \in P!Word
        BY <1>2
    <2>4. l[m] # 0 => Distance(l[m], b) \in Nat /\ Distance(l[m], b) > 0
        BY <2>3, Divided
    <2> QED
        BY <2>2, <2>4
<1> DEFINE len == CHOOSE n \in 1..m : Over(n)
<1>7. len \in 1..m /\ Over(len)
    <2> HIDE DEF Over
    <2> QED
        BY <1>6
<1>8. P!Digits(u0, b) = [k \in 1..len |-> P!Digit(P!Remainder(l[len - k], b))]
    BY <1>1, <1>2 DEF P!Digits
<1>9. PICK n \in Nat : n = len
    BY <1>7
<1> HIDE DEF len
<1>10. Ends(u0, b, n)
    BY <1>1, <1>2, <1>7, <1>8, <1>9 DEF Ends
<1> QED
    BY <1>10

\* What was printed, digit by digit from the left.
LEMMA DigitsAre ==
    ASSUME NEW u0 \in P!Word, NEW b \in {10, 16}, NEW n \in Nat, Ends(u0, b, n)
    PROVE  /\ P!Digits(u0, b) \in Seq(Int) /\ Len(P!Digits(u0, b)) = n /\ n > 0
           /\ \A k \in 1..n : P!Digits(u0, b)[k] = P!Digit(P!Remainder(P!Left(u0, b)[n - k], b))
<1>1. PICK l : l = P!Left(u0, b)
    OBVIOUS
<1>2. \A k \in 1..n : n - k \in 0..P!Mod
    <2>1. PICK m \in Nat : m = P!Mod
        BY WordsAre
    <2>2. n \in 1..m
        BY <2>1 DEF Ends
    <2> QED
        BY <2>1, <2>2
<1>3. \A k \in 1..n : P!Digit(P!Remainder(l[n - k], b)) \in Int
    <2> SUFFICES ASSUME NEW k \in 1..n PROVE P!Digit(P!Remainder(l[n - k], b)) \in Int
        OBVIOUS
    <2>1. l[n - k] \in P!Word
        BY <1>1, <1>2, Lefts
    <2>2. P!Remainder(l[n - k], b) \in Int
        BY <2>1, Divided
    <2> QED
        BY <2>2 DEF P!Digit, P!Letter
<1>4. PICK g \in [1..n -> Int] : g = P!Digits(u0, b) /\ \A k \in 1..n : g[k] = P!Digit(P!Remainder(l[n - k], b))
    <2>1. P!Digits(u0, b) = [k \in 1..n |-> P!Digit(P!Remainder(l[n - k], b))]
        BY <1>1 DEF Ends
    <2> QED
        BY <1>3, <2>1
<1>5. g \in Seq(Int) /\ Len(g) = n
    OBVIOUS
<1>6. n > 0
    BY WordsAre DEF Ends
<1> QED
    BY ONLY <1>1, <1>4, <1>5, <1>6

-----------------------------------------------------------------------------
(* Padding.                                                                *)

Follows(s, t, n, m) ==
    /\ s \o t \in Seq(Int) /\ Len(s \o t) = n + m
    /\ \A k \in 1..n : (s \o t)[k] = s[k]
    /\ \A k \in 1..m : (s \o t)[n + k] = t[k]
    /\ \A k \in (n + 1)..(n + m) : (s \o t)[k] = t[k - n]

LEMMA Following ==
    ASSUME NEW s \in Seq(Int), NEW t \in Seq(Int), NEW n \in Nat, NEW m \in Nat, n = Len(s), m = Len(t)
    PROVE  Follows(s, t, n, m)
<1>1. s \o t \in Seq(Int) /\ Len(s \o t) = n + m
    OBVIOUS
<1>2. \A k \in 1..n : (s \o t)[k] = s[k]
    OBVIOUS
<1>3. \A k \in (n + 1)..(n + m) : (s \o t)[k] = t[k - n]
    OBVIOUS
<1>4. \A k \in 1..m : (s \o t)[n + k] = t[k]
    <2> SUFFICES ASSUME NEW k \in 1..m PROVE (s \o t)[n + k] = t[k]
        OBVIOUS
    <2>1. n + k \in (n + 1)..(n + m) /\ (n + k) - n = k
        OBVIOUS
    <2> QED
        BY <1>3, <2>1
<1> QED
    BY ONLY <1>1, <1>2, <1>3, <1>4 DEF Follows

\* t is s with f characters of padding.
Pads(t, s, width, right, zero, f) ==
    /\ t \in Seq(Int) /\ f \in Nat /\ Len(t) = Len(s) + f
    /\ width = 0 => f = 0
    /\ Len(s) + f >= width
    /\ Len(s) + f = width \/ f = 0
    /\ right => /\ \A k \in 1..Len(s) : t[k] = s[k]
                /\ \A k \in (Len(s) + 1)..(Len(s) + f) : t[k] = IF zero THEN P!Zero ELSE P!Space
    /\ ~right => /\ \A k \in 1..f : t[k] = IF zero THEN P!Zero ELSE P!Space
                 /\ \A k \in 1..Len(s) : t[f + k] = s[k]

LEMMA PaddedIs ==
    ASSUME NEW s \in Seq(Int), NEW width \in Nat, NEW right \in BOOLEAN, NEW zero \in BOOLEAN
    PROVE  Pads(P!Padded(s, width, right, zero), s, width, right, zero, P!Fill(s, width))
<1>1. PICK n \in Nat, f \in Nat : /\ n = Len(s) /\ f = P!Fill(s, width) /\ (width = 0 => f = 0) /\ n + f >= width
                                  /\ n + f = width \/ f = 0
    <2>1. PICK n \in Nat : n = Len(s)
        OBVIOUS
    <2>2. PICK f \in Nat : f = IF width > n THEN width - n ELSE 0
        <3>1. (IF width > n THEN width - n ELSE 0) \in Nat
            OBVIOUS
        <3> QED
            BY ONLY <3>1, Zenon
    <2>3. f = P!Fill(s, width)
        BY ONLY <2>1, <2>2 DEF P!Fill
    <2>4. (width = 0 => f = 0) /\ n + f >= width /\ (n + f = width \/ f = 0)
        BY ONLY <2>2, n \in Nat, width \in Nat
    <2> QED
        BY ONLY <2>1, <2>3, <2>4, Zenon
<1>2. PICK c \in Int : c = IF zero THEN P!Zero ELSE P!Space
    BY DEF P!Zero, P!Space
<1>3. PICK g \in [1..f -> Int] : \A k \in 1..f : g[k] = c
    <2> DEFINE h == [k \in 1..f |-> c]
    <2>1. h \in [1..f -> Int] /\ \A k \in 1..f : h[k] = c
        OBVIOUS
    <2> QED
        BY <2>1
<1>4. g = [k \in 1..P!Fill(s, width) |-> IF zero THEN P!Zero ELSE P!Space]
    BY <1>1, <1>2, <1>3
<1>5. g \in Seq(Int) /\ Len(g) = f
    OBVIOUS
<1>6. P!Padded(s, width, right, zero) = IF right THEN s \o g ELSE g \o s
    BY <1>4 DEF P!Padded
<1>7. CASE right
    <2>1. /\ s \o g \in Seq(Int) /\ Len(s \o g) = n + f
          /\ \A k \in 1..n : (s \o g)[k] = s[k]
          /\ \A k \in (n + 1)..(n + f) : (s \o g)[k] = g[k - n]
        <3>1. Follows(s, g, n, f)
            BY ONLY <1>1, <1>5, s \in Seq(Int), n \in Nat, f \in Nat, Following
        <3> QED
            BY ONLY <3>1 DEF Follows
    <2>2. \A k \in (n + 1)..(n + f) : g[k - n] = c
        BY <1>3
    <2> QED
        BY ONLY <1>1, <1>2, <1>6, <1>7, <2>1, <2>2 DEF Pads
<1>8. CASE ~right
    <2>1. /\ g \o s \in Seq(Int) /\ Len(g \o s) = n + f
          /\ \A k \in 1..f : (g \o s)[k] = g[k]
          /\ \A k \in 1..n : (g \o s)[f + k] = s[k]
        <3>1. Follows(g, s, f, n)
            BY ONLY <1>1, <1>5, s \in Seq(Int), n \in Nat, f \in Nat, Following
        <3>2. f + n = n + f
            OBVIOUS
        <3> QED
            BY ONLY <3>1, <3>2 DEF Follows
    <2> QED
        BY ONLY <1>1, <1>2, <1>3, <1>6, <1>8, <2>1 DEF Pads
<1> QED
    BY <1>7, <1>8

LEMMA PrintedIs ==
    ASSUME NEW u \in P!Word, NEW b \in {10, 16}, NEW sg \in BOOLEAN, NEW width \in Nat,
           NEW right \in BOOLEAN, NEW zero \in BOOLEAN
    PROVE  P!Printed(u, b, sg, width, right, zero) \in Seq(Int)
        /\ Len(P!Printed(u, b, sg, width, right, zero)) >= width
<1>1. PICK p \in Nat \ {0} : P!Mod = 256 * p /\ P!Half = 128 * p
    BY WordsAre
<1>2. ASSUME NEW s \in Seq(Int), NEW w \in Nat
      PROVE  P!Padded(s, w, right, zero) \in Seq(Int) /\ Len(P!Padded(s, w, right, zero)) >= w
    <2>1. /\ P!Padded(s, w, right, zero) \in Seq(Int)
          /\ Len(P!Padded(s, w, right, zero)) = Len(s) + P!Fill(s, w)
          /\ Len(s) + P!Fill(s, w) >= w
        <3>1. Pads(P!Padded(s, w, right, zero), s, w, right, zero, P!Fill(s, w))
            BY ONLY s \in Seq(Int), w \in Nat, right \in BOOLEAN, zero \in BOOLEAN, PaddedIs
        <3> QED
            BY ONLY <3>1 DEF Pads
    <2> QED
        BY ONLY <2>1
<1> DEFINE neg == sg /\ P!Signed(u) < 0
           v == IF neg THEN (P!Mod - u) % P!Mod ELSE u
<1>3. <<P!Zero>> \in Seq(Int) /\ P!Minus \in Int
    BY DEF P!Zero, P!Minus
<1>4. CASE u = 0
    <2>1. P!Printed(u, b, sg, width, right, zero) = P!Padded(<<P!Zero>>, width, right, zero)
        BY <1>4 DEF P!Printed
    <2> QED
        BY <1>2, <1>3, <2>1
<1>5. CASE u # 0
    <2>1. v \in P!Word /\ v # 0
        BY <1>1, <1>5 DEF P!Word
    <2>2. PICK d \in Seq(Int) : d = P!Digits(v, b)
        <3>1. PICK n \in Nat : Ends(v, b, n)
            BY <2>1, LoopEnds
        <3> QED
            BY <2>1, <3>1, DigitsAre
    <2>3. PICK e \in Seq(Int) : e = <<P!Minus>> \o d
        <3>1. <<P!Minus>> \o d \in Seq(Int)
            BY ONLY <1>3, d \in Seq(Int)
        <3> QED
            BY ONLY <3>1, Zenon
    <2>4. P!Printed(u, b, sg, width, right, zero) =
             IF neg /\ width > 0 /\ zero THEN <<P!Minus>> \o P!Padded(d, width - 1, right, zero)
             ELSE IF neg THEN P!Padded(e, width, right, zero) ELSE P!Padded(d, width, right, zero)
        BY <1>5, <2>2, <2>3 DEF P!Printed
    <2>5. width > 0 => /\ <<P!Minus>> \o P!Padded(d, width - 1, right, zero) \in Seq(Int)
                       /\ Len(<<P!Minus>> \o P!Padded(d, width - 1, right, zero)) >= width
        <3> SUFFICES ASSUME width > 0 PROVE /\ <<P!Minus>> \o P!Padded(d, width - 1, right, zero) \in Seq(Int)
                                            /\ Len(<<P!Minus>> \o P!Padded(d, width - 1, right, zero)) >= width
            OBVIOUS
        <3>1. PICK t \in Seq(Int) : t = P!Padded(d, width - 1, right, zero) /\ Len(t) >= width - 1
            BY <1>2
        <3> QED
            BY ONLY <1>3, <3>1, width \in Nat
    <2> HIDE DEF neg
    <2> QED
        BY <1>2, <2>4, <2>5
<1> QED
    BY <1>4, <1>5

\* How a reader takes a string: spaces, a sign, zeros, digits and spaces.
Laid(s, q, p, l, v) ==
    /\ q <= p /\ p + l <= Len(s)
    /\ v \in [0..l -> Nat] /\ v[0] = 0
    /\ \A j \in 1..l : s[p + j] \in 0..9 /\ v[j] = v[j - 1] * 10 + s[p + j]
    /\ \A k \in (p + l + 1)..Len(s) : s[k] = P!Space
    /\ \A k \in 1..(q - 1) : s[k] = P!Space
    /\ q # 0 => s[q] = P!Minus
    /\ \A k \in (q + 1)..p : s[k] = P!Space \/ s[k] = P!Zero

LEMMA ReadAs ==
    ASSUME NEW s \in Seq(Int), NEW q \in Nat, NEW p \in Nat, NEW l \in Nat, NEW v, Laid(s, q, p, l, v)
    PROVE  P!Decimal(s) = IF q = 0 THEN v[l] ELSE -v[l]
<1> USE DEF Laid
<1>1. PICK n \in Nat : n = Len(s)
    OBVIOUS
<1>0. /\ P!Space \in Int /\ P!Space \notin 0..9 /\ P!Space # 0
      /\ P!Minus \in Int /\ P!Minus \notin 0..9 /\ P!Minus # 0 /\ P!Minus # P!Space /\ P!Zero = 0
    BY DEF P!Space, P!Minus, P!Zero
<1>2. \A k \in 1..n : /\ s[k] \in Int
                      /\ k < q => s[k] = P!Space
                      /\ k = q => s[k] = P!Minus
                      /\ q < k /\ k <= p => s[k] = P!Space \/ s[k] = P!Zero
                      /\ p < k /\ k <= p + l => s[k] \in 0..9
                      /\ k > p + l => s[k] = P!Space
    <2> SUFFICES ASSUME NEW k \in 1..n
                 PROVE  /\ s[k] \in Int
                        /\ k < q => s[k] = P!Space
                        /\ k = q => s[k] = P!Minus
                        /\ q < k /\ k <= p => s[k] = P!Space \/ s[k] = P!Zero
                        /\ p < k /\ k <= p + l => s[k] \in 0..9
                        /\ k > p + l => s[k] = P!Space
        OBVIOUS
    <2>1. s[k] \in Int
        BY <1>1
    <2>2. k < q => s[k] = P!Space
        <3>1. k < q => k \in 1..(q - 1)
            OBVIOUS
        <3> QED
            BY <3>1
    <2>3. k = q => s[k] = P!Minus
        OBVIOUS
    <2>4. q < k /\ k <= p => s[k] = P!Space \/ s[k] = P!Zero
        <3>1. q < k /\ k <= p => k \in (q + 1)..p
            OBVIOUS
        <3> QED
            BY <3>1
    <2>5. p < k /\ k <= p + l => s[k] \in 0..9
        <3>1. p < k /\ k <= p + l => k - p \in 1..l /\ p + (k - p) = k
            OBVIOUS
        <3> QED
            BY <3>1
    <2>6. k > p + l => s[k] = P!Space
        <3>1. k > p + l => k \in (p + l + 1)..Len(s)
            BY <1>1
        <3> QED
            BY <3>1
    <2> QED
        BY ONLY <2>1, <2>2, <2>3, <2>4, <2>5, <2>6
<1>3. \A k \in 1..n : k \in P!Signs(s) <=> k = q
    <2>1. ASSUME NEW k \in 1..n, k \in P!Signs(s) PROVE k = q
        <3>1. s[k] = P!Minus
            BY <2>1 DEF P!Signs
        <3>2. /\ k < q => s[k] = P!Space
              /\ q < k /\ k <= p => s[k] = P!Space \/ s[k] = P!Zero
              /\ p < k /\ k <= p + l => s[k] \in 0..9
              /\ k > p + l => s[k] = P!Space
            BY ONLY <1>2, k \in 1..n
        <3>3. k < q \/ k = q \/ (q < k /\ k <= p) \/ (p < k /\ k <= p + l) \/ k > p + l
            OBVIOUS
        <3> QED
            BY ONLY <1>0, <3>1, <3>2, <3>3
    <2>2. ASSUME q \in 1..n PROVE q \in P!Signs(s)
        <3>1. s[q] = P!Minus /\ \A j \in 1..(q - 1) : s[j] = P!Space
            BY <1>2, <2>2
        <3> QED
            BY <1>1, <2>2, <3>1 DEF P!Signs
    <2> QED
        BY <2>1, <2>2
<1> DEFINE Are(f) == f = [k \in 0..n |-> IF k = 0 THEN 0
                            ELSE IF s[k] = P!Space \/ k \in P!Signs(s) THEN f[k - 1] ELSE f[k - 1] * 10 + s[k]]
<1>4. PICK F \in [1..n -> [Int -> Int]] :
         \A m \in Int, k \in 1..n : F[k][m] = IF s[k] = P!Space \/ k \in P!Signs(s) THEN m ELSE m * 10 + s[k]
    <2> DEFINE G == [k \in 1..n |-> [m \in Int |-> IF s[k] = P!Space \/ k \in P!Signs(s) THEN m ELSE m * 10 + s[k]]]
    <2>1. G \in [1..n -> [Int -> Int]]
        BY <1>2
    <2>2. \A m \in Int, k \in 1..n : G[k][m] = IF s[k] = P!Space \/ k \in P!Signs(s) THEN m ELSE m * 10 + s[k]
        OBVIOUS
    <2> HIDE DEF G
    <2> QED
        BY <2>1, <2>2
<1>5. PICK f : f \in Loops(Int, 0, n, F)
    <2>1. Loops(Int, 0, n, F) # {}
        BY ONLY 0 \in Int, n \in Nat, <1>4, Loop
    <2> QED
        BY <2>1
<1>6. f \in [0..n -> Int] /\ f[0] = 0 /\ \A k \in 1..n : f[k] = F[k][f[k - 1]]
    BY <1>5 DEF Loops
<1>7. Are(f)
    <2>1. ASSUME NEW k \in 1..n
          PROVE  f[k] = IF s[k] = P!Space \/ k \in P!Signs(s) THEN f[k - 1] ELSE f[k - 1] * 10 + s[k]
        <3>1. k - 1 \in 0..n
            OBVIOUS
        <3>2. f[k] = F[k][f[k - 1]] /\ f[k - 1] \in Int
            BY <1>6, <3>1
        <3> QED
            BY <1>4, <3>2
    <2>2. ASSUME NEW k \in 0..n
          PROVE  f[k] = IF k = 0 THEN 0 ELSE IF s[k] = P!Space \/ k \in P!Signs(s) THEN f[k - 1]
              ELSE f[k - 1] * 10 + s[k]
        <3>1. k = 0 \/ k \in 1..n
            OBVIOUS
        <3> QED
            BY <1>6, <2>1, <3>1
    <2>3. f = [k \in 0..n |-> f[k]]
        BY <1>6
    <2> QED
        BY <2>2, <2>3
<1>8. PICK m : m = P!Magnitudes(s)
    OBVIOUS
<1>9. Are(m)
    <2>1. P!Magnitudes(s) = CHOOSE g : Are(g)
        BY <1>1 DEF P!Magnitudes
    <2> HIDE DEF Are
    <2> QED
        BY <1>7, <1>8, <2>1
<1>10. \A k \in 0..n : m[k] = IF k = 0 THEN 0
      ELSE IF s[k] = P!Space \/ k \in P!Signs(s) THEN m[k - 1] ELSE m[k - 1] * 10 + s[k]
    BY <1>9
<1> DEFINE set == {k \in Nat : k > n \/ m[k] = IF k <= p THEN 0 ELSE IF k <= p + l THEN v[k - p] ELSE v[l]}
<1>11. 0 \in set
    BY <1>10
<1>12. ASSUME NEW k \in Nat, k \in set PROVE k + 1 \in set
    <2>1. CASE k + 1 > n
        BY <2>1
    <2>2. CASE k + 1 <= n
        <3>1. k + 1 \in 1..n /\ k + 1 \in 0..n /\ k + 1 # 0 /\ (k + 1) - 1 = k
            BY <2>2
        <3>2. m[k + 1] = IF s[k + 1] = P!Space \/ k + 1 \in P!Signs(s) THEN m[k] ELSE m[k] * 10 + s[k + 1]
            BY <1>10, <3>1
        <3>3. m[k] = IF k <= p THEN 0 ELSE IF k <= p + l THEN v[k - p] ELSE v[l]
            BY <1>12, <2>2
        <3>4. k + 1 \in P!Signs(s) <=> k + 1 = q
            BY <1>3, <3>1
        <3>5. CASE k + 1 <= p
            <4>1. s[k + 1] = P!Space \/ k + 1 = q \/ s[k + 1] = 0
                <5>1. /\ k + 1 < q => s[k + 1] = P!Space
                      /\ q < k + 1 /\ k + 1 <= p => s[k + 1] = P!Space \/ s[k + 1] = P!Zero
                    BY ONLY <1>2, <3>1
                <5>2. k + 1 < q \/ k + 1 = q \/ q < k + 1
                    OBVIOUS
                <5> QED
                    BY ONLY <1>0, <3>5, <5>1, <5>2
            <4>2. m[k] = 0
                BY <3>3, <3>5
            <4>3. m[k + 1] = 0
                BY ONLY <3>2, <3>4, <4>1, <4>2
            <4> QED
                BY <3>5, <4>3
        <3>6. CASE p < k + 1 /\ k + 1 <= p + l
            <4>1. PICK j \in 1..l : j = k + 1 - p /\ k + 1 = p + j
                BY <3>6
            <4>2. s[k + 1] \in 0..9 /\ k + 1 # q /\ v[j] = v[j - 1] * 10 + s[k + 1]
                BY <4>1
            <4>3. m[k] = v[j - 1]
                <5>1. CASE k = p
                    BY <3>3, <4>1, <5>1
                <5>2. CASE k > p
                    BY <3>3, <3>6, <4>1, <5>2
                <5> QED
                    BY <3>6, <5>1, <5>2
            <4>4. m[k + 1] = v[j]
                BY ONLY <1>0, <3>2, <3>4, <4>2, <4>3
            <4> QED
                BY <3>6, <4>1, <4>4
        <3>7. CASE k + 1 > p + l
            <4>1. s[k + 1] = P!Space
                BY <1>2, <3>1, <3>7
            <4>2. m[k] = v[l]
                <5>1. CASE k <= p
                    <6>1. l = 0 /\ k = p
                        BY <3>7, <5>1
                    <6> QED
                        BY <3>3, <5>1, <6>1
                <5>2. CASE k > p /\ k <= p + l
                    <6>1. k - p = l
                        BY <3>7, <5>2
                    <6> QED
                        BY <3>3, <5>2, <6>1
                <5>3. CASE k > p + l
                    BY <3>3, <5>3
                <5> QED
                    BY <5>1, <5>2, <5>3
            <4>3. m[k + 1] = v[l]
                BY ONLY <3>2, <4>1, <4>2
            <4> QED
                <5>1. k + 1 \in Nat /\ ~(k + 1 <= p) /\ ~(k + 1 <= p + l)
                    BY <3>7
                <5> QED
                    BY ONLY <4>3, <5>1
        <3> QED
            BY <3>5, <3>6, <3>7
    <2> QED
        BY <2>1, <2>2
<1>13. \A k \in Nat : k \in set
    <2> HIDE DEF set
    <2> QED
        BY <1>11, <1>12, Induct
<1>14. m[n] = v[l]
    <2>1. m[n] = IF n <= p THEN 0 ELSE IF n <= p + l THEN v[n - p] ELSE v[l]
        BY <1>13
    <2>2. CASE n <= p
        <3>1. l = 0
            BY <1>1, <2>2
        <3> QED
            BY <2>1, <2>2, <3>1
    <2>3. CASE n > p /\ n <= p + l
        <3>1. n - p = l
            BY <1>1, <2>3
        <3> QED
            BY <2>1, <2>3, <3>1
    <2>4. CASE n > p + l
        BY <2>1, <2>4
    <2> QED
        BY <2>2, <2>3, <2>4
<1>15. P!Signs(s) = {} <=> q = 0
    <2>1. \A k \in P!Signs(s) : k \in 1..n
        BY <1>1 DEF P!Signs
    <2>2. q # 0 => q \in 1..n
        BY <1>1
    <2> QED
        BY <1>3, <2>1, <2>2
<1> QED
    BY <1>1, <1>8, <1>14, <1>15 DEF P!Decimal

-----------------------------------------------------------------------------
(* What the digits say.                                                    *)

LEMMA Smaller ==
    ASSUME NEW u0 \in P!Word, NEW b \in {10, 16}, b = 16 \/ u0 < P!Half
    PROVE  \A k \in 0..P!Mod : P!Left(u0, b)[k] <= u0
<1>1. PICK m \in Nat : m = P!Mod
    BY WordsAre
<1>2. PICK l \in [0..m -> P!Word] : l = P!Left(u0, b) /\ l[0] = u0 /\ \A n \in 1..m : l[n] = P!Quotient(l[n - 1], b)
    <2>1. /\ P!Left(u0, b) \in [0..m -> P!Word] /\ P!Left(u0, b)[0] = u0
          /\ \A n \in 1..m : P!Left(u0, b)[n] = P!Quotient(P!Left(u0, b)[n - 1], b)
        BY <1>1, Lefts
    <2> QED
        BY ONLY <2>1, Zenon
<1> DEFINE set == {k \in Nat : k > m \/ l[k] <= u0}
<1>3. 0 \in set
    BY <1>2 DEF P!Word
<1>4. ASSUME NEW k \in Nat, k \in set PROVE k + 1 \in set
    <2>1. CASE k + 1 > m
        BY <2>1
    <2>2. CASE k + 1 <= m
        <3>1. k \in 0..m /\ k + 1 \in 1..m /\ (k + 1) - 1 = k /\ l[k] <= u0
            BY <1>4, <2>2
        <3>2. l[k] \in P!Word /\ l[k + 1] = P!Quotient(l[k], b)
            BY <1>2, <3>1
        <3>3. b = 16 \/ l[k] < P!Half
            BY <3>1, <3>2, WordsAre DEF P!Word
        <3>4. P!Quotient(l[k], b) <= l[k] /\ P!Quotient(l[k], b) \in P!Word
            BY ONLY <3>2, <3>3, b \in {10, 16}, Divided
        <3>5. l[k + 1] <= u0
            BY <3>1, <3>2, <3>4, <1>1 DEF P!Word
        <3> QED
            BY <3>5
    <2> QED
        BY <2>1, <2>2
<1>5. \A k \in Nat : k \in set
    <2> HIDE DEF set
    <2> QED
        BY <1>3, <1>4, Induct
<1> QED
    BY <1>1, <1>2, <1>5

\* The value of the first j digits, and digit j.
Valued(u0, b, n) ==
    \E v \in [0..n -> P!Word], r \in [1..n -> 0..(b - 1)] :
        /\ v[0] = 0 /\ v[n] = u0
        /\ \A j \in 1..n : v[j] = v[j - 1] * b + r[j] /\ P!Digits(u0, b)[j] = P!Digit(r[j])

LEMMA ValuesAre ==
    ASSUME NEW u0 \in P!Word, NEW b \in {10, 16}, b = 16 \/ u0 < P!Half, NEW n \in Nat, Ends(u0, b, n)
    PROVE  Valued(u0, b, n)
<1>1. PICK m \in Nat : m = P!Mod
    BY WordsAre
<1>2. PICK l \in [0..m -> P!Word] : l = P!Left(u0, b) /\ l[0] = u0 /\ \A k \in 1..m : l[k] = P!Quotient(l[k - 1], b)
    <2>1. /\ P!Left(u0, b) \in [0..m -> P!Word] /\ P!Left(u0, b)[0] = u0
          /\ \A k \in 1..m : P!Left(u0, b)[k] = P!Quotient(P!Left(u0, b)[k - 1], b)
        BY <1>1, Lefts
    <2> QED
        BY ONLY <2>1, Zenon
<1>3. n \in 1..m /\ l[n] = 0
    BY <1>1, <1>2 DEF Ends
<1>4. \A j \in 0..n : n - j \in 0..m
    BY <1>3
<1> DEFINE vv == [j \in 0..n |-> l[n - j]]
           rr == [j \in 1..n |-> P!Remainder(l[n - j], b)]
<1>5. vv \in [0..n -> P!Word] /\ vv[0] = 0 /\ vv[n] = u0
    BY <1>2, <1>3, <1>4
<1>6. ASSUME NEW j \in 1..n
      PROVE  rr[j] \in 0..(b - 1) /\ vv[j] = vv[j - 1] * b + rr[j] /\ P!Digits(u0, b)[j] = P!Digit(rr[j])
    <2>1. PICK k \in 0..m : k = n - j /\ k + 1 \in 1..m /\ (k + 1) - 1 = k /\ n - (j - 1) = k + 1
        BY <1>3
    <2>2. l[k] \in P!Word /\ l[k + 1] = P!Quotient(l[k], b) /\ l[k] <= u0
        BY <1>1, <1>2, <2>1, Smaller
    <2>3. b = 16 \/ l[k] < P!Half
        BY <2>2, WordsAre DEF P!Word
    <2>4. P!Remainder(l[k], b) \in 0..(b - 1) /\ l[k] = P!Quotient(l[k], b) * b + P!Remainder(l[k], b)
        BY ONLY <2>2, <2>3, b \in {10, 16}, Divided
    <2>5. vv[j] = l[k] /\ vv[j - 1] = l[k + 1] /\ rr[j] = P!Remainder(l[k], b)
        <3>1. j \in 0..n /\ j - 1 \in 0..n
            OBVIOUS
        <3> QED
            BY ONLY <2>1, <3>1, j \in 1..n
    <2>6. P!Digits(u0, b)[j] = P!Digit(P!Remainder(l[k], b))
        <3>1. \A i \in 1..n : P!Digits(u0, b)[i] = P!Digit(P!Remainder(P!Left(u0, b)[n - i], b))
            BY DigitsAre
        <3> QED
            BY ONLY <1>2, <2>1, <3>1, j \in 1..n
    <2> QED
        BY ONLY <2>2, <2>4, <2>5, <2>6
<1>7. rr \in [1..n -> 0..(b - 1)]
    <2>1. \A j \in 1..n : P!Remainder(l[n - j], b) \in 0..(b - 1)
        BY <1>6
    <2> QED
        BY <2>1
<1>8. PICK v \in [0..n -> P!Word], r \in [1..n -> 0..(b - 1)] : v = vv /\ r = rr
    <2> HIDE DEF vv, rr
    <2> QED
        BY <1>5, <1>7
<1> HIDE DEF vv, rr
<1> QED
    BY ONLY <1>5, <1>6, <1>8 DEF Valued

\* A string is the decimal digits of a number.
Spells(d, u) ==
    /\ d \in Seq(Int)
    /\ \E v \in [0..Len(d) -> Nat] : /\ v[0] = 0 /\ v[Len(d)] = u
                                     /\ \A j \in 1..Len(d) : d[j] \in 0..9 /\ v[j] = v[j - 1] * 10 + d[j]

LEMMA Spelled ==
    ASSUME NEW u0 \in P!Word, u0 # 0, u0 < P!Half
    PROVE  Spells(P!Digits(u0, 10), u0)
<1>0. PICK b \in {10, 16} : b = 10
    OBVIOUS
<1>1. PICK n \in Nat : Ends(u0, b, n)
    BY LoopEnds
<1>2. PICK d \in Seq(Int) : d = P!Digits(u0, b) /\ Len(d) = n
    BY <1>1, DigitsAre
<1>3. PICK v \in [0..n -> P!Word], r \in [1..n -> 0..(b - 1)] :
         /\ v[0] = 0 /\ v[n] = u0
         /\ \A j \in 1..n : v[j] = v[j - 1] * b + r[j] /\ P!Digits(u0, b)[j] = P!Digit(r[j])
    <2>1. Valued(u0, b, n)
        BY ONLY <1>1, b = 16 \/ u0 < P!Half, u0 \in P!Word, b \in {10, 16}, n \in Nat, ValuesAre
    <2> QED
        BY ONLY <2>1, Zenon DEF Valued
<1>4. \A j \in 1..n : d[j] \in 0..9 /\ v[j] = v[j - 1] * 10 + d[j]
    <2> SUFFICES ASSUME NEW j \in 1..n PROVE d[j] \in 0..9 /\ v[j] = v[j - 1] * 10 + d[j]
        OBVIOUS
    <2>1. r[j] \in 0..9
        BY <1>0
    <2>2. d[j] = P!Digit(r[j])
        BY ONLY <1>2, <1>3, j \in 1..n
    <2>3. P!Digit(r[j]) = r[j]
        BY ONLY <2>1 DEF P!Digit
    <2> QED
        BY ONLY <1>0, <1>3, <2>1, <2>2, <2>3, j \in 1..n
<1>5. v \in [0..Len(d) -> Nat] /\ v[Len(d)] = u0
    BY <1>2, <1>3, WordsAre DEF P!Word
<1>6. Spells(d, u0)
    BY ONLY <1>2, <1>3, <1>4, <1>5 DEF Spells
<1> QED
    BY <1>0, <1>2, <1>6

LEMMA SpelledZero == Spells(<<P!Zero>>, 0)
<1>1. PICK d \in Seq(Int) : d = <<P!Zero>> /\ Len(d) = 1 /\ d[1] = 0
    <2>1. <<P!Zero>> \in Seq(Int) /\ Len(<<P!Zero>>) = 1 /\ <<P!Zero>>[1] = 0
        BY DEF P!Zero
    <2> QED
        BY ONLY <2>1, Zenon
<1>2. PICK v \in [0..1 -> Nat] : v[0] = 0 /\ v[1] = 0
    <2> DEFINE w == [j \in 0..1 |-> 0]
    <2>1. w \in [0..1 -> Nat] /\ w[0] = 0 /\ w[1] = 0
        OBVIOUS
    <2> QED
        BY <2>1
<1>3. \A j \in 1..1 : d[j] \in 0..9 /\ v[j] = v[j - 1] * 10 + d[j]
    BY <1>1, <1>2
<1>4. Spells(d, 0)
    BY ONLY <1>1, <1>2, <1>3 DEF Spells
<1> QED
    BY <1>1, <1>4

LEMMA ReadsPlain ==
    ASSUME NEW u \in Nat, NEW d, Spells(d, u), NEW width \in Nat, NEW right \in BOOLEAN, NEW zero \in BOOLEAN,
           ~(zero /\ right)
    PROVE  P!Decimal(P!Padded(d, width, right, zero)) = u
<1>1. PICK l \in Nat : d \in Seq(Int) /\ l = Len(d)
    BY DEF Spells
<1>2. PICK v \in [0..l -> Nat] : v[0] = 0 /\ v[l] = u /\ \A j \in 1..l : d[j] \in 0..9 /\ v[j] = v[j - 1] * 10 + d[j]
    BY <1>1 DEF Spells
<1>3. PICK s, f : s = P!Padded(d, width, right, zero) /\ f = P!Fill(d, width)
    OBVIOUS
<1>4. /\ s \in Seq(Int) /\ f \in Nat /\ Len(s) = l + f
      /\ right => /\ \A k \in 1..l : s[k] = d[k]
                  /\ \A k \in (l + 1)..(l + f) : s[k] = IF zero THEN P!Zero ELSE P!Space
      /\ ~right => /\ \A k \in 1..f : s[k] = IF zero THEN P!Zero ELSE P!Space
                   /\ \A k \in 1..l : s[f + k] = d[k]
    <2>1. Pads(P!Padded(d, width, right, zero), d, width, right, zero, P!Fill(d, width))
        BY ONLY <1>1, width \in Nat, right \in BOOLEAN, zero \in BOOLEAN, PaddedIs
    <2> QED
        BY ONLY <1>1, <1>3, <2>1 DEF Pads
<1>5. PICK p \in Nat, q \in Nat : p = (IF right THEN 0 ELSE f) /\ q = 0
    BY <1>4
<1>6. \A j \in 1..l : s[p + j] \in 0..9 /\ v[j] = v[j - 1] * 10 + s[p + j]
    <2> SUFFICES ASSUME NEW j \in 1..l PROVE s[p + j] = d[j]
        BY <1>2
    <2> QED
        BY <1>4, <1>5
<1>7. \A k \in (p + l + 1)..Len(s) : s[k] = P!Space
    <2>1. CASE right
        BY <1>4, <1>5, <2>1
    <2>2. CASE ~right
        BY <1>4, <1>5, <2>2
    <2> QED
        BY <2>1, <2>2
<1>8. \A k \in (q + 1)..p : s[k] = P!Space \/ s[k] = P!Zero
    BY <1>4, <1>5
<1>9. q <= p /\ p + l <= Len(s) /\ (q # 0 => s[q] = P!Minus) /\ \A k \in 1..(q - 1) : s[k] = P!Space
    BY <1>4, <1>5
<1>10. P!Decimal(s) = IF q = 0 THEN v[l] ELSE -v[l]
    <2>1. Laid(s, q, p, l, v)
        BY ONLY <1>2, <1>4, <1>6, <1>7, <1>8, <1>9 DEF Laid
    <2> QED
        BY ONLY <2>1, <1>4, l \in Nat, p \in Nat, q \in Nat, ReadAs
<1> QED
    BY ONLY <1>2, <1>3, <1>5, <1>10

\* The sign before the zeros.
LEMMA ReadsSignFirst ==
    ASSUME NEW u \in Nat, NEW d, Spells(d, u), NEW width \in Nat
    PROVE  P!Decimal(<<P!Minus>> \o P!Padded(d, width, FALSE, TRUE)) = -u
<1>1. PICK l \in Nat : d \in Seq(Int) /\ l = Len(d)
    BY DEF Spells
<1>2. PICK v \in [0..l -> Nat] : v[0] = 0 /\ v[l] = u /\ \A j \in 1..l : d[j] \in 0..9 /\ v[j] = v[j - 1] * 10 + d[j]
    BY <1>1 DEF Spells
<1>3. PICK t, f : t = P!Padded(d, width, FALSE, TRUE) /\ f = P!Fill(d, width)
    OBVIOUS
<1>4. /\ t \in Seq(Int) /\ f \in Nat /\ Len(t) = l + f
      /\ \A k \in 1..f : t[k] = P!Zero
      /\ \A k \in 1..l : t[f + k] = d[k]
    <2>0. PICK right \in BOOLEAN, zero \in BOOLEAN : right = FALSE /\ zero = TRUE
        OBVIOUS
    <2>1. Pads(P!Padded(d, width, right, zero), d, width, right, zero, P!Fill(d, width))
        BY ONLY <1>1, width \in Nat, right \in BOOLEAN, zero \in BOOLEAN, PaddedIs
    <2> QED
        BY ONLY <1>1, <1>3, <2>0, <2>1 DEF Pads
<1>5. PICK e \in Seq(Int) : e = <<P!Minus>> /\ Len(e) = 1 /\ e[1] = P!Minus
    <2>0. P!Minus \in Int
        BY DEF P!Minus
    <2>1. <<P!Minus>> \in Seq(Int) /\ Len(<<P!Minus>>) = 1 /\ <<P!Minus>>[1] = P!Minus
        BY ONLY <2>0
    <2> QED
        BY ONLY <2>1, Zenon
<1>6. PICK s : s = e \o t
    OBVIOUS
<1>7. s \in Seq(Int) /\ Len(s) = 1 + (l + f) /\ s[1] = P!Minus /\ \A k \in 1..(l + f) : s[1 + k] = t[k]
    <2>1. PICK n \in Nat, m \in Nat : n = 1 /\ m = l + f /\ n = Len(e) /\ m = Len(t)
        BY <1>4, <1>5
    <2>2. Follows(e, t, n, m)
        BY ONLY <1>4, <2>1, e \in Seq(Int), n \in Nat, m \in Nat, Following
    <2>3. /\ s \in Seq(Int) /\ Len(s) = n + m
          /\ \A k \in 1..n : s[k] = e[k]
          /\ \A k \in 1..m : s[n + k] = t[k]
        BY ONLY <1>6, <2>2 DEF Follows
    <2> QED
        BY ONLY <1>5, <2>1, <2>3
<1>8. PICK p \in Nat, q \in Nat : p = 1 + f /\ q = 1
    BY <1>4
<1>9. \A j \in 1..l : s[p + j] \in 0..9 /\ v[j] = v[j - 1] * 10 + s[p + j]
    <2> SUFFICES ASSUME NEW j \in 1..l PROVE s[p + j] = d[j]
        BY <1>2
    <2>1. p + j = 1 + (f + j) /\ f + j \in 1..(l + f)
        BY <1>4, <1>8
    <2> QED
        BY ONLY <1>4, <1>7, <2>1, j \in 1..l
<1>10. \A k \in (q + 1)..p : s[k] = P!Space \/ s[k] = P!Zero
    <2> SUFFICES ASSUME NEW k \in (q + 1)..p PROVE s[k] = P!Zero
        OBVIOUS
    <2>1. PICK i \in 1..f : k = 1 + i
        <3>1. f \in Nat
            BY <1>4
        <3>2. k - 1 \in 1..f /\ k = 1 + (k - 1)
            BY ONLY <1>8, <3>1, k \in (q + 1)..p
        <3> QED
            BY ONLY <3>2, Zenon
    <2> QED
        <3>1. t[i] = P!Zero
            BY ONLY <1>4, <2>1
        <3>2. i \in 1..(l + f)
            BY ONLY <1>4, <2>1, l \in Nat
        <3>3. s[1 + i] = t[i]
            BY ONLY <1>7, <3>2
        <3> QED
            BY ONLY <2>1, <3>1, <3>3
<1>11. /\ q <= p /\ p + l <= Len(s) /\ (q # 0 => s[q] = P!Minus) /\ \A k \in 1..(q - 1) : s[k] = P!Space
       /\ \A k \in (p + l + 1)..Len(s) : s[k] = P!Space
    BY <1>4, <1>7, <1>8
<1>12. P!Decimal(s) = IF q = 0 THEN v[l] ELSE -v[l]
    <2>1. Laid(s, q, p, l, v)
        BY ONLY <1>2, <1>7, <1>9, <1>10, <1>11 DEF Laid
    <2> QED
        BY ONLY <2>1, <1>4, <1>7, l \in Nat, p \in Nat, q \in Nat, ReadAs
<1>13. P!Decimal(s) = -u
    BY ONLY <1>2, <1>8, <1>12
<1>14. s = <<P!Minus>> \o P!Padded(d, width, FALSE, TRUE)
    BY ONLY <1>3, <1>5, <1>6, Zenon
<1> QED
    BY ONLY <1>13, <1>14, Zenon

\* The sign next to the digits.
LEMMA ReadsSignLast ==
    ASSUME NEW u \in Nat, NEW d, Spells(d, u), NEW width \in Nat, NEW right \in BOOLEAN, NEW zero \in BOOLEAN,
           ~(zero /\ width > 0)
    PROVE  P!Decimal(P!Padded(<<P!Minus>> \o d, width, right, zero)) = -u
<1>1. PICK l \in Nat : d \in Seq(Int) /\ l = Len(d)
    BY DEF Spells
<1>2. PICK v \in [0..l -> Nat] : v[0] = 0 /\ v[l] = u /\ \A j \in 1..l : d[j] \in 0..9 /\ v[j] = v[j - 1] * 10 + d[j]
    BY <1>1 DEF Spells
<1>5. PICK e \in Seq(Int) : e = <<P!Minus>> /\ Len(e) = 1 /\ e[1] = P!Minus
    <2>0. P!Minus \in Int
        BY DEF P!Minus
    <2>1. <<P!Minus>> \in Seq(Int) /\ Len(<<P!Minus>>) = 1 /\ <<P!Minus>>[1] = P!Minus
        BY ONLY <2>0
    <2> QED
        BY ONLY <2>1, Zenon
<1>6. PICK t : t = e \o d
    OBVIOUS
<1>7. t \in Seq(Int) /\ Len(t) = 1 + l /\ t[1] = P!Minus /\ \A k \in 1..l : t[1 + k] = d[k]
    <2>1. PICK n \in Nat : n = 1 /\ n = Len(e)
        BY <1>5
    <2>2. Follows(e, d, n, l)
        BY ONLY <1>1, <2>1, e \in Seq(Int), n \in Nat, l \in Nat, Following
    <2>3. /\ t \in Seq(Int) /\ Len(t) = n + l
          /\ \A k \in 1..n : t[k] = e[k]
          /\ \A k \in 1..l : t[n + k] = d[k]
        BY ONLY <1>6, <2>2 DEF Follows
    <2> QED
        BY ONLY <1>5, <2>1, <2>3
<1>3. PICK s, f : s = P!Padded(t, width, right, zero) /\ f = P!Fill(t, width)
    OBVIOUS
<1>4. /\ s \in Seq(Int) /\ f \in Nat /\ (width = 0 => f = 0) /\ Len(s) = (1 + l) + f
      /\ right => /\ \A k \in 1..(1 + l) : s[k] = t[k]
                  /\ \A k \in ((1 + l) + 1)..((1 + l) + f) : s[k] = IF zero THEN P!Zero ELSE P!Space
      /\ ~right => /\ \A k \in 1..f : s[k] = IF zero THEN P!Zero ELSE P!Space
                   /\ \A k \in 1..(1 + l) : s[f + k] = t[k]
    <2>1. Pads(P!Padded(t, width, right, zero), t, width, right, zero, P!Fill(t, width))
        BY ONLY <1>7, width \in Nat, right \in BOOLEAN, zero \in BOOLEAN, PaddedIs
    <2> QED
        BY ONLY <1>3, <1>7, <2>1 DEF Pads
<1>8. PICK p \in Nat, q \in Nat, g \in Nat : g = (IF right THEN 0 ELSE f) /\ p = 1 + g /\ q = 1 + g
    BY <1>4
<1>9. \A k \in 1..(1 + l) : s[g + k] = t[k]
    <2>1. CASE right
        <3>1. \A k \in 1..(1 + l) : g + k = k
            BY ONLY <1>8, <2>1, l \in Nat
        <3> QED
            BY ONLY <1>4, <2>1, <3>1
    <2>2. CASE ~right
        <3>1. g = f
            BY ONLY <1>8, <2>2
        <3> QED
            BY ONLY <1>4, <2>2, <3>1
    <2> QED
        BY <2>1, <2>2
<1>10. \A j \in 1..l : s[p + j] \in 0..9 /\ v[j] = v[j - 1] * 10 + s[p + j]
    <2> SUFFICES ASSUME NEW j \in 1..l PROVE s[p + j] = d[j]
        BY <1>2
    <2>0. p = 1 + g
        BY ONLY <1>8, Zenon
    <2>1. p + j = g + (1 + j) /\ 1 + j \in 1..(1 + l)
        BY ONLY <2>0, j \in 1..l, l \in Nat, g \in Nat
    <2> QED
        BY ONLY <1>7, <1>9, <2>1, j \in 1..l
<1>11. s[q] = P!Minus
    <2>1. q = g + 1 /\ 1 \in 1..(1 + l)
        BY <1>8
    <2> QED
        BY ONLY <1>7, <1>9, <2>1
<1>12. \A k \in 1..(q - 1) : s[k] = P!Space
    <2> SUFFICES ASSUME NEW k \in 1..(q - 1) PROVE s[k] = P!Space
        OBVIOUS
    <2>1. ~right /\ k \in 1..f /\ ~zero
        BY <1>4, <1>8
    <2> QED
        BY <1>4, <2>1
<1>13. \A k \in (p + l + 1)..Len(s) : s[k] = P!Space
    <2> SUFFICES ASSUME NEW k \in (p + l + 1)..Len(s) PROVE s[k] = P!Space
        OBVIOUS
    <2>1. right /\ k \in ((1 + l) + 1)..((1 + l) + f) /\ ~zero
        BY <1>4, <1>8
    <2> QED
        BY <1>4, <2>1
<1>14. q <= p /\ p + l <= Len(s) /\ \A k \in (q + 1)..p : s[k] = P!Space \/ s[k] = P!Zero
    BY <1>4, <1>8
<1>15. P!Decimal(s) = IF q = 0 THEN v[l] ELSE -v[l]
    <2>1. Laid(s, q, p, l, v)
        BY ONLY <1>2, <1>4, <1>10, <1>11, <1>12, <1>13, <1>14 DEF Laid
    <2> QED
        BY ONLY <2>1, <1>4, l \in Nat, p \in Nat, q \in Nat, ReadAs
<1> QED
    BY ONLY <1>2, <1>3, <1>5, <1>6, <1>8, <1>15

LEMMA DecimalReads ==
    ASSUME NEW u \in P!Word, NEW sg \in BOOLEAN, NEW width \in Nat, NEW right \in BOOLEAN, NEW zero \in BOOLEAN,
           ~(zero /\ right), IF sg THEN u # P!Half ELSE u < P!Half
    PROVE  P!Decimal(P!Printed(u, 10, sg, width, right, zero)) = IF sg THEN P!Signed(u) ELSE u
<1>1. PICK p \in Nat \ {0} : P!Mod = 256 * p /\ P!Half = 128 * p
    BY WordsAre
<1>2. u \in Nat /\ u < P!Mod
    BY <1>1 DEF P!Word
<1>3. CASE u = 0
    <2>1. P!Printed(u, 10, sg, width, right, zero) = P!Padded(<<P!Zero>>, width, right, zero)
        BY <1>3 DEF P!Printed
    <2>2. P!Decimal(P!Padded(<<P!Zero>>, width, right, zero)) = 0
        BY SpelledZero, ReadsPlain
    <2>3. P!Signed(u) = 0
        BY <1>1, <1>3 DEF P!Signed
    <2> QED
        BY <1>3, <2>1, <2>2, <2>3
<1>4. CASE u # 0 /\ u < P!Half
    <2>1. P!Signed(u) = u /\ ~(P!Signed(u) < 0)
        BY <1>2, <1>1, <1>4 DEF P!Signed
    <2>2. P!Printed(u, 10, sg, width, right, zero) = P!Padded(P!Digits(u, 10), width, right, zero)
        BY <1>4, <2>1 DEF P!Printed
    <2>3. Spells(P!Digits(u, 10), u)
        BY <1>4, Spelled
    <2>4. P!Decimal(P!Padded(P!Digits(u, 10), width, right, zero)) = u
        BY <1>2, <2>3, ReadsPlain
    <2> QED
        BY <2>1, <2>2, <2>4
<1>5. CASE u > P!Half
    <2>1. PICK m \in P!Word : m = P!Mod - u /\ m # 0 /\ m < P!Half /\ (P!Mod - u) % P!Mod = m /\ P!Signed(u) = -m
          /\ P!Signed(u) < 0 /\ sg
        BY <1>1, <1>2, <1>5 DEF P!Word, P!Signed
    <2>2. PICK d : d = P!Digits(m, 10)
        OBVIOUS
    <2>3. Spells(d, m) /\ m \in Nat
        BY <1>1, <2>1, <2>2, Spelled DEF P!Word
    <2>4. u # 0
        BY <1>1, <1>5
    <2>5. CASE width > 0 /\ zero
        <3>1. PICK w \in Nat : w = width - 1
            BY <2>5
        <3>2. P!Printed(u, 10, sg, width, right, zero) = <<P!Minus>> \o P!Padded(d, w, FALSE, TRUE)
            <4>1. zero = TRUE /\ right = FALSE
                BY <2>5
            <4> QED
                BY <2>1, <2>2, <2>4, <2>5, <3>1, <4>1 DEF P!Printed
        <3>3. P!Decimal(<<P!Minus>> \o P!Padded(d, w, FALSE, TRUE)) = -m
            BY <2>3, ReadsSignFirst
        <3> QED
            BY <2>1, <3>2, <3>3
    <2>6. CASE ~(zero /\ width > 0)
        <3>1. P!Printed(u, 10, sg, width, right, zero) = P!Padded(<<P!Minus>> \o d, width, right, zero)
            BY <2>1, <2>2, <2>4, <2>6 DEF P!Printed
        <3>2. P!Decimal(P!Padded(<<P!Minus>> \o d, width, right, zero)) = -m
            BY <2>3, <2>6, ReadsSignLast
        <3> QED
            BY <2>1, <3>1, <3>2
    <2> QED
        BY <2>5, <2>6
<1> QED
    BY <1>1, <1>2, <1>3, <1>4, <1>5

-----------------------------------------------------------------------------
(* get_hex.                                                                *)

\* A string is the hexadecimal digits of a word.
SpellsHex(d, u) ==
    /\ d \in Seq(Int) /\ Len(d) <= HexMax
    /\ \E v \in [0..Len(d) -> P!Word] :
          /\ v[0] = 0 /\ v[Len(d)] = u
          /\ \A j \in 1..Len(d) : P!IsHex(d[j]) /\ v[j] = v[j - 1] * 16 + P!HexValue(d[j])

\* A word has no more hexadecimal digits than get_hex reads.
LEMMA HexLength ==
    ASSUME NEW u0 \in P!Word, NEW n \in Nat, Ends(u0, 16, n)
    PROVE  n <= HexMax
<1>1. PICK m \in Nat, h \in Nat : m = P!Mod /\ h = HexMax
    BY WordsAre, PrintfAssumption
<1>0. PICK b \in {10, 16} : b = 16
    OBVIOUS
<1>2. PICK l \in [0..m -> P!Word] : l = P!Left(u0, b) /\ l[0] = u0 /\ \A k \in 1..m : l[k] = P!Quotient(l[k - 1], b)
    <2>1. /\ P!Left(u0, b) \in [0..m -> P!Word] /\ P!Left(u0, b)[0] = u0
          /\ \A k \in 1..m : P!Left(u0, b)[k] = P!Quotient(P!Left(u0, b)[k - 1], b)
        BY <1>1, Lefts
    <2> QED
        BY ONLY <2>1, Zenon
<1>3. PICK w \in [0..h -> Nat] : w = P!Powers /\ w[0] = 1 /\ w[h] = m /\ \A k \in 1..h : w[k] = 16 * w[k - 1]
    BY <1>1, PowersOf16 DEF P!Mod
<1> DEFINE set == {k \in Nat : \/ k > m
                               \/ k <= h /\ l[k] < w[h - k]
                               \/ k >= h /\ l[k] = 0}
<1>4. 0 \in set
    BY <1>1, <1>2, <1>3 DEF P!Word
<1>5. ASSUME NEW k \in Nat, k \in set PROVE k + 1 \in set
    <2>1. CASE k + 1 > m
        BY <2>1
    <2>2. CASE k + 1 <= m
        <3>1. k \in 0..m /\ k + 1 \in 1..m /\ (k + 1) - 1 = k
            BY <2>2
        <3>2. PICK x \in Nat, y \in Nat : x = l[k] /\ y = l[k + 1] /\ y = x \div 16
            <4>1. l[k] \in P!Word /\ l[k + 1] \in P!Word /\ l[k + 1] = P!Quotient(l[k], b)
                BY ONLY <1>2, <3>1
            <4>2. P!Quotient(l[k], b) = l[k] \div 16
                BY <1>0 DEF P!Quotient
            <4>3. l[k] \in Nat /\ l[k + 1] \in Nat
                BY ONLY <1>1, <4>1 DEF P!Word
            <4> QED
                BY ONLY <4>1, <4>2, <4>3, Zenon
        <3>3. CASE k < h
            <4>1. x < w[h - k]
                <5>1. k \in set
                    BY <1>5
                <5> QED
                    BY <2>2, <3>2, <3>3, <5>1
            <4>2. h - k \in 1..h /\ (h - k) - 1 = h - (k + 1) /\ h - (k + 1) \in 0..h
                BY <3>3
            <4>3. w[h - k] = 16 * w[h - (k + 1)]
                BY <1>3, <4>2
            <4>4. y < w[h - (k + 1)]
                <5>1. PICK z \in Nat : z = w[h - (k + 1)]
                    BY <4>2
                <5>2. x < 16 * z
                    BY ONLY <4>1, <4>3, <5>1
                <5>3. y = x \div 16
                    BY <3>2
                <5>4. y < z
                    BY ONLY <5>2, <5>3, x \in Nat, y \in Nat, z \in Nat
                <5> QED
                    BY ONLY <5>1, <5>4
            <4>5. k + 1 <= h /\ l[k + 1] < w[h - (k + 1)] /\ k + 1 \in Nat
                BY ONLY <3>2, <3>3, <4>4, k \in Nat, h \in Nat
            <4> QED
                BY ONLY <4>5
        <3>4. CASE k >= h
            <4>1. x = 0
                <5>1. \/ k <= h /\ l[k] < w[h - k]
                      \/ k >= h /\ l[k] = 0
                    BY <1>5, <2>2
                <5>2. CASE k <= h /\ l[k] < w[h - k]
                    <6>1. h - k = 0
                        BY <3>4, <5>2
                    <6> QED
                        BY ONLY <1>3, <3>2, <5>2, <6>1, x \in Nat
                <5> QED
                    BY <3>2, <5>1, <5>2
            <4>2. y = 0 /\ k + 1 >= h
                BY <3>2, <3>4, <4>1
            <4>3. k + 1 \in Nat /\ l[k + 1] = 0 /\ k + 1 >= h
                BY ONLY <3>2, <4>2, k \in Nat
            <4> QED
                BY ONLY <4>3
        <3> QED
            BY <3>3, <3>4
    <2> QED
        BY <2>1, <2>2
<1>6. \A k \in Nat : k \in set
    <2> HIDE DEF set
    <2> QED
        BY <1>4, <1>5, Induct
<1>7. n \in 1..m /\ l[n - 1] # 0
    <2>1. Ends(u0, b, n)
        BY <1>0
    <2> QED
        BY ONLY <1>1, <1>2, <2>1 DEF Ends
<1>8. CASE n > h
    <2>1. n - 1 \in Nat /\ n - 1 <= m /\ n - 1 >= h /\ n - 1 \in 0..m
        BY <1>7, <1>8
    <2>2. \/ n - 1 <= h /\ l[n - 1] < w[h - (n - 1)]
          \/ l[n - 1] = 0
        <3>1. n - 1 \in set
            BY <1>6, <2>1
        <3> QED
            BY ONLY <2>1, <3>1, m \in Nat
    <2>3. n - 1 <= h => h - (n - 1) = 0
        BY <2>1
    <2>4. l[n - 1] \in Nat
        <3>1. l[n - 1] \in P!Word
            BY ONLY <2>1, l \in [0..m -> P!Word]
        <3> QED
            BY ONLY <1>1, <3>1 DEF P!Word
    <2> QED
        BY ONLY <1>3, <1>7, <2>2, <2>3, <2>4
<1> QED
    BY <1>1, <1>8

LEMMA HexSpelled ==
    ASSUME NEW u0 \in P!Word, u0 # 0
    PROVE  SpellsHex(P!Digits(u0, 16), u0)
<1>0. PICK b \in {10, 16} : b = 16
    OBVIOUS
<1>1. PICK n \in Nat : Ends(u0, b, n) /\ n <= HexMax
    BY LoopEnds, HexLength, <1>0
<1>2. PICK d \in Seq(Int) : d = P!Digits(u0, b) /\ Len(d) = n
    BY <1>1, DigitsAre
<1>3. PICK v \in [0..n -> P!Word], r \in [1..n -> 0..(b - 1)] :
         /\ v[0] = 0 /\ v[n] = u0
         /\ \A j \in 1..n : v[j] = v[j - 1] * b + r[j] /\ P!Digits(u0, b)[j] = P!Digit(r[j])
    <2>1. Valued(u0, b, n)
        BY <1>0, <1>1, ValuesAre
    <2> QED
        BY ONLY <2>1, Zenon DEF Valued
<1>4. \A j \in 1..n : P!IsHex(d[j]) /\ v[j] = v[j - 1] * 16 + P!HexValue(d[j])
    <2> SUFFICES ASSUME NEW j \in 1..n PROVE P!IsHex(d[j]) /\ v[j] = v[j - 1] * 16 + P!HexValue(d[j])
        OBVIOUS
    <2>1. r[j] \in 0..15
        BY <1>0
    <2>2. d[j] = P!Digit(r[j])
        BY ONLY <1>2, <1>3, j \in 1..n
    <2>3. P!IsHex(P!Digit(r[j])) /\ P!HexValue(P!Digit(r[j])) = r[j]
        <3>1. PICK x \in 0..15 : x = r[j]
            BY <2>1
        <3>2. P!IsHex(P!Digit(x)) /\ P!HexValue(P!Digit(x)) = x
            <4>1. CASE x <= 9
                <5>1. P!Digit(x) = x /\ x \in 0..9
                    BY ONLY <4>1, x \in 0..15 DEF P!Digit
                <5> QED
                    BY ONLY <5>1 DEF P!IsHex, P!HexValue
            <4>2. CASE x >= 10
                <5>1. PICK y \in Int : y = x + 39 /\ y = P!Digit(x)
                    BY ONLY <4>2, x \in 0..15 DEF P!Digit, P!Letter
                <5>2. y \in 49..54 /\ y \notin 0..9 /\ (y - 49) + 10 = x
                    BY ONLY <4>2, <5>1, x \in 0..15
                <5>3. P!IsHex(y) /\ P!HexValue(y) = x
                    BY ONLY <5>2 DEF P!IsHex, P!HexValue, P!Letter
                <5> QED
                    BY ONLY <5>1, <5>3
            <4> QED
                BY <4>1, <4>2
        <3> QED
            BY ONLY <3>1, <3>2, Zenon
    <2> QED
        BY ONLY <1>0, <1>3, <2>2, <2>3, j \in 1..n
<1>5. SpellsHex(d, u0)
    BY ONLY <1>1, <1>2, <1>3, <1>4 DEF SpellsHex
<1> QED
    BY <1>0, <1>2, <1>5

LEMMA HexSpelledZero == SpellsHex(<<P!Zero>>, 0)
<1>1. PICK d \in Seq(Int) : d = <<P!Zero>> /\ Len(d) = 1 /\ d[1] = 0
    <2>1. <<P!Zero>> \in Seq(Int) /\ Len(<<P!Zero>>) = 1 /\ <<P!Zero>>[1] = 0
        BY DEF P!Zero
    <2> QED
        BY ONLY <2>1, Zenon
<1>2. PICK v \in [0..1 -> P!Word] : v[0] = 0 /\ v[1] = 0
    <2> DEFINE w == [j \in 0..1 |-> 0]
    <2>1. w \in [0..1 -> P!Word] /\ w[0] = 0 /\ w[1] = 0
        BY WordsAre DEF P!Word
    <2> QED
        BY <2>1
<1>3. \A j \in 1..1 : P!IsHex(d[j]) /\ v[j] = v[j - 1] * 16 + P!HexValue(d[j])
    BY <1>1, <1>2 DEF P!IsHex, P!HexValue
<1>4. SpellsHex(d, 0)
    BY ONLY <1>1, <1>2, <1>3, PrintfAssumption DEF SpellsHex
<1> QED
    BY <1>1, <1>4

LEMMA HexReads ==
    ASSUME NEW u \in P!Word, NEW d, SpellsHex(d, u), NEW width \in Nat, NEW zero \in BOOLEAN,
           width <= HexMax, zero \/ width = 0
    PROVE  LET t == P!Padded(d, width, FALSE, zero)
           IN  P!get_hex(t) = [length |-> Len(t), num |-> u]
<1>1. PICK l \in Nat : d \in Seq(Int) /\ l = Len(d) /\ l <= HexMax
    BY DEF SpellsHex
<1>2. PICK v \in [0..l -> P!Word] : /\ v[0] = 0 /\ v[l] = u
                                    /\ \A j \in 1..l : P!IsHex(d[j]) /\ v[j] = v[j - 1] * 16 + P!HexValue(d[j])
    BY <1>1 DEF SpellsHex
<1>3. PICK t, f : t = P!Padded(d, width, FALSE, zero) /\ f = P!Fill(d, width)
    OBVIOUS
<1>4. /\ t \in Seq(Int) /\ f \in Nat /\ Len(t) = f + l /\ f + l <= HexMax
      /\ \A k \in 1..f : t[k] = P!Zero
      /\ \A k \in 1..l : t[f + k] = d[k]
    <2>0. PICK right \in BOOLEAN : right = FALSE
        OBVIOUS
    <2>1. Pads(P!Padded(d, width, right, zero), d, width, right, zero, P!Fill(d, width))
        BY ONLY <1>1, width \in Nat, right \in BOOLEAN, zero \in BOOLEAN, PaddedIs
    <2>2. Pads(t, d, width, FALSE, zero, f)
        BY ONLY <1>3, <2>0, <2>1
    <2>3. t \in Seq(Int) /\ f \in Nat /\ Len(t) = l + f /\ (width = 0 => f = 0) /\ (l + f = width \/ f = 0)
        BY ONLY <1>1, <2>2 DEF Pads
    <2>4. (\A k \in 1..f : t[k] = IF zero THEN P!Zero ELSE P!Space) /\ \A k \in 1..l : t[f + k] = d[k]
        BY ONLY <1>1, <2>2 DEF Pads
    <2>5. Len(t) = f + l /\ f + l <= HexMax
        BY ONLY <1>1, <2>3, width <= HexMax, l \in Nat
    <2>6. \A k \in 1..f : t[k] = P!Zero
        BY ONLY <2>3, <2>4, zero \/ width = 0
    <2> QED
        BY ONLY <2>3, <2>4, <2>5, <2>6
<1>5. PICK n \in Nat : n = f + l /\ n = Len(t) /\ n <= HexMax
    BY <1>4
\* The numbers before the digits and in them.
<1>6. PICK v0 \in [0..n -> P!Word] : \A k \in 0..n : v0[k] = IF k <= f THEN 0 ELSE v[k - f]
    <2> DEFINE g == [k \in 0..n |-> IF k <= f THEN 0 ELSE v[k - f]]
    <2>1. \A k \in 0..n : (IF k <= f THEN 0 ELSE v[k - f]) \in P!Word
        BY <1>4, <1>5, WordsAre DEF P!Word
    <2>2. g \in [0..n -> P!Word] /\ \A k \in 0..n : g[k] = IF k <= f THEN 0 ELSE v[k - f]
        BY <2>1
    <2> QED
        BY <2>2
<1>7. v0[0] = 0 /\ v0[n] = u
    <2>1. v0[0] = 0
        BY <1>4, <1>6
    <2>2. v0[n] = u
        <3>1. CASE l = 0
            BY <1>2, <1>4, <1>5, <1>6, <3>1
        <3>2. CASE l > 0
            BY <1>2, <1>4, <1>5, <1>6, <3>2
        <3> QED
            BY <3>1, <3>2
    <2> QED
        BY <2>1, <2>2
<1>8. ASSUME NEW k \in 1..n
      PROVE  P!IsHex(t[k]) /\ v0[k] = (v0[k - 1] * 16 + P!HexValue(t[k])) % P!Mod
    <2>1. k \in 0..n /\ k - 1 \in 0..n
        OBVIOUS
    <2>2. PICK m \in Nat \ {0} : m = P!Mod
        BY WordsAre
    <2>3. v0[k] \in 0..(m - 1) /\ v0[k - 1] \in 0..(m - 1)
        BY ONLY <2>1, <2>2, v0 \in [0..n -> P!Word] DEF P!Word
    <2>4. CASE k <= f
        <3>1. t[k] = 0
            BY <1>4, <2>4 DEF P!Zero
        <3>2. P!IsHex(t[k]) /\ P!HexValue(t[k]) = 0
            BY ONLY <3>1 DEF P!IsHex, P!HexValue
        <3>3. v0[k] = 0 /\ v0[k - 1] = 0
            BY <1>6, <1>4, <2>1, <2>4
        <3> QED
            BY ONLY <2>2, <3>2, <3>3
    <2>5. CASE k > f
        <3>1. PICK j \in 1..l : k = f + j /\ k - f = j /\ (k - 1) - f = j - 1
            BY <1>4, <1>5, <2>5
        <3>2. t[k] = d[j] /\ P!IsHex(d[j]) /\ v[j] = v[j - 1] * 16 + P!HexValue(d[j])
            BY <1>2, <1>4, <3>1
        <3>3. v0[k] = v[j]
            BY <1>4, <1>6, <2>1, <2>5, <3>1
        <3>4. v0[k - 1] = v[j - 1]
            <4>1. CASE k - 1 <= f
                <5>1. j = 1
                    BY <1>4, <3>1, <4>1
                <5> QED
                    BY <1>2, <1>6, <2>1, <4>1, <5>1
            <4>2. CASE k - 1 > f
                BY <1>4, <1>6, <2>1, <3>1, <4>2
            <4> QED
                BY <1>4, <4>1, <4>2
        <3>5. v0[k] = v0[k - 1] * 16 + P!HexValue(t[k])
            BY ONLY <3>2, <3>3, <3>4
        <3>6. v0[k] % P!Mod = v0[k]
            BY ONLY <2>2, <2>3
        <3> QED
            BY ONLY <3>2, <3>5, <3>6
    <2> QED
        BY <1>4, <2>4, <2>5
<1> DEFINE Are(g) == g = [k \in 0..n |-> IF k = 0 THEN 0 ELSE (g[k - 1] * 16 + P!HexValue(t[k])) % P!Mod]
           num == CHOOSE g : Are(g)
<1>9. Are(num)
    <2>1. \A k \in 0..n : v0[k] = IF k = 0 THEN 0 ELSE (v0[k - 1] * 16 + P!HexValue(t[k])) % P!Mod
        <3> SUFFICES ASSUME NEW k \in 0..n PROVE v0[k] = IF k = 0 THEN 0
              ELSE (v0[k - 1] * 16 + P!HexValue(t[k])) % P!Mod
            OBVIOUS
        <3>1. k = 0 \/ k \in 1..n
            OBVIOUS
        <3> QED
            BY ONLY <1>7, <1>8, <3>1
    <2>2. v0 = [k \in 0..n |-> v0[k]]
        OBVIOUS
    <2>3. Are(v0)
        BY ONLY <2>1, <2>2
    <2> HIDE DEF Are
    <2> QED
        BY <2>3
<1>10. num[n] = u
    <2>1. PICK g : g = num /\ Are(g)
        BY <1>9
    <2> DEFINE set == {k \in Nat : k > n \/ g[k] = v0[k]}
    <2>2. \A k \in 0..n : g[k] = IF k = 0 THEN 0 ELSE (g[k - 1] * 16 + P!HexValue(t[k])) % P!Mod
        BY <2>1
    <2>3. 0 \in set
        BY <1>7, <2>2
    <2>4. ASSUME NEW k \in Nat, k \in set PROVE k + 1 \in set
        <3>1. CASE k + 1 > n
            BY <3>1
        <3>2. CASE k + 1 <= n
            <4>1. k + 1 \in 0..n /\ k + 1 \in 1..n /\ k + 1 # 0 /\ (k + 1) - 1 = k
                BY <3>2
            <4>2. g[k] = v0[k]
                BY <2>4, <3>2
            <4>3. g[k + 1] = (g[k] * 16 + P!HexValue(t[k + 1])) % P!Mod
                BY ONLY <2>2, <4>1
            <4>4. v0[k + 1] = (v0[k] * 16 + P!HexValue(t[k + 1])) % P!Mod
                BY ONLY <1>8, <4>1
            <4> QED
                BY <4>2, <4>3, <4>4
        <3> QED
            BY <3>1, <3>2
    <2>5. \A k \in Nat : k \in set
        <3> HIDE DEF set
        <3> QED
            BY <2>3, <2>4, Induct
    <2>6. g[n] = v0[n]
        BY <2>5
    <2> QED
        BY ONLY <1>7, <2>1, <2>6
<1> DEFINE ends == {k \in 0..Len(t) : k = Len(t) \/ k = HexMax \/ ~P!IsHex(t[k + 1])}
           len == CHOOSE k \in ends : \A j \in ends : k <= j
<1>11. len = n
    <2>1. \A k \in ends : k = n
        <3> SUFFICES ASSUME NEW k \in ends, k # n PROVE FALSE
            OBVIOUS
        <3>1. k \in 0..n /\ (k = HexMax \/ ~P!IsHex(t[k + 1])) /\ k < n
            BY <1>5
        <3>2. k + 1 \in 1..n
            BY <3>1
        <3>3. P!IsHex(t[k + 1])
            BY ONLY <1>8, <3>2
        <3> QED
            BY ONLY <1>5, <3>1, <3>3, PrintfAssumption
    <2>2. n \in ends
        BY <1>5
    <2>3. ends = {n}
        BY <2>1, <2>2
    <2>4. n <= n
        OBVIOUS
    <2> HIDE DEF ends
    <2> QED
        BY <2>3, <2>4
<1>12. P!get_hex(t) = [length |-> len, num |-> num[len]]
    BY <1>5 DEF P!get_hex
<1> HIDE DEF len, num
<1> QED
    BY ONLY <1>3, <1>5, <1>10, <1>11, <1>12

-----------------------------------------------------------------------------
(* A conversion.                                                           *)

\* What print wrote for a conversion.
Wrote(a, o) ==
    o = CASE a.conv = "d" -> P!Printed(a.value, 10, TRUE, a.width, a.right, a.zero)
          [] a.conv = "u" -> P!Printed(a.value, 10, FALSE, a.width, a.right, a.zero)
          [] a.conv = "x" -> P!Printed(a.value, 16, FALSE, a.width, a.right, a.zero)
          [] a.conv = "c" -> P!Padded(IF a.value - 48 = P!Nul THEN <<>> ELSE <<a.value - 48>>,
                                    a.width, a.right, a.zero)

Rereads(a, o) ==
    /\ Len(o) >= a.width
    /\ \/ a.zero /\ a.right
       \/ a.conv \notin {"d", "u"}
       \/ P!Misprinted(a)
       \/ P!Decimal(o) = IF a.conv = "d" THEN P!Signed(a.value) ELSE a.value
    /\ a.conv = "x" /\ ~a.right /\ a.width <= HexMax /\ (a.zero \/ a.width = 0)
       => P!get_hex(o) = [length |-> Len(o), num |-> a.value]

LEMMA HexPrinted ==
    ASSUME NEW u \in P!Word, NEW width \in Nat, NEW zero \in BOOLEAN, width <= HexMax, zero \/ width = 0
    PROVE  LET t == P!Printed(u, 16, FALSE, width, FALSE, zero)
           IN  P!get_hex(t) = [length |-> Len(t), num |-> u]
<1>1. CASE u = 0
    <2>1. PICK d : d = <<P!Zero>> /\ SpellsHex(d, u)
        BY <1>1, HexSpelledZero
    <2>2. PICK t : t = P!Padded(d, width, FALSE, zero)
        OBVIOUS
    <2>3. P!get_hex(t) = [length |-> Len(t), num |-> u]
        BY ONLY <2>1, <2>2, u \in P!Word, width \in Nat, zero \in BOOLEAN, width <= HexMax, zero \/ width = 0,
            HexReads
    <2>4. P!Printed(u, 16, FALSE, width, FALSE, zero) = t
        BY <1>1, <2>1, <2>2 DEF P!Printed
    <2> QED
        BY ONLY <2>3, <2>4
<1>2. CASE u # 0
    <2>1. PICK d : d = P!Digits(u, 16) /\ SpellsHex(d, u)
        BY <1>2, HexSpelled
    <2>2. PICK t : t = P!Padded(d, width, FALSE, zero)
        OBVIOUS
    <2>3. P!get_hex(t) = [length |-> Len(t), num |-> u]
        BY ONLY <2>1, <2>2, u \in P!Word, width \in Nat, zero \in BOOLEAN, width <= HexMax, zero \/ width = 0,
            HexReads
    <2>4. P!Printed(u, 16, FALSE, width, FALSE, zero) = t
        BY <1>2, <2>1, <2>2 DEF P!Printed
    <2> QED
        BY ONLY <2>3, <2>4
<1> QED
    BY <1>1, <1>2

LEMMA WroteRereads ==
    ASSUME NEW a \in P!Conversions, NEW o, Wrote(a, o)
    PROVE  Rereads(a, o)
<1>1. PICK c \in {"d", "u", "x", "c"}, u \in P!Word, width \in Nat, right \in BOOLEAN, zero \in BOOLEAN :
         c = a.conv /\ u = a.value /\ width = a.width /\ right = a.right /\ zero = a.zero
    <2>1. /\ a.conv \in {"d", "u", "x", "c"} /\ a.value \in P!Word /\ a.width \in 0..MaxWidth
          /\ a.right \in BOOLEAN /\ a.zero \in BOOLEAN
        BY DEF P!Conversions
    <2>2. a.width \in Nat
        BY <2>1
    <2> QED
        BY ONLY <2>1, <2>2, Zenon
<1>2. CASE c = "d"
    <2>1. o = P!Printed(u, 10, TRUE, width, right, zero)
        BY <1>1, <1>2 DEF Wrote
    <2>2. Len(o) >= width
        BY <2>1, PrintedIs
    <2>3. ~(zero /\ right) /\ u # P!Half => P!Decimal(o) = P!Signed(u)
        <3>1. PICK sg \in BOOLEAN : sg = TRUE
            OBVIOUS
        <3>2. o = P!Printed(u, 10, sg, width, right, zero)
            BY ONLY <2>1, <3>1
        <3>3. ASSUME ~(zero /\ right), u # P!Half PROVE P!Decimal(o) = P!Signed(u)
            <4>1. IF sg THEN u # P!Half ELSE u < P!Half
                BY <3>1, <3>3
            <4>2. P!Decimal(P!Printed(u, 10, sg, width, right, zero)) = IF sg THEN P!Signed(u) ELSE u
                BY ONLY <3>3, <4>1, sg \in BOOLEAN, u \in P!Word, width \in Nat, right \in BOOLEAN,
                        zero \in BOOLEAN, DecimalReads
            <4>3. P!Decimal(o) = IF sg THEN P!Signed(u) ELSE u
                BY ONLY <3>2, <4>2, Zenon
            <4> QED
                BY ONLY <3>1, <4>3
        <3> QED
            BY ONLY <3>3
    <2>4. u = P!Half => P!Misprinted(a)
        BY <1>1, <1>2 DEF P!Misprinted
    <2>5. a.conv = "d" /\ a.conv # "x"
        BY <1>1, <1>2
    <2> QED
        BY ONLY <1>1, <2>2, <2>3, <2>4, <2>5, Zenon DEF Rereads
<1>3. CASE c = "u"
    <2>1. o = P!Printed(u, 10, FALSE, width, right, zero)
        BY <1>1, <1>3 DEF Wrote
    <2>2. Len(o) >= width
        BY <2>1, PrintedIs
    <2>3. ~(zero /\ right) /\ u < P!Half => P!Decimal(o) = u
        BY <2>1, DecimalReads
    <2>4. ~(u < P!Half) => P!Misprinted(a)
        <3>1. u \in Nat /\ P!Half \in Nat
            BY WordsAre DEF P!Word
        <3>2. ~(u < P!Half) => u >= P!Half
            BY ONLY <3>1
        <3> QED
            BY <1>1, <1>3, <3>2 DEF P!Misprinted
    <2>5. a.conv # "d" /\ a.conv # "x"
        BY <1>1, <1>3
    <2> QED
        BY ONLY <1>1, <2>2, <2>3, <2>4, <2>5, Zenon DEF Rereads
<1>4. CASE c = "x"
    <2>1. o = P!Printed(u, 16, FALSE, width, right, zero)
        BY <1>1, <1>4 DEF Wrote
    <2>2. Len(o) >= width
        BY <2>1, PrintedIs
    <2>3. ASSUME ~right, width <= HexMax, zero \/ width = 0
          PROVE  P!get_hex(o) = [length |-> Len(o), num |-> u]
        <3>1. o = P!Printed(u, 16, FALSE, width, FALSE, zero)
            <4>1. right = FALSE
                BY <2>3
            <4> QED
                BY <2>1, <4>1
        <3> QED
            BY <2>3, <3>1, HexPrinted
    <2>4. a.conv \notin {"d", "u"}
        BY <1>1, <1>4
    <2> QED
        BY ONLY <1>1, <2>2, <2>3, <2>4, Zenon DEF Rereads
<1>5. CASE c = "c"
    <2>1. PICK s \in Seq(Int) : s = IF u - 48 = P!Nul THEN <<>> ELSE <<u - 48>>
        <3>1. u - 48 \in Int
            BY WordsAre DEF P!Word
        <3>2. (IF u - 48 = P!Nul THEN <<>> ELSE <<u - 48>>) \in Seq(Int)
            BY ONLY <3>1
        <3> QED
            BY ONLY <3>2, Zenon
    <2>2. o = P!Padded(s, width, right, zero)
        BY ONLY <1>1, <1>5, <2>1, Wrote(a, o) DEF Wrote
    <2>3. Len(o) >= width
        <3>1. Pads(o, s, width, right, zero, P!Fill(s, width))
            BY ONLY <2>2, s \in Seq(Int), width \in Nat, right \in BOOLEAN, zero \in BOOLEAN, PaddedIs
        <3> QED
            BY ONLY <3>1 DEF Pads
    <2>4. a.conv \notin {"d", "u"} /\ a.conv # "x"
        BY <1>1, <1>5
    <2> QED
        BY ONLY <1>1, <2>3, <2>4, Zenon DEF Rereads
<1> QED
    BY <1>1, <1>2, <1>3, <1>4, <1>5

LEMMA PrintStep ==
    ASSUME P!PrintfNext
    PROVE  P!ReadsBack'
<1>1. CASE P!print
    <2>0. PICK o : o = out'
        OBVIOUS
    <2>1. PICK a \in P!Conversions : a = asked' /\ o = out'
        BY <1>1, <2>0 DEF P!print
    <2>2. Wrote(a, o)
        <3>1. Wrote(asked', out')
            BY <1>1 DEF P!print, Wrote
        <3> QED
            BY <2>1, <3>1
    <2>3. Rereads(a, o)
        BY <2>2, WroteRereads
    <2>4. Rereads(asked', out')
        BY <2>1, <2>3
    <2> QED
        BY <2>4 DEF P!ReadsBack, Rereads
<1>2. CASE P!Return
    BY <1>2 DEF P!Return, P!ReadsBack
<1> QED
    BY <1>1, <1>2 DEF P!PrintfNext

\* A number that was printed reads back as the number and fills its width;
\* get_hex reads back what %x printed.
THEOREM NumbersReadBack == UnitsSpec => []ReadsBack
<1>1. UnitsInit => P!ReadsBack
    BY DEF UnitsInit, P!Idle, P!ReadsBack
<1>2. P!ReadsBack /\ [UnitsNext]_all => P!ReadsBack'
    <2>1. ASSUME P!PrintfNext PROVE P!ReadsBack'
        BY <2>1, PrintStep
    <2>2. ASSUME P!ReadsBack, UNCHANGED printing PROVE P!ReadsBack'
        BY <2>2 DEF printing, P!ReadsBack
    <2> QED
        BY <2>1, <2>2 DEF UnitsNext, all
<1> QED
    BY <1>1, <1>2, PTL DEF UnitsSpec, ReadsBack
-----------------------------------------------------------------------------
(* The options of telnet.  A packet of negotiations and text takes the     *)
(* parser to where the text begins; what the buffer holds and what was     *)
(* asked about echoing follows the items.                                  *)


\* The bytes of the first items.
LEMMA StreamIs ==
    ASSUME items \in Seq(Items)
    PROVE  /\ T!Stream \in [0..Len(items) -> Seq(Int)] /\ T!Stream[0] = <<>>
           /\ \A k \in 1..Len(items) : T!Stream[k] = T!Stream[k - 1] \o items[k]
<1>1. PICK n \in Nat : n = Len(items)
    OBVIOUS
<1> DEFINE turn(x, k) == x \o items[k]
           Are(f) == f = [k \in 0..n |-> IF k = 0 THEN <<>> ELSE turn(f[k - 1], k)]
<1>2. PICK g, S, a : g = T!Stream /\ S = Seq(Int) /\ a = <<>>
    OBVIOUS
<1>3. a \in S
    BY <1>2
<1>5. ASSUME NEW x \in S, NEW k \in 1..n PROVE turn(x, k) \in S
    <2> HIDE DEF turn
    <2>1. items[k] \in Items
        BY ONLY <1>1, items \in Seq(Items), k \in 1..n
    <2>2. items[k] \in Seq(Int)
        BY <2>1, ItemsAssumption
    <2>3. x \o items[k] \in Seq(Int)
        BY ONLY <1>2, <2>2, x \in S
    <2> QED
        BY ONLY <1>2, <2>3 DEF turn
<1>6. g = CHOOSE f : Are(f)
    BY ONLY <1>1, <1>2 DEF T!Stream
<1> HIDE DEF turn
<1>7. PICK F \in [1..n -> [S -> S]] : \A x \in S, k \in 1..n : F[k][x] = turn(x, k)
    <2> DEFINE G == [k \in 1..n |-> [x \in S |-> turn(x, k)]]
    <2>1. G \in [1..n -> [S -> S]]
        BY ONLY <1>5
    <2>2. \A x \in S, k \in 1..n : G[k][x] = turn(x, k)
        OBVIOUS
    <2> HIDE DEF G
    <2> QED
        BY ONLY <2>1, <2>2
<1>8. PICK f : f \in [0..n -> S] /\ f[0] = a /\ \A k \in 1..n : f[k] = F[k][f[k - 1]]
    <2>1. Loops(S, a, n, F) # {}
        BY ONLY <1>3, <1>7, n \in Nat, Loop
    <2> QED
        BY ONLY <2>1 DEF Loops
<1>9. Are(f)
    <2>1. ASSUME NEW k \in 1..n PROVE f[k] = turn(f[k - 1], k)
        <3>1. k - 1 \in 0..n
            OBVIOUS
        <3>2. f[k] = F[k][f[k - 1]] /\ f[k - 1] \in S
            BY ONLY <1>8, <3>1, k \in 1..n
        <3> QED
            BY ONLY <1>7, <3>2, k \in 1..n
    <2>2. ASSUME NEW k \in 0..n PROVE f[k] = IF k = 0 THEN a ELSE turn(f[k - 1], k)
        <3>1. k = 0 \/ k \in 1..n
            OBVIOUS
        <3> QED
            BY ONLY <1>8, <2>1, <3>1
    <2>3. f = [k \in 0..n |-> f[k]]
        BY ONLY <1>8
    <2> QED
        BY ONLY <1>2, <2>2, <2>3
<1>10. Are(g)
    <2> HIDE DEF Are
    <2> QED
        BY ONLY <1>6, <1>9
<1>11. \A k \in 0..n : g[k] = IF k = 0 THEN a ELSE turn(g[k - 1], k)
    BY ONLY <1>2, <1>10
<1>12. g = [k \in 0..n |-> g[k]]
    BY ONLY <1>10
<1>13. g[0] = a /\ \A k \in 1..n : g[k] = turn(g[k - 1], k)
    BY ONLY <1>11, n \in Nat
<1>14. \A k \in 1..n : g[k - 1] \in S => g[k] = F[k][g[k - 1]]
    BY ONLY <1>7, <1>13
<1>15. \A k \in 0..n : g[k] \in S
    BY ONLY <1>3, <1>7, <1>13, <1>14, n \in Nat, Looping
<1>16. g \in [0..n -> S]
    BY ONLY <1>12, <1>15
<1>17. \A k \in 1..n : turn(g[k - 1], k) = g[k - 1] \o items[k]
    BY DEF turn
<1> HIDE DEF turn
<1>18. \A k \in 1..n : g[k] = g[k - 1] \o items[k]
    BY ONLY <1>13, <1>17, Zenon
<1> QED
    BY ONLY <1>1, <1>2, <1>13, <1>16, <1>18, Zenon

\* The line buffer, letter by letter.
LEMMA AddedIs ==
    ASSUME NEW buffer \in Seq(Int), NEW bytes \in Seq(Int)
    PROVE  /\ T!Added(buffer, bytes) \in [0..Len(bytes) -> Seq(Int)] /\ T!Added(buffer, bytes)[0] = buffer
           /\ \A k \in 1..Len(bytes) : T!Added(buffer, bytes)[k] =
                  IF T!Letter(bytes[k]) THEN Append(T!Added(buffer, bytes)[k - 1], bytes[k])
                  ELSE T!Added(buffer, bytes)[k - 1]
<1>1. PICK n \in Nat : n = Len(bytes)
    OBVIOUS
<1> DEFINE turn(x, k) == IF T!Letter(bytes[k]) THEN Append(x, bytes[k]) ELSE x
           Are(f) == f = [k \in 0..n |-> IF k = 0 THEN buffer ELSE turn(f[k - 1], k)]
<1>2. PICK g, S, a : g = T!Added(buffer, bytes) /\ S = Seq(Int) /\ a = buffer
    OBVIOUS
<1>3. a \in S
    BY <1>2
<1>5. ASSUME NEW x \in S, NEW k \in 1..n PROVE turn(x, k) \in S
    <2> HIDE DEF turn
    <2>1. bytes[k] \in Int
        BY ONLY <1>1, bytes \in Seq(Int), k \in 1..n
    <2>2. Append(x, bytes[k]) \in S
        BY ONLY <1>2, <2>1, x \in S
    <2> QED
        BY ONLY <2>2, x \in S, Zenon DEF turn
<1>6. g = CHOOSE f : Are(f)
    BY ONLY <1>1, <1>2 DEF T!Added
<1> HIDE DEF turn
<1>7. PICK F \in [1..n -> [S -> S]] : \A x \in S, k \in 1..n : F[k][x] = turn(x, k)
    <2> DEFINE G == [k \in 1..n |-> [x \in S |-> turn(x, k)]]
    <2>1. G \in [1..n -> [S -> S]]
        BY ONLY <1>5
    <2>2. \A x \in S, k \in 1..n : G[k][x] = turn(x, k)
        OBVIOUS
    <2> HIDE DEF G
    <2> QED
        BY ONLY <2>1, <2>2
<1>8. PICK f : f \in [0..n -> S] /\ f[0] = a /\ \A k \in 1..n : f[k] = F[k][f[k - 1]]
    <2>1. Loops(S, a, n, F) # {}
        BY ONLY <1>3, <1>7, n \in Nat, Loop
    <2> QED
        BY ONLY <2>1 DEF Loops
<1>9. Are(f)
    <2>1. ASSUME NEW k \in 1..n PROVE f[k] = turn(f[k - 1], k)
        <3>1. k - 1 \in 0..n
            OBVIOUS
        <3>2. f[k] = F[k][f[k - 1]] /\ f[k - 1] \in S
            BY ONLY <1>8, <3>1, k \in 1..n
        <3> QED
            BY ONLY <1>7, <3>2, k \in 1..n
    <2>2. ASSUME NEW k \in 0..n PROVE f[k] = IF k = 0 THEN a ELSE turn(f[k - 1], k)
        <3>1. k = 0 \/ k \in 1..n
            OBVIOUS
        <3> QED
            BY ONLY <1>8, <2>1, <3>1
    <2>3. f = [k \in 0..n |-> f[k]]
        BY ONLY <1>8
    <2> QED
        BY ONLY <1>2, <2>2, <2>3
<1>10. Are(g)
    <2> HIDE DEF Are
    <2> QED
        BY ONLY <1>6, <1>9
<1>11. \A k \in 0..n : g[k] = IF k = 0 THEN a ELSE turn(g[k - 1], k)
    BY ONLY <1>2, <1>10
<1>12. g = [k \in 0..n |-> g[k]]
    BY ONLY <1>10
<1>13. g[0] = a /\ \A k \in 1..n : g[k] = turn(g[k - 1], k)
    BY ONLY <1>11, n \in Nat
<1>14. \A k \in 1..n : g[k - 1] \in S => g[k] = F[k][g[k - 1]]
    BY ONLY <1>7, <1>13
<1>15. \A k \in 0..n : g[k] \in S
    BY ONLY <1>3, <1>7, <1>13, <1>14, n \in Nat, Looping
<1>16. g \in [0..n -> S]
    BY ONLY <1>12, <1>15
<1>17. \A k \in 1..n : turn(g[k - 1], k) = IF T!Letter(bytes[k]) THEN Append(g[k - 1], bytes[k]) ELSE g[k - 1]
    BY DEF turn
<1> HIDE DEF turn
<1>18. \A k \in 1..n : g[k] = IF T!Letter(bytes[k]) THEN Append(g[k - 1], bytes[k]) ELSE g[k - 1]
    BY ONLY <1>13, <1>17, Zenon
<1> QED
    BY ONLY <1>1, <1>2, <1>13, <1>16, <1>18, Zenon

\* What the client asked about echoing.
LEMMA EchoIs ==
    ASSUME items \in Seq(Items)
    PROVE  /\ T!EchoAsked \in [0..Len(items) -> BOOLEAN] /\ T!EchoAsked[0] = FALSE
           /\ \A k \in 1..Len(items) : T!EchoAsked[k] = IF items[k] = <<T!IAC, T!DO, T!ECHO>> THEN TRUE
               ELSE IF items[k] = <<T!IAC, T!DONT, T!ECHO>> THEN FALSE ELSE T!EchoAsked[k - 1]
<1>1. PICK n \in Nat : n = Len(items)
    OBVIOUS
<1> DEFINE turn(x, k) == IF items[k] = <<T!IAC, T!DO, T!ECHO>> THEN TRUE
      ELSE IF items[k] = <<T!IAC, T!DONT, T!ECHO>> THEN FALSE ELSE x
           Are(f) == f = [k \in 0..n |-> IF k = 0 THEN FALSE ELSE turn(f[k - 1], k)]
<1>2. PICK g, S, a : g = T!EchoAsked /\ S = BOOLEAN /\ a = FALSE
    OBVIOUS
<1>3. a \in S
    BY <1>2
<1>5. ASSUME NEW x \in S, NEW k \in 1..n PROVE turn(x, k) \in S
    <2> HIDE DEF turn
    <2>1. x \in BOOLEAN
        BY <1>2
    <2>2. turn(x, k) \in BOOLEAN
        BY ONLY <2>1 DEF turn
    <2> QED
        BY <1>2, <2>2
<1>6. g = CHOOSE f : Are(f)
    BY ONLY <1>1, <1>2 DEF T!EchoAsked
<1> HIDE DEF turn
<1>7. PICK F \in [1..n -> [S -> S]] : \A x \in S, k \in 1..n : F[k][x] = turn(x, k)
    <2> DEFINE G == [k \in 1..n |-> [x \in S |-> turn(x, k)]]
    <2>1. G \in [1..n -> [S -> S]]
        BY ONLY <1>5
    <2>2. \A x \in S, k \in 1..n : G[k][x] = turn(x, k)
        OBVIOUS
    <2> HIDE DEF G
    <2> QED
        BY ONLY <2>1, <2>2
<1>8. PICK f : f \in [0..n -> S] /\ f[0] = a /\ \A k \in 1..n : f[k] = F[k][f[k - 1]]
    <2>1. Loops(S, a, n, F) # {}
        BY ONLY <1>3, <1>7, n \in Nat, Loop
    <2> QED
        BY ONLY <2>1 DEF Loops
<1>9. Are(f)
    <2>1. ASSUME NEW k \in 1..n PROVE f[k] = turn(f[k - 1], k)
        <3>1. k - 1 \in 0..n
            OBVIOUS
        <3>2. f[k] = F[k][f[k - 1]] /\ f[k - 1] \in S
            BY ONLY <1>8, <3>1, k \in 1..n
        <3> QED
            BY ONLY <1>7, <3>2, k \in 1..n
    <2>2. ASSUME NEW k \in 0..n PROVE f[k] = IF k = 0 THEN a ELSE turn(f[k - 1], k)
        <3>1. k = 0 \/ k \in 1..n
            OBVIOUS
        <3> QED
            BY ONLY <1>8, <2>1, <3>1
    <2>3. f = [k \in 0..n |-> f[k]]
        BY ONLY <1>8
    <2> QED
        BY ONLY <1>2, <2>2, <2>3
<1>10. Are(g)
    <2> HIDE DEF Are
    <2> QED
        BY ONLY <1>6, <1>9
<1>11. \A k \in 0..n : g[k] = IF k = 0 THEN a ELSE turn(g[k - 1], k)
    BY ONLY <1>2, <1>10
<1>12. g = [k \in 0..n |-> g[k]]
    BY ONLY <1>10
<1>13. g[0] = a /\ \A k \in 1..n : g[k] = turn(g[k - 1], k)
    BY ONLY <1>11, n \in Nat
<1>14. \A k \in 1..n : g[k - 1] \in S => g[k] = F[k][g[k - 1]]
    BY ONLY <1>7, <1>13
<1>15. \A k \in 0..n : g[k] \in S
    BY ONLY <1>3, <1>7, <1>13, <1>14, n \in Nat, Looping
<1>16. g \in [0..n -> S]
    BY ONLY <1>12, <1>15
<1>17. \A k \in 1..n : turn(g[k - 1], k) = IF items[k] = <<T!IAC, T!DO, T!ECHO>> THEN TRUE
      ELSE IF items[k] = <<T!IAC, T!DONT, T!ECHO>> THEN FALSE ELSE g[k - 1]
    BY DEF turn
<1> HIDE DEF turn
<1>18. \A k \in 1..n : g[k] = IF items[k] = <<T!IAC, T!DO, T!ECHO>> THEN TRUE
      ELSE IF items[k] = <<T!IAC, T!DONT, T!ECHO>> THEN FALSE ELSE g[k - 1]
    BY ONLY <1>13, <1>17, Zenon
<1> QED
    BY ONLY <1>1, <1>2, <1>13, <1>16, <1>18, Zenon

\* What the client typed.
LEMMA TypedIs ==
    ASSUME items \in Seq(Items)
    PROVE  /\ T!Typed \in [0..Len(items) -> Seq(Int)] /\ T!Typed[0] = <<>>
           /\ \A k \in 1..Len(items) : T!Typed[k] =
               IF T!IsText(items[k]) THEN T!parse_telnet_payload(T!Typed[k - 1], items[k]) ELSE T!Typed[k - 1]
<1>1. PICK n \in Nat : n = Len(items)
    OBVIOUS
<1> DEFINE turn(x, k) == IF T!IsText(items[k]) THEN T!parse_telnet_payload(x, items[k]) ELSE x
           Are(f) == f = [k \in 0..n |-> IF k = 0 THEN <<>> ELSE turn(f[k - 1], k)]
<1>2. PICK g, S, a : g = T!Typed /\ S = Seq(Int) /\ a = <<>>
    OBVIOUS
<1>3. a \in S
    BY <1>2
<1>5. ASSUME NEW x \in S, NEW k \in 1..n PROVE turn(x, k) \in S
    <2> HIDE DEF turn
    <2>1. items[k] \in Items
        BY ONLY <1>1, items \in Seq(Items), k \in 1..n
    <2>2. PICK it \in Seq(Int) : it = items[k]
        BY <2>1, ItemsAssumption
    <2>3. T!Added(x, it) \in [0..Len(it) -> Seq(Int)]
        BY ONLY <1>2, x \in S, it \in Seq(Int), AddedIs
    <2>4. Len(it) \in 0..Len(it)
        OBVIOUS
    <2>5. T!parse_telnet_payload(x, it) \in Seq(Int)
        BY ONLY <2>3, <2>4 DEF T!parse_telnet_payload
    <2>6. T!parse_telnet_payload(x, items[k]) \in S
        BY ONLY <1>2, <2>2, <2>5
    <2> QED
        BY ONLY <2>6, x \in S, Zenon DEF turn
<1>6. g = CHOOSE f : Are(f)
    BY ONLY <1>1, <1>2 DEF T!Typed
<1> HIDE DEF turn
<1>7. PICK F \in [1..n -> [S -> S]] : \A x \in S, k \in 1..n : F[k][x] = turn(x, k)
    <2> DEFINE G == [k \in 1..n |-> [x \in S |-> turn(x, k)]]
    <2>1. G \in [1..n -> [S -> S]]
        BY ONLY <1>5
    <2>2. \A x \in S, k \in 1..n : G[k][x] = turn(x, k)
        OBVIOUS
    <2> HIDE DEF G
    <2> QED
        BY ONLY <2>1, <2>2
<1>8. PICK f : f \in [0..n -> S] /\ f[0] = a /\ \A k \in 1..n : f[k] = F[k][f[k - 1]]
    <2>1. Loops(S, a, n, F) # {}
        BY ONLY <1>3, <1>7, n \in Nat, Loop
    <2> QED
        BY ONLY <2>1 DEF Loops
<1>9. Are(f)
    <2>1. ASSUME NEW k \in 1..n PROVE f[k] = turn(f[k - 1], k)
        <3>1. k - 1 \in 0..n
            OBVIOUS
        <3>2. f[k] = F[k][f[k - 1]] /\ f[k - 1] \in S
            BY ONLY <1>8, <3>1, k \in 1..n
        <3> QED
            BY ONLY <1>7, <3>2, k \in 1..n
    <2>2. ASSUME NEW k \in 0..n PROVE f[k] = IF k = 0 THEN a ELSE turn(f[k - 1], k)
        <3>1. k = 0 \/ k \in 1..n
            OBVIOUS
        <3> QED
            BY ONLY <1>8, <2>1, <3>1
    <2>3. f = [k \in 0..n |-> f[k]]
        BY ONLY <1>8
    <2> QED
        BY ONLY <1>2, <2>2, <2>3
<1>10. Are(g)
    <2> HIDE DEF Are
    <2> QED
        BY ONLY <1>6, <1>9
<1>11. \A k \in 0..n : g[k] = IF k = 0 THEN a ELSE turn(g[k - 1], k)
    BY ONLY <1>2, <1>10
<1>12. g = [k \in 0..n |-> g[k]]
    BY ONLY <1>10
<1>13. g[0] = a /\ \A k \in 1..n : g[k] = turn(g[k - 1], k)
    BY ONLY <1>11, n \in Nat
<1>14. \A k \in 1..n : g[k - 1] \in S => g[k] = F[k][g[k - 1]]
    BY ONLY <1>7, <1>13
<1>15. \A k \in 0..n : g[k] \in S
    BY ONLY <1>3, <1>7, <1>13, <1>14, n \in Nat, Looping
<1>16. g \in [0..n -> S]
    BY ONLY <1>12, <1>15
<1>17. \A k \in 1..n : turn(g[k - 1], k) = IF T!IsText(items[k]) THEN T!parse_telnet_payload(g[k - 1], items[k])
      ELSE g[k - 1]
    BY DEF turn
<1> HIDE DEF turn
<1>18. \A k \in 1..n : g[k] = IF T!IsText(items[k]) THEN T!parse_telnet_payload(g[k - 1], items[k]) ELSE g[k - 1]
    BY ONLY <1>13, <1>17, Zenon
<1> QED
    BY ONLY <1>1, <1>2, <1>13, <1>16, <1>18, Zenon

ParserStates == [stage : 0..2, stage1 : Int, open : BOOLEAN, echo : BOOLEAN, text : Nat]

LEMMA ParseTypes ==
    ASSUME NEW st \in ParserStates, NEW c \in Int, NEW k \in Nat
    PROVE  T!Parse(st, c, k) \in ParserStates
<1>1. PICK sg \in 0..2, s1 \in Int, op \in BOOLEAN, ec \in BOOLEAN, tx0 \in Nat :
         st = [stage |-> sg, stage1 |-> s1, open |-> op, echo |-> ec, text |-> tx0]
    <2>1. /\ st.stage \in 0..2 /\ st.stage1 \in Int /\ st.open \in BOOLEAN /\ st.echo \in BOOLEAN /\ st.text \in Nat
          /\ st = [stage |-> st.stage, stage1 |-> st.stage1, open |-> st.open, echo |-> st.echo, text |-> st.text]
        BY DEF ParserStates
    <2> QED
        BY ONLY <2>1, Zenon
<1>2. CASE tx0 > 0
    BY <1>1, <1>2 DEF T!Parse
<1>3. CASE ~(tx0 > 0) /\ sg = 0
    <2>1. T!Parse(st, c, k) = IF c = T!IAC THEN [st EXCEPT !.stage = 1, !.open = TRUE]
                            ELSE IF c < 128 THEN [st EXCEPT !.text = k] ELSE st
        BY <1>1, <1>3 DEF T!Parse
    <2>0. PICK x \in 0..2 : x = 1
        OBVIOUS
    <2>2. PICK y \in BOOLEAN : y = TRUE
        OBVIOUS
    <2>3. [st EXCEPT !.stage = x, !.open = y] \in ParserStates /\ [st EXCEPT !.text = k] \in ParserStates
        BY DEF ParserStates
    <2>4. [st EXCEPT !.stage = 1, !.open = TRUE] \in ParserStates
        BY ONLY <2>0, <2>2, <2>3
    <2> QED
        BY ONLY <2>1, <2>3, <2>4, st \in ParserStates, Zenon
<1>4. CASE ~(tx0 > 0) /\ sg = 1
    <2>1. T!Parse(st, c, k) = [st EXCEPT !.stage = IF c = T!NOP THEN 0 ELSE 2, !.stage1 = c]
        BY <1>1, <1>4 DEF T!Parse
    <2>2. PICK x \in 0..2 : x = IF c = T!NOP THEN 0 ELSE 2
        OBVIOUS
    <2>3. [st EXCEPT !.stage = x, !.stage1 = c] \in ParserStates
        BY DEF ParserStates
    <2> QED
        BY ONLY <2>1, <2>2, <2>3
<1>5. CASE ~(tx0 > 0) /\ sg = 2
    <2>1. PICK x \in BOOLEAN : x = IF c # T!ECHO THEN ec
          ELSE IF s1 = T!DO THEN TRUE ELSE IF s1 = T!DONT THEN FALSE ELSE ec
        OBVIOUS
    <2>2. T!Parse(st, c, k) = [st EXCEPT !.stage = 0, !.echo = x]
        BY <1>1, <1>5, <2>1 DEF T!Parse
    <2>3. PICK y \in 0..2 : y = 0
        OBVIOUS
    <2>4. [st EXCEPT !.stage = y, !.echo = x] \in ParserStates
        BY DEF ParserStates
    <2> QED
        BY ONLY <2>2, <2>3, <2>4
<1> QED
    BY <1>1, <1>2, <1>3, <1>4, <1>5

\* The parser before the first byte.
Fresh == [stage |-> 0, stage1 |-> 0, open |-> open, echo |-> echo_mode, text |-> 0]

\* The parser, byte by byte.
LEMMA ParsedIs ==
    ASSUME open \in BOOLEAN, echo_mode \in BOOLEAN, NEW packet \in Seq(Int)
    PROVE  /\ T!Parsed(packet) \in [0..Len(packet) -> ParserStates] /\ T!Parsed(packet)[0] = Fresh
           /\ \A k \in 1..Len(packet) : T!Parsed(packet)[k] = T!Parse(T!Parsed(packet)[k - 1], packet[k], k)
<1>1. PICK n \in Nat : n = Len(packet)
    OBVIOUS
<1> DEFINE turn(x, k) == T!Parse(x, packet[k], k)
           Are(f) == f = [k \in 0..n |-> IF k = 0 THEN Fresh ELSE turn(f[k - 1], k)]
<1>2. PICK g, S, a : g = T!Parsed(packet) /\ S = ParserStates /\ a = Fresh
    OBVIOUS
<1>3. a \in S
    BY <1>2 DEF Fresh, ParserStates
<1>5. ASSUME NEW x \in S, NEW k \in 1..n PROVE turn(x, k) \in S
    <2> HIDE DEF turn
    <2>1. packet[k] \in Int /\ k \in Nat
        BY ONLY <1>1, packet \in Seq(Int), k \in 1..n
    <2> QED
        BY ONLY <1>2, <2>1, x \in S, ParseTypes DEF turn
<1>6. g = CHOOSE f : Are(f)
    BY ONLY <1>1, <1>2 DEF T!Parsed, Fresh
<1> HIDE DEF turn
<1>7. PICK F \in [1..n -> [S -> S]] : \A x \in S, k \in 1..n : F[k][x] = turn(x, k)
    <2> DEFINE G == [k \in 1..n |-> [x \in S |-> turn(x, k)]]
    <2>1. G \in [1..n -> [S -> S]]
        BY ONLY <1>5
    <2>2. \A x \in S, k \in 1..n : G[k][x] = turn(x, k)
        OBVIOUS
    <2> HIDE DEF G
    <2> QED
        BY ONLY <2>1, <2>2
<1>8. PICK f : f \in [0..n -> S] /\ f[0] = a /\ \A k \in 1..n : f[k] = F[k][f[k - 1]]
    <2>1. Loops(S, a, n, F) # {}
        BY ONLY <1>3, <1>7, n \in Nat, Loop
    <2> QED
        BY ONLY <2>1 DEF Loops
<1>9. Are(f)
    <2>1. ASSUME NEW k \in 1..n PROVE f[k] = turn(f[k - 1], k)
        <3>1. k - 1 \in 0..n
            OBVIOUS
        <3>2. f[k] = F[k][f[k - 1]] /\ f[k - 1] \in S
            BY ONLY <1>8, <3>1, k \in 1..n
        <3> QED
            BY ONLY <1>7, <3>2, k \in 1..n
    <2>2. ASSUME NEW k \in 0..n PROVE f[k] = IF k = 0 THEN a ELSE turn(f[k - 1], k)
        <3>1. k = 0 \/ k \in 1..n
            OBVIOUS
        <3> QED
            BY ONLY <1>8, <2>1, <3>1
    <2>3. f = [k \in 0..n |-> f[k]]
        BY ONLY <1>8
    <2> QED
        BY ONLY <1>2, <2>2, <2>3
<1>10. Are(g)
    <2> HIDE DEF Are
    <2> QED
        BY ONLY <1>6, <1>9
<1>11. \A k \in 0..n : g[k] = IF k = 0 THEN a ELSE turn(g[k - 1], k)
    BY ONLY <1>2, <1>10
<1>12. g = [k \in 0..n |-> g[k]]
    BY ONLY <1>10
<1>13. g[0] = a /\ \A k \in 1..n : g[k] = turn(g[k - 1], k)
    BY ONLY <1>11, n \in Nat
<1>14. \A k \in 1..n : g[k - 1] \in S => g[k] = F[k][g[k - 1]]
    BY ONLY <1>7, <1>13
<1>15. \A k \in 0..n : g[k] \in S
    BY ONLY <1>3, <1>7, <1>13, <1>14, n \in Nat, Looping
<1>16. g \in [0..n -> S]
    BY ONLY <1>12, <1>15
<1>17. \A k \in 1..n : turn(g[k - 1], k) = T!Parse(g[k - 1], packet[k], k)
    BY DEF turn
<1> HIDE DEF turn
<1>18. \A k \in 1..n : g[k] = T!Parse(g[k - 1], packet[k], k)
    BY ONLY <1>13, <1>17, Zenon
<1> QED
    BY ONLY <1>1, <1>2, <1>13, <1>16, <1>18, Zenon
-----------------------------------------------------------------------------
(* Where the items are.                                                    *)

LEMMA LenNat ==
    ASSUME NEW s \in Seq(Int)
    PROVE  Len(s) \in Nat
OBVIOUS

LEMMA NextItem ==
    ASSUME items \in Seq(Items), NEW n \in 1..Len(items)
    PROVE  /\ T!Stream[n - 1] \in Seq(Int) /\ T!Stream[n] \in Seq(Int) /\ items[n] \in Seq(Int)
           /\ Len(items[n]) > 0 /\ Len(T!Stream[n]) = Len(T!Stream[n - 1]) + Len(items[n])
           /\ \A k \in 1..Len(T!Stream[n - 1]) : T!Stream[n][k] = T!Stream[n - 1][k]
           /\ \A j \in 1..Len(items[n]) : T!Stream[n][Len(T!Stream[n - 1]) + j] = items[n][j]
           /\ T!IsText(items[n]) => \A j \in 1..Len(items[n]) : items[n][j] # T!IAC
<1>1. PICK it \in Items : it = items[n]
    OBVIOUS
<1>2. /\ it \in Seq(Int) /\ it # <<>>
      /\ it[1] # T!IAC => \A k \in 1..Len(it) : it[k] # T!IAC
    BY ItemsAssumption DEF T!IsText
<1>3. PICK l \in Nat : l = Len(it) /\ l > 0
    BY ONLY <1>2
<1>4. PICK a \in Seq(Int), b \in Seq(Int) : a = T!Stream[n - 1] /\ b = T!Stream[n] /\ b = a \o it
    <2>1. n - 1 \in 0..Len(items) /\ n \in 0..Len(items)
        OBVIOUS
    <2>2. T!Stream[n - 1] \in Seq(Int) /\ T!Stream[n] \in Seq(Int)
        BY ONLY <2>1, items \in Seq(Items), StreamIs
    <2>3. T!Stream[n] = T!Stream[n - 1] \o items[n]
        BY ONLY n \in 1..Len(items), items \in Seq(Items), StreamIs
    <2> QED
        BY ONLY <1>1, <2>2, <2>3, Zenon
<1>5. PICK h \in Nat : h = Len(a)
    OBVIOUS
<1>6. Follows(a, it, h, l)
    BY ONLY <1>2, <1>3, <1>5, a \in Seq(Int), h \in Nat, l \in Nat, Following
<1>7. Len(b) = h + l /\ (\A k \in 1..h : b[k] = a[k]) /\ \A k \in 1..l : b[h + k] = it[k]
    BY ONLY <1>4, <1>6 DEF Follows
<1>8. T!IsText(it) => \A j \in 1..l : it[j] # T!IAC
    BY ONLY <1>2, <1>3 DEF T!IsText
<1> QED
    BY ONLY <1>1, <1>2, <1>3, <1>4, <1>5, <1>7, <1>8

LEMMA Grows ==
    ASSUME items \in Seq(Items), NEW n \in 0..Len(items), NEW m \in 0..Len(items), n <= m
    PROVE  /\ T!Stream[n] \in Seq(Int) /\ T!Stream[m] \in Seq(Int)
           /\ Len(T!Stream[n]) <= Len(T!Stream[m]) /\ (n < m => Len(T!Stream[n]) < Len(T!Stream[m]))
           /\ \A k \in 1..Len(T!Stream[n]) : T!Stream[m][k] = T!Stream[n][k]
<1>1. PICK e \in Nat : e = Len(items)
    OBVIOUS
<1>2. PICK s : s = T!Stream
    OBVIOUS
<1>3. \A k \in 0..e : s[k] \in Seq(Int)
    BY ONLY <1>1, <1>2, items \in Seq(Items), StreamIs
<1>4. PICK h \in Nat : h = Len(s[n])
    BY <1>1, <1>3
<1> DEFINE Longer(m0) == /\ h <= Len(s[m0]) /\ (n < m0 => h < Len(s[m0]))
                         /\ \A k \in 1..h : s[m0][k] = s[n][k]
           set == {d \in Nat : n + d > e \/ Longer(n + d)}
<1>5. 0 \in set
    <2>1. n + 0 = n
        OBVIOUS
    <2>2. Longer(n)
        BY <1>4
    <2> HIDE DEF Longer
    <2> QED
        BY <2>1, <2>2
<1>6. ASSUME NEW d \in Nat, d \in set PROVE d + 1 \in set
    <2>1. CASE n + (d + 1) > e
        BY <2>1
    <2>2. CASE n + (d + 1) <= e
        <3>1. PICK i \in 1..e : i = n + (d + 1) /\ i - 1 = n + d /\ i - 1 \in 0..e /\ i - 1 <= e /\ n < i
            BY <1>1, <2>2
        <3>2. Longer(i - 1)
            <4> HIDE DEF Longer
            <4>1. d \in set /\ ~(n + d > e)
                BY ONLY <1>6, <3>1, e \in Nat, d \in Nat, n \in 0..Len(items), <1>1
            <4> QED
                BY ONLY <3>1, <4>1
        <3>3. PICK x \in Nat, y \in Nat, z \in Nat :
                 x = Len(s[i - 1]) /\ y = Len(s[i]) /\ y = x + z /\ z > 0 /\ \A k \in 1..x : s[i][k] = s[i - 1][k]
            <4>1. /\ items[i] \in Seq(Int) /\ T!Stream[i - 1] \in Seq(Int) /\ T!Stream[i] \in Seq(Int)
                  /\ Len(items[i]) > 0 /\ Len(T!Stream[i]) = Len(T!Stream[i - 1]) + Len(items[i])
                  /\ \A k \in 1..Len(T!Stream[i - 1]) : T!Stream[i][k] = T!Stream[i - 1][k]
                BY ONLY <1>1, i \in 1..e, items \in Seq(Items), NextItem
            <4>2. Len(items[i]) \in Nat /\ Len(T!Stream[i - 1]) \in Nat /\ Len(T!Stream[i]) \in Nat
                BY ONLY <4>1, LenNat, Zenon
            <4> QED
                BY ONLY <1>2, <4>1, <4>2, Zenon
        <3>4. h <= x /\ \A k \in 1..h : s[i - 1][k] = s[n][k]
            BY <3>2, <3>3
        <3>5. Longer(i)
            BY ONLY <3>3, <3>4, h \in Nat, x \in Nat, y \in Nat, z \in Nat
        <3> HIDE DEF Longer
        <3> QED
            BY <3>1, <3>5
    <2> QED
        BY <1>1, <2>1, <2>2
<1>7. \A d \in Nat : d \in set
    <2> HIDE DEF set
    <2> QED
        BY <1>5, <1>6, Induct
<1>8. m - n \in Nat /\ n + (m - n) = m /\ ~(m > e)
    BY <1>1
<1>9. Longer(m)
    <2> HIDE DEF Longer
    <2>1. m - n \in set
        BY <1>7, <1>8
    <2> QED
        BY ONLY <1>8, <2>1
<1> QED
    BY ONLY <1>1, <1>2, <1>3, <1>4, <1>9, n \in 0..Len(items), m \in 0..Len(items)

\* The packet holds the items from first + 1 to last.
PacketHolds(first, last, packet, w) ==
    /\ first \in 0..Len(items) /\ last \in 0..Len(items) /\ first <= last
    /\ packet \in Seq(Int) /\ w \in Nat /\ Len(packet) = w
    /\ taken = Len(T!Stream[first]) /\ taken + w = Len(T!Stream[last])
    /\ \A k \in 1..w : packet[k] = T!Bytes[taken + k]

\* The l bytes of s are those of t behind the first m.
Held(t, m, s, l) == l = Len(s) /\ \A j \in 1..l : t[m + j] = s[j]

\* Item n is what the packet holds behind the first p bytes, up to the q-th.
ItemAt(n, packet, it, p, q, l) ==
    /\ it = items[n] /\ l > 0 /\ Held(packet, p, it, l)
    /\ p = Len(T!Stream[n - 1]) - taken /\ q = Len(T!Stream[n]) - taken /\ q = p + l
    /\ T!IsText(it) => \A j \in 1..l : it[j] # T!IAC

LEMMA CutItem ==
    ASSUME items \in Seq(Items), NEW first, NEW last, NEW packet, NEW w, PacketHolds(first, last, packet, w),
           NEW n \in (first + 1)..last
    PROVE  \E p \in Nat, q \in Nat, l \in Nat, it \in Seq(Int) : q <= w /\ ItemAt(n, packet, it, p, q, l)
<1>1. PICK e \in Nat : e = Len(items)
    OBVIOUS
<1>2. PICK t \in Nat : /\ first \in 0..e /\ last \in 0..e /\ w \in Nat /\ t = taken
                       /\ t = Len(T!Stream[first]) /\ t + w = Len(T!Stream[last])
    <2>1. first \in 0..e /\ last \in 0..e /\ w \in Nat /\ taken = Len(T!Stream[first])
          /\ taken + w = Len(T!Stream[last])
        BY <1>1 DEF PacketHolds
    <2>2. T!Stream[first] \in Seq(Int)
        BY ONLY <1>1, <2>1, items \in Seq(Items), StreamIs
    <2>3. taken \in Nat
        BY ONLY <2>1, <2>2
    <2> QED
        BY ONLY <2>1, <2>3
<1>3. n \in 1..e /\ n - 1 \in 0..e /\ n \in 0..e /\ first <= n - 1 /\ n <= last /\ e \in 0..e /\ n <= e
    BY ONLY <1>1, <1>2, n \in (first + 1)..last
<1>4. PICK it \in Seq(Int), a \in Seq(Int), b \in Seq(Int) :
         /\ it = items[n] /\ a = T!Stream[n - 1] /\ b = T!Stream[n]
         /\ Len(it) > 0 /\ Len(b) = Len(a) + Len(it)
         /\ \A j \in 1..Len(it) : b[Len(a) + j] = it[j]
         /\ T!IsText(it) => \A j \in 1..Len(it) : it[j] # T!IAC
    <2>1. /\ T!Stream[n - 1] \in Seq(Int) /\ T!Stream[n] \in Seq(Int) /\ items[n] \in Seq(Int)
          /\ Len(items[n]) > 0 /\ Len(T!Stream[n]) = Len(T!Stream[n - 1]) + Len(items[n])
          /\ \A j \in 1..Len(items[n]) : T!Stream[n][Len(T!Stream[n - 1]) + j] = items[n][j]
          /\ T!IsText(items[n]) => \A j \in 1..Len(items[n]) : items[n][j] # T!IAC
        BY ONLY <1>1, <1>3, items \in Seq(Items), NextItem
    <2> QED
        BY ONLY <2>1, Zenon
<1>5. PICK x \in Nat, y \in Nat, l \in Nat : x = Len(a) /\ y = Len(b) /\ l = Len(it) /\ y = x + l /\ l > 0
    <2>1. Len(a) \in Nat /\ Len(b) \in Nat /\ Len(it) \in Nat
        BY LenNat, Zenon
    <2> QED
        BY ONLY <1>4, <2>1, Zenon
<1>6. t <= x
    <2>1. Len(T!Stream[first]) <= Len(T!Stream[n - 1])
        BY ONLY <1>1, <1>2, <1>3, items \in Seq(Items), Grows
    <2> QED
        BY ONLY <1>2, <1>4, <1>5, <2>1
<1>7. y <= t + w
    <2>1. Len(T!Stream[n]) <= Len(T!Stream[last])
        BY ONLY <1>1, <1>2, <1>3, items \in Seq(Items), Grows
    <2> QED
        BY ONLY <1>2, <1>4, <1>5, <2>1
<1>8. w \in Nat /\ y = x + l
    BY <1>2, <1>5
<1>9. PICK p \in Nat, q \in Nat : p = x - t /\ q = y - t /\ q <= w /\ q = p + l
    <2>1. x - t \in Nat /\ y - t \in Nat /\ y - t <= w /\ y - t = (x - t) + l
        BY ONLY <1>6, <1>7, <1>8, x \in Nat, y \in Nat, l \in Nat, t \in Nat
    <2> QED
        BY ONLY <2>1, Zenon
<1>10. ASSUME NEW j \in 1..l PROVE packet[p + j] = it[j]
    <2>1. p + j \in 1..w /\ t + (p + j) = x + j /\ x + j \in 1..y
        BY ONLY <1>6, <1>7, <1>8, <1>9, x \in Nat, y \in Nat, l \in Nat, t \in Nat, p \in Nat, j \in 1..l
    <2>2. packet[p + j] = T!Bytes[taken + (p + j)]
        BY ONLY PacketHolds(first, last, packet, w), <2>1 DEF PacketHolds
    <2>3. \A i \in 1..Len(T!Stream[n]) : T!Stream[e][i] = T!Stream[n][i]
        BY ONLY <1>1, <1>3, items \in Seq(Items), Grows
    <2>4. T!Bytes[x + j] = b[x + j]
        BY ONLY <1>1, <1>4, <1>5, <2>1, <2>3 DEF T!Bytes
    <2>5. b[x + j] = it[j]
        BY ONLY <1>4, <1>5, j \in 1..l
    <2> QED
        BY ONLY <1>2, <2>1, <2>2, <2>4, <2>5
<1>11. T!IsText(it) => \A j \in 1..l : it[j] # T!IAC
    BY ONLY <1>4, <1>5
<1>12. ItemAt(n, packet, it, p, q, l)
    <2>1. p = Len(T!Stream[n - 1]) - taken /\ q = Len(T!Stream[n]) - taken
        BY ONLY <1>2, <1>4, <1>5, <1>9
    <2> QED
        BY ONLY <1>4, <1>5, <1>9, <1>10, <1>11, <2>1 DEF ItemAt, Held
<1> QED
    BY ONLY <1>9, <1>12, p \in Nat, q \in Nat, l \in Nat, it \in Seq(Int), Zenon

-----------------------------------------------------------------------------
(* The negotiations in front.                                              *)

\* The parser is between two options, and the text has not begun.
Between(st, echo) == st \in ParserStates /\ st.stage = 0 /\ st.text = 0 /\ st.echo = echo

\* What option o in command c makes of the request for an echo.
EchoAfter(c, o, echo) == IF o # T!ECHO THEN echo ELSE IF c = T!DO THEN TRUE ELSE IF c = T!DONT THEN FALSE ELSE echo

\* The parser, case by case.
LEMMA ParseDone ==
    ASSUME NEW st \in ParserStates, NEW c, NEW k, st.text # 0
    PROVE  T!Parse(st, c, k) = st
<1>1. st.text > 0
    BY DEF ParserStates
<1> QED
    BY ONLY <1>1 DEF T!Parse

LEMMA ParseCommand ==
    ASSUME NEW st \in ParserStates, NEW c, NEW k, st.text = 0, st.stage = 0, c = T!IAC
    PROVE  T!Parse(st, c, k) = [st EXCEPT !.stage = 1, !.open = TRUE]
<1>1. ~(st.text > 0)
    OBVIOUS
<1> QED
    BY ONLY <1>1, st.stage = 0, c = T!IAC DEF T!Parse

LEMMA ParseText ==
    ASSUME NEW st \in ParserStates, NEW c, NEW k, st.text = 0, st.stage = 0, c # T!IAC
    PROVE  T!Parse(st, c, k) = IF c < 128 THEN [st EXCEPT !.text = k] ELSE st
<1>1. ~(st.text > 0)
    OBVIOUS
<1> QED
    BY ONLY <1>1, st.stage = 0, c # T!IAC DEF T!Parse

LEMMA ParseVerb ==
    ASSUME NEW st \in ParserStates, NEW c, NEW k, st.text = 0, st.stage = 1
    PROVE  T!Parse(st, c, k) = [st EXCEPT !.stage = IF c = T!NOP THEN 0 ELSE 2, !.stage1 = c]
<1>1. ~(st.text > 0)
    OBVIOUS
<1> QED
    BY ONLY <1>1, st.stage = 1 DEF T!Parse

LEMMA ParseOption ==
    ASSUME NEW st \in ParserStates, NEW c, NEW k, st.text = 0, st.stage = 2
    PROVE  T!Parse(st, c, k) = [st EXCEPT !.stage = 0, !.echo = EchoAfter(st.stage1, c, st.echo)]
<1>1. ~(st.text > 0)
    OBVIOUS
<1>2. EchoAfter(st.stage1, c, st.echo) = IF c # T!ECHO THEN st.echo
                                     ELSE IF st.stage1 = T!DO THEN TRUE
                                     ELSE IF st.stage1 = T!DONT THEN FALSE ELSE st.echo
    BY DEF EchoAfter
<1> QED
    BY ONLY <1>1, <1>2, st.stage = 2 DEF T!Parse

\* A NOP, and an option.
LEMMA Negotiates ==
    ASSUME NEW st, NEW echo \in BOOLEAN, Between(st, echo), NEW c \in Int, NEW k \in Nat,
           NEW one, NEW two, one = T!Parse(st, T!IAC, k), two = T!Parse(one, c, k + 1)
    PROVE  /\ c = T!NOP => Between(two, echo)
           /\ \A o \in Int : c \in 251..254 => Between(T!Parse(two, o, (k + 1) + 1), EchoAfter(c, o, echo))
<1>1. st \in ParserStates /\ T!IAC \in Int /\ k + 1 \in Nat /\ (k + 1) + 1 \in Nat
    BY DEF Between, T!IAC
<1>2. one \in ParserStates
    BY ONLY <1>1, k \in Nat, one = T!Parse(st, T!IAC, k), ParseTypes
<1>3. two \in ParserStates
    BY ONLY <1>1, <1>2, c \in Int, two = T!Parse(one, c, k + 1), ParseTypes
<1>4. st.stage = 0 /\ st.text = 0 /\ st.echo = echo
    BY DEF Between
<1>5. one = [st EXCEPT !.stage = 1, !.open = TRUE]
    BY ONLY <1>1, <1>4, k \in Nat, one = T!Parse(st, T!IAC, k), ParseCommand
<1>6. one.stage = 1 /\ one.text = 0 /\ one.echo = echo
    BY ONLY <1>1, <1>4, <1>5 DEF ParserStates
<1>7. two = [one EXCEPT !.stage = IF c = T!NOP THEN 0 ELSE 2, !.stage1 = c]
    BY ONLY <1>1, <1>2, <1>6, c \in Int, two = T!Parse(one, c, k + 1), ParseVerb
<1>8. two.stage = (IF c = T!NOP THEN 0 ELSE 2) /\ two.stage1 = c /\ two.text = 0 /\ two.echo = echo
    BY ONLY <1>2, <1>6, <1>7 DEF ParserStates
<1>9. c = T!NOP => Between(two, echo)
    BY ONLY <1>3, <1>8 DEF Between
<1>10. ASSUME NEW o \in Int, c \in 251..254 PROVE Between(T!Parse(two, o, (k + 1) + 1), EchoAfter(c, o, echo))
    <2>1. PICK three : three = T!Parse(two, o, (k + 1) + 1)
        OBVIOUS
    <2>2. three \in ParserStates
        BY ONLY <1>1, <1>3, <2>1, o \in Int, ParseTypes
    <2>3. two.stage = 2
        BY ONLY <1>8, <1>10 DEF T!NOP
    <2>4. three = [two EXCEPT !.stage = 0, !.echo = EchoAfter(c, o, echo)]
        BY ONLY <1>1, <1>3, <1>8, <2>1, <2>3, o \in Int, ParseOption
    <2>5. three.stage = 0 /\ three.text = 0 /\ three.echo = EchoAfter(c, o, echo)
        BY ONLY <1>3, <1>8, <2>4 DEF ParserStates
    <2> QED
        BY ONLY <2>1, <2>2, <2>5 DEF Between
<1> QED
    BY ONLY <1>9, <1>10

\* A negotiation, and what it makes of the request for an echo.
Negotiated(it, l, before, after) ==
    /\ it[1] = T!IAC
    /\ \/ l = 2 /\ it[2] = T!NOP /\ after = before
       \/ l = 3 /\ it[2] \in 251..254 /\ after = EchoAfter(it[2], it[3], before)

LEMMA AsksEcho ==
    ASSUME items \in Seq(Items), NEW n \in 1..Len(items), NEW it \in Seq(Int), it = items[n], T!Negotiation(it)
    PROVE  /\ T!EchoAsked[n - 1] \in BOOLEAN /\ T!Typed[n] = T!Typed[n - 1]
           /\ Negotiated(it, Len(it), T!EchoAsked[n - 1], T!EchoAsked[n])
<1>1. PICK x \in BOOLEAN, y \in BOOLEAN :
         /\ x = T!EchoAsked[n - 1] /\ y = T!EchoAsked[n]
         /\ y = IF it = <<T!IAC, T!DO, T!ECHO>> THEN TRUE ELSE IF it = <<T!IAC, T!DONT, T!ECHO>> THEN FALSE ELSE x
    <2>1. n - 1 \in 0..Len(items) /\ n \in 0..Len(items)
        OBVIOUS
    <2>2. T!EchoAsked[n - 1] \in BOOLEAN /\ T!EchoAsked[n] \in BOOLEAN
        BY ONLY <2>1, items \in Seq(Items), EchoIs
    <2>3. T!EchoAsked[n] = IF items[n] = <<T!IAC, T!DO, T!ECHO>> THEN TRUE
                         ELSE IF items[n] = <<T!IAC, T!DONT, T!ECHO>> THEN FALSE ELSE T!EchoAsked[n - 1]
        BY ONLY n \in 1..Len(items), items \in Seq(Items), EchoIs
    <2> QED
        BY ONLY <2>2, <2>3, it = items[n], Zenon
<1>2. it[1] = T!IAC
    BY DEF T!Negotiation
<1>3. T!Typed[n] = T!Typed[n - 1]
    <2>1. T!Typed[n] = IF T!IsText(items[n]) THEN T!parse_telnet_payload(T!Typed[n - 1], items[n]) ELSE T!Typed[n - 1]
        BY ONLY n \in 1..Len(items), items \in Seq(Items), TypedIs
    <2> QED
        BY ONLY <1>2, <2>1, it = items[n] DEF T!IsText
<1>4. CASE it = <<T!IAC, T!NOP>>
    <2>1. Len(it) = 2 /\ it[2] = T!NOP
        BY ONLY <1>4
    <2>2. ASSUME NEW t, Len(t) = 3 PROVE it # t
        <3> SUFFICES ASSUME it = t PROVE FALSE
            OBVIOUS
        <3>1. Len(it) = 3
            BY ONLY <2>2, it = t
        <3>2. Len(it) = 2
            BY ONLY <2>1
        <3>3. 2 = 3
            BY ONLY <3>1, <3>2
        <3> QED
            BY ONLY <3>3
    <2>3. it # <<T!IAC, T!DO, T!ECHO>> /\ it # <<T!IAC, T!DONT, T!ECHO>>
        <3>1. Len(<<T!IAC, T!DO, T!ECHO>>) = 3
            OBVIOUS
        <3>2. Len(<<T!IAC, T!DONT, T!ECHO>>) = 3
            OBVIOUS
        <3>3. it # <<T!IAC, T!DO, T!ECHO>>
            BY ONLY <2>2, <3>1
        <3>4. it # <<T!IAC, T!DONT, T!ECHO>>
            BY ONLY <2>2, <3>2
        <3> QED
            BY ONLY <3>3, <3>4
    <2>4. y = x
        BY ONLY <1>1, <2>3
    <2> QED
        BY ONLY <1>1, <1>2, <1>3, <2>1, <2>4 DEF Negotiated
<1>5. CASE Len(it) = 3 /\ it[1] = T!IAC /\ it[2] \in 251..254
    <2>0. it = <<it[1], it[2], it[3]>>
        BY ONLY <1>5, it \in Seq(Int)
    <2>1. it = <<T!IAC, T!DO, T!ECHO>> <=> it[2] = T!DO /\ it[3] = T!ECHO
        BY ONLY <1>5, <2>0
    <2>2. it = <<T!IAC, T!DONT, T!ECHO>> <=> it[2] = T!DONT /\ it[3] = T!ECHO
        BY ONLY <1>5, <2>0
    <2>3. y = EchoAfter(it[2], it[3], x)
        BY ONLY <1>1, <2>1, <2>2 DEF EchoAfter
    <2> QED
        BY ONLY <1>1, <1>2, <1>3, <1>5, <2>3 DEF Negotiated
<1> QED
    BY <1>4, <1>5 DEF T!Negotiation

\* The parser on a packet.
Run(A, packet, w) ==
    /\ A = T!Parsed(packet) /\ A \in [0..w -> ParserStates] /\ A[0] = Fresh
    /\ \A k \in 1..w : A[k] = T!Parse(A[k - 1], packet[k], k)

LEMMA Runs ==
    ASSUME open \in BOOLEAN, echo_mode \in BOOLEAN, NEW packet \in Seq(Int), NEW w \in Nat, w = Len(packet)
    PROVE  Run(T!Parsed(packet), packet, w)
BY ParsedIs DEF Run

\* The parser has taken a negotiation when it has taken its bytes.
LEMMA Takes ==
    ASSUME NEW A, NEW packet, NEW w \in Nat, Run(A, packet, w), NEW p \in Nat, NEW l \in Nat, p + l <= w,
           NEW it \in Seq(Int), Held(packet, p, it, l),
           NEW before \in BOOLEAN, NEW after, Between(A[p], before), Negotiated(it, l, before, after)
    PROVE  Between(A[p + l], after)
<1>1. \A j \in 1..l : A[p + j] = T!Parse(A[p + (j - 1)], it[j], p + j)
    <2> SUFFICES ASSUME NEW j \in 1..l PROVE A[p + j] = T!Parse(A[p + (j - 1)], it[j], p + j)
        OBVIOUS
    <2>1. p + j \in 1..w /\ (p + j) - 1 = p + (j - 1)
        BY ONLY p + l <= w, p \in Nat, l \in Nat, w \in Nat, j \in 1..l
    <2>2. packet[p + j] = it[j]
        BY DEF Held
    <2> QED
        BY ONLY Run(A, packet, w), <2>1, <2>2 DEF Run
<1>2. it[1] = T!IAC
    BY DEF Negotiated
<1>3. p + 0 = p /\ p + 1 \in Nat /\ p + 1 + 1 = p + 2 /\ (p + 1) + 1 = p + 2 /\ ((p + 1) + 1) + 1 = p + 3
    BY ONLY p \in Nat
<1>4. CASE l = 2 /\ it[2] = T!NOP /\ after = before
    <2>1. 1 \in 1..l /\ 2 \in 1..l /\ 1 - 1 = 0 /\ 2 - 1 = 1
        BY ONLY <1>4
    <2>2. A[p + 1] = T!Parse(A[p], T!IAC, p + 1)
        BY ONLY <1>1, <1>2, <1>3, <2>1
    <2>3. A[p + 2] = T!Parse(A[p + 1], it[2], (p + 1) + 1)
        BY ONLY <1>1, <1>3, <2>1
    <2>4. it[2] \in Int
        BY ONLY <2>1, it \in Seq(Int), Held(packet, p, it, l) DEF Held
    <2>5. Between(A[p + 2], before)
        BY ONLY <1>3, <1>4, <2>2, <2>3, <2>4, before \in BOOLEAN, Between(A[p], before), Negotiates
    <2> QED
        BY ONLY <1>4, <2>5
<1>5. CASE l = 3 /\ it[2] \in 251..254 /\ after = EchoAfter(it[2], it[3], before)
    <2>1. 1 \in 1..l /\ 2 \in 1..l /\ 3 \in 1..l /\ 1 - 1 = 0 /\ 2 - 1 = 1 /\ 3 - 1 = 2
        BY ONLY <1>5
    <2>2. A[p + 1] = T!Parse(A[p], T!IAC, p + 1)
        BY ONLY <1>1, <1>2, <1>3, <2>1
    <2>3. A[p + 2] = T!Parse(A[p + 1], it[2], (p + 1) + 1)
        BY ONLY <1>1, <1>3, <2>1
    <2>4. A[p + 3] = T!Parse(A[p + 2], it[3], ((p + 1) + 1) + 1)
        BY ONLY <1>1, <1>3, <2>1
    <2>5. it[2] \in Int /\ it[3] \in Int
        BY ONLY <2>1, it \in Seq(Int), Held(packet, p, it, l) DEF Held
    <2>6. Between(A[p + 3], after)
        BY ONLY <1>3, <1>5, <2>2, <2>3, <2>4, <2>5, before \in BOOLEAN, Between(A[p], before), Negotiates
    <2> QED
        BY ONLY <1>5, <2>6
<1> QED
    BY <1>4, <1>5 DEF Negotiated

\* After the negotiations in front the parser has the request of the client.
LEMMA Heads ==
    ASSUME items \in Seq(Items), NEW first, NEW last, NEW packet, NEW w, NEW A,
           PacketHolds(first, last, packet, w), Run(A, packet, w), NEW mid \in first..last,
           \A k \in (first + 1)..mid : T!Negotiation(items[k]), Fresh.echo = T!EchoAsked[first]
    PROVE  Between(A[Len(T!Stream[mid]) - taken], T!EchoAsked[mid]) /\ T!Typed[mid] = T!Typed[first]
<1>1. /\ first \in Nat /\ last \in Nat /\ mid \in Nat /\ last <= Len(items) /\ packet \in Seq(Int) /\ w \in Nat
         /\ Len(packet) = w
      /\ taken = Len(T!Stream[first]) /\ first \in 0..Len(items)
    BY DEF PacketHolds
<1> DEFINE Holds(i) == Between(A[Len(T!Stream[i]) - taken], T!EchoAsked[i]) /\ T!Typed[i] = T!Typed[first]
           set == {d \in Nat : first + d > mid \/ Holds(first + d)}
<1>3. 0 \in set
    <2>1. Len(T!Stream[first]) - taken = 0
        <3>1. T!Stream[first] \in Seq(Int)
            BY ONLY <1>1, items \in Seq(Items), StreamIs
        <3> QED
            BY ONLY <1>1, <3>1
    <2>2. Between(Fresh, Fresh.echo)
        <3>1. 0 \in 0..w
            BY <1>1
        <3>2. Fresh \in ParserStates
            BY ONLY Run(A, packet, w), <3>1 DEF Run
        <3> QED
            BY ONLY <3>2 DEF Between, Fresh
    <2>3. A[0] = Fresh
        BY DEF Run
    <2>4. Holds(first)
        BY ONLY <2>1, <2>2, <2>3, Fresh.echo = T!EchoAsked[first]
    <2>5. first + 0 = first
        BY <1>1
    <2> HIDE DEF Holds
    <2> QED
        BY ONLY <2>4, <2>5
<1>4. ASSUME NEW d \in Nat, d \in set PROVE d + 1 \in set
    <2>1. CASE first + (d + 1) > mid
        BY <2>1
    <2>2. CASE first + (d + 1) <= mid
        <3>1. PICK i \in (first + 1)..mid : i = first + (d + 1) /\ i - 1 = first + d /\ i - 1 <= mid
              /\ i \in (first + 1)..last
            BY <1>1, <2>2
        <3>2. Holds(i - 1)
            <4> HIDE DEF Holds
            <4>1. first + d = i - 1 /\ ~(first + d > mid)
                BY <1>1, <3>1
            <4> QED
                BY ONLY <1>4, <4>1
        <3>3. PICK p \in Nat, q \in Nat, l \in Nat, it \in Seq(Int) : q <= w /\ ItemAt(i, packet, it, p, q, l)
            BY ONLY <3>1, items \in Seq(Items), PacketHolds(first, last, packet, w), CutItem
        <3>4. /\ it = items[i] /\ l = Len(it) /\ p = Len(T!Stream[i - 1]) - taken /\ q = Len(T!Stream[i]) - taken
              /\ q = p + l /\ Held(packet, p, it, l)
            BY ONLY <3>3 DEF ItemAt, Held
        <3>5. i \in 1..Len(items) /\ T!Negotiation(it)
            <4>1. PICK z \in Nat : z = Len(items) /\ last <= z
                BY <1>1
            <4>2. i \in 1..z
                BY ONLY <1>1, <3>1, <4>1, first \in Nat, last \in Nat
            <4>3. T!Negotiation(items[i])
                BY <3>1
            <4> QED
                BY ONLY <3>4, <4>1, <4>2, <4>3, Zenon
        <3>6. T!EchoAsked[i - 1] \in BOOLEAN /\ T!Typed[i] = T!Typed[i - 1]
              /\ Negotiated(it, l, T!EchoAsked[i - 1], T!EchoAsked[i])
            BY ONLY <3>4, <3>5, it \in Seq(Int), items \in Seq(Items), AsksEcho
        <3>7. Between(A[p], T!EchoAsked[i - 1]) /\ T!Typed[i - 1] = T!Typed[first]
            BY ONLY <3>2, <3>4
        <3>8. Between(A[p + l], T!EchoAsked[i])
            <4>1. p + l <= w /\ w \in Nat
                BY ONLY <1>1, <3>3, <3>4
            <4>2. PICK x \in BOOLEAN : x = T!EchoAsked[i - 1]
                BY <3>6
            <4>4. PICK y : y = T!EchoAsked[i]
                OBVIOUS
            <4>3. Between(A[p], x) /\ Negotiated(it, l, x, y)
                BY ONLY <3>6, <3>7, <4>2, <4>4
            <4>5. Between(A[p + l], y)
                <5>1. Held(packet, p, it, l)
                    BY <3>4
                <5> QED
                    BY ONLY <4>1, <4>3, <5>1, x \in BOOLEAN, Run(A, packet, w), it \in Seq(Int), p \in Nat, l \in Nat,
                            Takes, Zenon
            <4> QED
                BY ONLY <4>4, <4>5
        <3>9. Holds(i)
            BY ONLY <3>4, <3>6, <3>7, <3>8
        <3> HIDE DEF Holds
        <3> QED
            BY ONLY <3>1, <3>9, d \in Nat
    <2>3. first + (d + 1) > mid \/ first + (d + 1) <= mid
        BY <1>1
    <2> QED
        BY ONLY <2>1, <2>2, <2>3
<1>5. \A d \in Nat : d \in set
    <2> HIDE DEF set
    <2> QED
        BY <1>3, <1>4, Induct
<1>6. Holds(mid)
    <2> HIDE DEF Holds
    <2>1. mid - first \in Nat /\ first + (mid - first) = mid /\ ~(mid > mid)
        BY <1>1
    <2>2. mid - first \in set
        BY <1>5, <2>1
    <2> QED
        BY ONLY <2>1, <2>2
<1> QED
    BY ONLY <1>6

-----------------------------------------------------------------------------
(* The text behind them.                                                   *)

\* Where the text begins: the first of the bytes n + 1 to w that is below 128.
Found(packet, start, n, w) ==
    \/ start = 0 /\ \A k \in (n + 1)..w : ~(packet[k] < 128)
    \/ start \in (n + 1)..w /\ \A k \in (n + 1)..(start - 1) : ~(packet[k] < 128)

\* Between two options and with no further one, the parser only finds the text.
Seeks(st, echo, packet, n, w) ==
    st \in ParserStates /\ st.stage = 0 /\ st.echo = echo /\ Found(packet, st.text, n, w)

LEMMA SeeksOn ==
    ASSUME NEW packet, NEW n \in Nat, NEW k \in Nat, n < k, NEW st, NEW echo, Seeks(st, echo, packet, n, k - 1),
           packet[k] \in Int, packet[k] # T!IAC
    PROVE  Seeks(T!Parse(st, packet[k], k), echo, packet, n, k)
<1>1. PICK c \in Int : c = packet[k] /\ c # T!IAC
    OBVIOUS
<1>2. st \in ParserStates /\ st.stage = 0 /\ st.echo = echo /\ Found(packet, st.text, n, k - 1)
    BY DEF Seeks
<1>3. PICK x \in Nat : x = st.text
    BY ONLY <1>2 DEF ParserStates
<1>4. CASE x # 0
    <2>1. T!Parse(st, c, k) = st
        BY ONLY <1>2, <1>3, <1>4, ParseDone
    <2>2. x \in (n + 1)..(k - 1) /\ \A j \in (n + 1)..(x - 1) : ~(packet[j] < 128)
        BY ONLY <1>2, <1>3, <1>4 DEF Found
    <2>3. x \in (n + 1)..k
        BY ONLY <2>2, n \in Nat, k \in Nat
    <2>4. Found(packet, x, n, k)
        BY ONLY <2>2, <2>3 DEF Found
    <2> QED
        BY ONLY <1>1, <1>2, <1>3, <2>1, <2>4 DEF Seeks
<1>5. CASE x = 0
    <2>1. T!Parse(st, c, k) = IF c < 128 THEN [st EXCEPT !.text = k] ELSE st
        BY ONLY <1>1, <1>2, <1>3, <1>5, ParseText
    <2>2. \A j \in (n + 1)..(k - 1) : ~(packet[j] < 128)
        BY ONLY <1>2, <1>3, <1>5, n \in Nat DEF Found
    <2>3. CASE c < 128
        <3>1. PICK s2 : s2 = [st EXCEPT !.text = k]
            OBVIOUS
        <3>2. s2 \in ParserStates /\ s2.stage = 0 /\ s2.echo = echo /\ s2.text = k
            BY ONLY <1>2, <3>1, k \in Nat DEF ParserStates
        <3>3. k \in (n + 1)..k
            BY ONLY n \in Nat, k \in Nat, n < k
        <3>4. Found(packet, k, n, k)
            BY ONLY <2>2, <3>3 DEF Found
        <3> QED
            BY ONLY <1>1, <2>1, <2>3, <3>1, <3>2, <3>4 DEF Seeks
    <2>4. CASE ~(c < 128)
        <3>1. \A j \in (n + 1)..k : ~(packet[j] < 128)
            <4>1. \A j \in (n + 1)..k : j \in (n + 1)..(k - 1) \/ j = k
                BY ONLY n \in Nat, k \in Nat
            <4> QED
                BY ONLY <1>1, <2>2, <2>4, <4>1
        <3>2. Found(packet, x, n, k)
            BY ONLY <1>5, <3>1 DEF Found
        <3> QED
            BY ONLY <1>1, <1>2, <1>3, <2>1, <2>4, <3>2 DEF Seeks
    <2> QED
        BY <2>3, <2>4
<1> QED
    BY <1>4, <1>5

LEMMA Finds ==
    ASSUME NEW packet \in Seq(Int), NEW w \in Nat, w = Len(packet), NEW A, Run(A, packet, w), NEW n \in Nat, n <= w,
           NEW echo, Between(A[n], echo), \A k \in (n + 1)..w : packet[k] # T!IAC
    PROVE  Seeks(A[w], echo, packet, n, w)
<1> DEFINE set == {d \in Nat : n + d > w \/ Seeks(A[n + d], echo, packet, n, n + d)}
<1>1. 0 \in set
    <2>1. \A k \in (n + 1)..n : ~(packet[k] < 128)
        BY n \in Nat
    <2>2. Seeks(A[n], echo, packet, n, n)
        BY ONLY <2>1, Between(A[n], echo) DEF Seeks, Between, Found
    <2>3. n + 0 = n
        OBVIOUS
    <2> QED
        BY ONLY <2>2, <2>3
<1>2. ASSUME NEW d \in Nat, d \in set PROVE d + 1 \in set
    <2>1. CASE n + (d + 1) > w
        BY <2>1
    <2>2. CASE n + (d + 1) <= w
        <3>1. PICK k \in 1..w : k = n + (d + 1) /\ k - 1 = n + d /\ n < k /\ ~(n + d > w) /\ k \in (n + 1)..w
              /\ k \in Nat
            <4>1. /\ n + (d + 1) \in 1..w /\ (n + (d + 1)) - 1 = n + d /\ n < n + (d + 1) /\ ~(n + d > w)
                  /\ n + (d + 1) \in (n + 1)..w /\ n + (d + 1) \in Nat
                BY ONLY <2>2, n \in Nat, d \in Nat, w \in Nat
            <4> QED
                BY ONLY <4>1, Zenon
        <3>2. Seeks(A[k - 1], echo, packet, n, k - 1)
            BY ONLY <1>2, <3>1
        <3>3. packet[k] \in Int /\ packet[k] # T!IAC
            BY <3>1
        <3>4. A[k] = T!Parse(A[k - 1], packet[k], k)
            BY ONLY Run(A, packet, w), k \in 1..w DEF Run
        <3>5. Seeks(A[k], echo, packet, n, k)
            BY ONLY <3>1, <3>2, <3>3, <3>4, n \in Nat, SeeksOn
        <3> QED
            BY ONLY <3>1, <3>5, d \in Nat
    <2> QED
        BY <2>1, <2>2
<1>3. \A d \in Nat : d \in set
    <2> HIDE DEF set
    <2> QED
        BY ONLY <1>1, <1>2, Induct
<1>4. w - n \in Nat /\ n + (w - n) = w /\ ~(w > w)
    OBVIOUS
<1>5. w - n \in set
    BY <1>3, <1>4
<1> QED
    BY ONLY <1>4, <1>5
-----------------------------------------------------------------------------
(* The line buffer.                                                        *)

\* The buffer after k letters.
BufferFilled(Z, buffer, bytes, w) ==
    /\ Z = T!Added(buffer, bytes) /\ Z \in [0..w -> Seq(Int)] /\ Z[0] = buffer /\ w = Len(bytes)
    /\ \A k \in 1..w : Z[k] = IF T!Letter(bytes[k]) THEN Append(Z[k - 1], bytes[k]) ELSE Z[k - 1]

LEMMA Fills ==
    ASSUME NEW buffer \in Seq(Int), NEW bytes \in Seq(Int), NEW w \in Nat, w = Len(bytes)
    PROVE  BufferFilled(T!Added(buffer, bytes), buffer, bytes, w)
        /\ T!parse_telnet_payload(buffer, bytes) = T!Added(buffer, bytes)[w]
<1>1. BufferFilled(T!Added(buffer, bytes), buffer, bytes, w)
    BY AddedIs DEF BufferFilled
<1> QED
    BY <1>1 DEF T!parse_telnet_payload

Agree(s, n, t, m, l) == \A j \in 1..l : s[n + j] = t[m + j]

\* Where two texts agree, what they do to the buffer does.
LEMMA Concur ==
    ASSUME NEW Y, NEW Z, NEW a, NEW b, NEW s, NEW t, NEW v \in Nat, NEW w \in Nat,
           BufferFilled(Y, a, s, v), BufferFilled(Z, b, t, w), NEW n \in Nat, NEW m \in Nat, NEW l \in Nat,
           n + l <= v, m + l <= w, Y[n] = Z[m], Agree(s, n, t, m, l)
    PROVE  Y[n + l] = Z[m + l]
<1> DEFINE set == {d \in Nat : d > l \/ Y[n + d] = Z[m + d]}
<1>1. 0 \in set
    <2>1. n + 0 = n /\ m + 0 = m
        OBVIOUS
    <2> QED
        BY <2>1
<1>2. ASSUME NEW d \in Nat, d \in set PROVE d + 1 \in set
    <2>1. CASE d + 1 > l
        BY <2>1
    <2>2. CASE d + 1 <= l
        <3>1. /\ d + 1 \in 1..l /\ n + (d + 1) \in 1..v /\ m + (d + 1) \in 1..w /\ ~(d > l)
              /\ (n + (d + 1)) - 1 = n + d /\ (m + (d + 1)) - 1 = m + d
            BY ONLY <2>2, n \in Nat, m \in Nat, l \in Nat, v \in Nat, w \in Nat, d \in Nat, n + l <= v, m + l <= w
        <3>2. PICK x : x = Y[n + d] /\ x = Z[m + d]
            BY ONLY <1>2, <3>1
        <3>3. PICK c : c = s[n + (d + 1)] /\ c = t[m + (d + 1)]
            BY <3>1 DEF Agree
        <3>4. Y[n + (d + 1)] = IF T!Letter(c) THEN Append(x, c) ELSE x
            BY ONLY BufferFilled(Y, a, s, v), <3>1, <3>2, <3>3 DEF BufferFilled
        <3>5. Z[m + (d + 1)] = IF T!Letter(c) THEN Append(x, c) ELSE x
            BY ONLY BufferFilled(Z, b, t, w), <3>1, <3>2, <3>3 DEF BufferFilled
        <3> QED
            BY ONLY <3>4, <3>5, d \in Nat
    <2> QED
        BY <2>1, <2>2
<1>3. \A d \in Nat : d \in set
    <2> HIDE DEF set
    <2> QED
        BY ONLY <1>1, <1>2, Induct
<1>4. l \in set /\ ~(l > l)
    BY <1>3
<1> QED
    BY ONLY <1>4

\* What is no letter adds nothing.
LEMMA Unchanged ==
    ASSUME NEW Z, NEW b, NEW t, NEW w \in Nat, BufferFilled(Z, b, t, w), NEW n \in Nat, n <= w,
           \A j \in 1..n : ~(t[j] < 128)
    PROVE  Z[n] = b
<1> DEFINE set == {d \in Nat : d > n \/ Z[d] = b}
<1>1. 0 \in set
    BY DEF BufferFilled
<1>2. ASSUME NEW d \in Nat, d \in set PROVE d + 1 \in set
    <2>1. CASE d + 1 > n
        BY <2>1
    <2>2. CASE d + 1 <= n
        <3>1. d + 1 \in 1..n /\ d + 1 \in 1..w /\ ~(d > n) /\ (d + 1) - 1 = d
            BY ONLY <2>2, n \in Nat, w \in Nat, d \in Nat, n <= w
        <3>2. ~T!Letter(t[d + 1])
            BY <3>1 DEF T!Letter
        <3>3. Z[d + 1] = Z[d]
            BY ONLY BufferFilled(Z, b, t, w), <3>1, <3>2 DEF BufferFilled
        <3> QED
            BY ONLY <1>2, <3>1, <3>3, d \in Nat
    <2> QED
        BY <2>1, <2>2
<1>3. \A d \in Nat : d \in set
    <2> HIDE DEF set
    <2> QED
        BY ONLY <1>1, <1>2, Induct
<1>4. n \in set /\ ~(n > n)
    BY <1>3
<1> QED
    BY ONLY <1>4

\* The items of text behind the negotiations: no command is among their bytes,
\* the request for an echo stands, and the buffer is filled with them.
Texted(i, mid, packet, n, Z) ==
    /\ \A k \in (n + 1)..(Len(T!Stream[i]) - taken) : packet[k] # T!IAC
    /\ T!EchoAsked[i] = T!EchoAsked[mid]
    /\ T!Typed[i] = Z[(Len(T!Stream[i]) - taken) - n]

LEMMA TextedOn ==
    ASSUME items \in Seq(Items), NEW first, NEW last, NEW packet, NEW w, PacketHolds(first, last, packet, w),
           NEW mid \in Nat, NEW i \in (first + 1)..last, T!IsText(items[i]),
           NEW n \in Nat, n <= Len(T!Stream[i - 1]) - taken, NEW tail \in Seq(Int), NEW v \in Nat, n + v = w,
           Held(packet, n, tail, v),
           NEW Z, NEW b, BufferFilled(Z, b, tail, v), Texted(i - 1, mid, packet, n, Z)
    PROVE  Texted(i, mid, packet, n, Z)
<1>1. w \in Nat /\ i \in 1..Len(items) /\ i - 1 \in 0..Len(items)
    <2>1. PICK z \in Nat : z = Len(items) /\ first \in 0..z /\ last \in 0..z
        BY DEF PacketHolds
    <2>2. i \in 1..z /\ i - 1 \in 0..z
        BY ONLY <2>1, i \in (first + 1)..last
    <2>3. w \in Nat
        BY DEF PacketHolds
    <2> QED
        BY ONLY <2>1, <2>2, <2>3, Zenon
<1>2. PICK p \in Nat, q \in Nat, l \in Nat, it \in Seq(Int) : q <= w /\ ItemAt(i, packet, it, p, q, l)
    BY ONLY items \in Seq(Items), PacketHolds(first, last, packet, w), i \in (first + 1)..last, CutItem
<1>3. /\ it = items[i] /\ l = Len(it) /\ l > 0 /\ p = Len(T!Stream[i - 1]) - taken /\ q = Len(T!Stream[i]) - taken
      /\ q = p + l /\ Held(packet, p, it, l) /\ (\A j \in 1..l : it[j] # T!IAC)
    BY ONLY <1>2, T!IsText(items[i]) DEF ItemAt, Held
<1>4. /\ \A k \in (n + 1)..p : packet[k] # T!IAC
      /\ T!EchoAsked[i - 1] = T!EchoAsked[mid] /\ T!Typed[i - 1] = Z[p - n]
    BY ONLY <1>3, Texted(i - 1, mid, packet, n, Z) DEF Texted
<1>5. ASSUME NEW k \in (n + 1)..q PROVE packet[k] # T!IAC
    <2>1. CASE k <= p
        BY ONLY <1>4, <2>1, n \in Nat, p \in Nat, k \in (n + 1)..q, q \in Nat
    <2>2. CASE k > p
        <3>0. q = p + l
            BY <1>3
        <3>1. k - p \in 1..l /\ p + (k - p) = k
            BY ONLY <3>0, <2>2, n \in Nat, p \in Nat, k \in (n + 1)..q, q \in Nat, l \in Nat
        <3> QED
            <4>1. packet[p + (k - p)] = it[k - p] /\ it[k - p] # T!IAC
                BY ONLY <1>3, <3>1 DEF Held
            <4> QED
                BY ONLY <3>1, <4>1
    <2> QED
        BY ONLY <2>1, <2>2, k \in (n + 1)..q, p \in Nat, n \in Nat, q \in Nat
<1>6. T!EchoAsked[i] = T!EchoAsked[i - 1]
    <2>1. T!EchoAsked[i] = IF items[i] = <<T!IAC, T!DO, T!ECHO>> THEN TRUE
                         ELSE IF items[i] = <<T!IAC, T!DONT, T!ECHO>> THEN FALSE ELSE T!EchoAsked[i - 1]
        BY ONLY <1>1, items \in Seq(Items), EchoIs
    <2>2. items[i] # <<T!IAC, T!DO, T!ECHO>> /\ items[i] # <<T!IAC, T!DONT, T!ECHO>>
        BY ONLY T!IsText(items[i]) DEF T!IsText
    <2> QED
        BY ONLY <2>1, <2>2
<1>7. T!Typed[i] = Z[q - n]
    <2>1. PICK m \in Nat : m = p - n /\ m + l <= v /\ m + l = q - n /\ n + m = p
        <3>0. w \in Nat /\ q <= w /\ q = p + l
            BY <1>1, <1>2, <1>3
        <3>1. n <= p
            BY ONLY <1>3, n <= Len(T!Stream[i - 1]) - taken
        <3>2. p - n \in Nat /\ (p - n) + l <= v /\ (p - n) + l = q - n /\ n + (p - n) = p
            BY ONLY <3>0, <3>1, n \in Nat, p \in Nat, q \in Nat, l \in Nat, v \in Nat, n + v = w
        <3> QED
            BY ONLY <3>2, Zenon
    <2>2. PICK a \in Seq(Int) : a = T!Typed[i - 1]
        BY ONLY <1>1, items \in Seq(Items), TypedIs
    <2>3. T!Typed[i] = T!parse_telnet_payload(a, it)
        <3>1. T!Typed[i] = IF T!IsText(items[i]) THEN T!parse_telnet_payload(T!Typed[i - 1], items[i])
              ELSE T!Typed[i - 1]
            BY ONLY <1>1, items \in Seq(Items), TypedIs
        <3> QED
            BY ONLY <1>3, <2>2, <3>1, T!IsText(items[i])
    <2>4. PICK Y : BufferFilled(Y, a, it, l) /\ T!Typed[i] = Y[l]
        <3>1. l = Len(it)
            BY <1>3
        <3>2. BufferFilled(T!Added(a, it), a, it, l) /\ T!parse_telnet_payload(a, it) = T!Added(a, it)[l]
            BY ONLY <3>1, a \in Seq(Int), it \in Seq(Int), l \in Nat, Fills, Zenon
        <3> QED
            BY ONLY <2>3, <3>2, Zenon
    <2>5. Y[0] = Z[m]
        BY ONLY <1>4, <2>1, <2>2, <2>4 DEF BufferFilled
    <2>6. Agree(it, 0, tail, m, l)
        <3> SUFFICES ASSUME NEW j \in 1..l PROVE it[0 + j] = tail[m + j]
            BY DEF Agree
        <3>1. 0 + j = j /\ m + j \in 1..v /\ n + (m + j) = p + j
            BY ONLY <2>1, n \in Nat, m \in Nat, l \in Nat, v \in Nat, p \in Nat, j \in 1..l
        <3> QED
            BY ONLY <1>3, <3>1, j \in 1..l, Held(packet, n, tail, v) DEF Held
    <2>7. Y[0 + l] = Z[m + l]
        <3>1. 0 + l <= l /\ 0 \in Nat
            BY l \in Nat
        <3> QED
            BY ONLY <2>1, <2>4, <2>5, <2>6, <3>1, BufferFilled(Z, b, tail, v), l \in Nat, m \in Nat, v \in Nat, Concur
    <2>8. 0 + l = l
        BY l \in Nat
    <2> QED
        BY ONLY <2>1, <2>4, <2>7, <2>8
<1> QED
    BY ONLY <1>3, <1>4, <1>5, <1>6, <1>7 DEF Texted

LEMMA Tails ==
    ASSUME items \in Seq(Items), NEW first, NEW last, NEW packet, NEW w, PacketHolds(first, last, packet, w),
           NEW mid \in first..last, \A k \in (mid + 1)..last : T!IsText(items[k]),
           NEW n \in Nat, n = Len(T!Stream[mid]) - taken, NEW tail \in Seq(Int), NEW v \in Nat, n + v = w,
           Held(packet, n, tail, v),
           NEW Z, BufferFilled(Z, T!Typed[mid], tail, v)
    PROVE  Texted(last, mid, packet, n, Z)
<1>1. first \in Nat /\ last \in Nat /\ first <= last /\ last <= Len(items) /\ mid \in Nat /\ mid \in 0..Len(items)
    BY DEF PacketHolds
<1> DEFINE set == {d \in Nat : mid + d > last \/ Texted(mid + d, mid, packet, n, Z)}
<1>2. 0 \in set
    <2>1. \A k \in (n + 1)..n : packet[k] # T!IAC
        BY n \in Nat
    <2>2. n - n = 0 /\ mid + 0 = mid
        BY <1>1
    <2>3. Z[0] = T!Typed[mid]
        BY ONLY BufferFilled(Z, T!Typed[mid], tail, v) DEF BufferFilled
    <2>4. Texted(mid, mid, packet, n, Z)
        BY ONLY <2>1, <2>2, <2>3, n = Len(T!Stream[mid]) - taken DEF Texted
    <2> QED
        BY ONLY <2>2, <2>4
<1>3. ASSUME NEW d \in Nat, d \in set PROVE d + 1 \in set
    <2>1. CASE mid + (d + 1) > last
        BY <2>1
    <2>2. CASE mid + (d + 1) <= last
        <3>1. PICK i \in (first + 1)..last :
                 /\ i = mid + (d + 1) /\ i - 1 = mid + d /\ ~(mid + d > last) /\ i \in (mid + 1)..last
                 /\ i - 1 \in 0..Len(items) /\ mid <= i - 1
            <4>1. PICK z \in Nat : z = Len(items) /\ last <= z
                BY <1>1
            <4>2. /\ mid + (d + 1) \in (first + 1)..last /\ (mid + (d + 1)) - 1 = mid + d /\ ~(mid + d > last)
                  /\ mid + (d + 1) \in (mid + 1)..last
                  /\ (mid + (d + 1)) - 1 \in 0..z /\ mid <= (mid + (d + 1)) - 1
                BY ONLY <1>1, <2>2, <4>1, d \in Nat, mid \in first..last
            <4> QED
                BY ONLY <4>1, <4>2, Zenon
        <3>2. Texted(i - 1, mid, packet, n, Z)
            BY ONLY <1>3, <3>1
        <3>3. n <= Len(T!Stream[i - 1]) - taken
            <4>1. Len(T!Stream[mid]) <= Len(T!Stream[i - 1]) /\ T!Stream[i - 1] \in Seq(Int)
                  /\ T!Stream[mid] \in Seq(Int)
                BY ONLY <1>1, <3>1, items \in Seq(Items), Grows
            <4>2. taken \in Nat
                <5>1. taken = Len(T!Stream[first]) /\ first \in 0..Len(items)
                    BY DEF PacketHolds
                <5>2. T!Stream[first] \in Seq(Int)
                    BY ONLY <5>1, items \in Seq(Items), StreamIs
                <5> QED
                    BY ONLY <5>1, <5>2
            <4> QED
                BY ONLY <4>1, <4>2, n = Len(T!Stream[mid]) - taken
        <3>4. T!IsText(items[i])
            BY <3>1
        <3>5. Texted(i, mid, packet, n, Z)
            BY ONLY <1>1, <3>2, <3>3, <3>4, items \in Seq(Items), PacketHolds(first, last, packet, w),
                i \in (first + 1)..last,
                    n \in Nat, tail \in Seq(Int), v \in Nat, n + v = w, Held(packet, n, tail, v),
                    BufferFilled(Z, T!Typed[mid], tail, v), TextedOn
        <3> QED
            BY ONLY <3>1, <3>5, d \in Nat
    <2> QED
        BY <1>1, <2>1, <2>2
<1>4. \A d \in Nat : d \in set
    <2> HIDE DEF set
    <2> QED
        BY ONLY <1>2, <1>3, Induct
<1>5. last - mid \in Nat /\ mid + (last - mid) = last /\ ~(last > last)
    BY <1>1
<1>6. last - mid \in set
    BY <1>4, <1>5
<1> QED
    BY ONLY <1>5, <1>6

-----------------------------------------------------------------------------
(* A packet.                                                               *)

LEMMA Slice ==
    ASSUME NEW s \in Seq(Int), NEW a \in Nat, NEW l \in Nat, NEW b, b = a + l, b <= Len(s),
           NEW h, h = SubSeq(s, a + 1, b)
    PROVE  h \in Seq(Int) /\ Held(s, a, h, l)
<1>1. b \in Nat /\ a + 1 \in Nat /\ a + 1 >= 1
    OBVIOUS
<1>2. h \in Seq(Int)
    BY <1>1
<1>3. Len(h) = l
    BY <1>1
<1>4. \A j \in 1..l : s[a + j] = h[j]
    BY <1>1
<1> QED
    BY <1>2, <1>3, <1>4 DEF Held

\* The buffer and the echo are those that the first m items call for.
Right(m, buffer, echo) == buffer = T!Typed[m] /\ echo = T!EchoAsked[m]

\* The payload of a packet is its text: what the parser skipped is no letter.
LEMMA Payload ==
    ASSUME NEW packet \in Seq(Int), NEW w \in Nat, w = Len(packet), NEW n \in Nat, n <= w,
           NEW tail \in Seq(Int), NEW v \in Nat, n + v = w, Held(packet, n, tail, v),
           NEW buffer \in Seq(Int), NEW Z, BufferFilled(Z, buffer, tail, v), NEW start, Found(packet, start, n, w)
    PROVE  (IF start = 0 THEN buffer ELSE T!parse_telnet_payload(buffer, SubSeq(packet, start, w))) = Z[v]
<1>1. CASE start = 0
    <2>1. \A k \in (n + 1)..w : ~(packet[k] < 128)
        BY ONLY <1>1, Found(packet, start, n, w), n \in Nat DEF Found
    <2>2. \A j \in 1..v : ~(tail[j] < 128)
        <3> SUFFICES ASSUME NEW j \in 1..v PROVE ~(tail[j] < 128)
            OBVIOUS
        <3>1. n + j \in (n + 1)..w
            BY ONLY n \in Nat, v \in Nat, w \in Nat, n + v = w, j \in 1..v
        <3> QED
            BY <2>1, <3>1 DEF Held
    <2>3. Z[v] = buffer
        BY ONLY <2>2, BufferFilled(Z, buffer, tail, v), v \in Nat, Unchanged
    <2> QED
        BY ONLY <1>1, <2>3
<1>2. CASE start # 0
    <2>1. start \in (n + 1)..w /\ \A k \in (n + 1)..(start - 1) : ~(packet[k] < 128)
        BY ONLY <1>2, Found(packet, start, n, w) DEF Found
    <2>2. PICK t \in Nat, l \in Nat : t = (start - 1) - n /\ t + l = v /\ n + t = start - 1 /\ l = w - (start - 1)
        <3>1. /\ (start - 1) - n \in Nat /\ w - (start - 1) \in Nat
              /\ ((start - 1) - n) + (w - (start - 1)) = v /\ n + ((start - 1) - n) = start - 1
            BY ONLY <2>1, n \in Nat, v \in Nat, w \in Nat, n + v = w
        <3> QED
            BY ONLY <3>1, Zenon
    <2>3. \A j \in 1..t : ~(tail[j] < 128)
        <3> SUFFICES ASSUME NEW j \in 1..t PROVE ~(tail[j] < 128)
            OBVIOUS
        <3>1. n + j \in (n + 1)..(start - 1) /\ j \in 1..v
            BY ONLY <2>1, <2>2, n \in Nat, v \in Nat, w \in Nat, t \in Nat, l \in Nat, j \in 1..t
        <3> QED
            BY <2>1, <3>1 DEF Held
    <2>4. Z[t] = buffer
        <3>1. t <= v
            BY ONLY <2>2, t \in Nat, l \in Nat, v \in Nat
        <3> QED
            BY ONLY <2>3, <3>1, BufferFilled(Z, buffer, tail, v), v \in Nat, t \in Nat, Unchanged
    <2>5. PICK rest \in Seq(Int) : /\ rest = SubSeq(packet, start, w) /\ Held(packet, start - 1, rest, l)
        <3>1. PICK a \in Nat : a = start - 1 /\ a + 1 = start /\ w = a + l
            BY ONLY <2>1, <2>2, n \in Nat, w \in Nat, l \in Nat
        <3>2. PICK h : h = SubSeq(packet, a + 1, w)
            OBVIOUS
        <3>3. h \in Seq(Int) /\ Held(packet, a, h, l)
            <4>1. w <= Len(packet)
                OBVIOUS
            <4> QED
                BY ONLY <3>1, <3>2, <4>1, packet \in Seq(Int), a \in Nat, l \in Nat, Slice
        <3> QED
            BY ONLY <3>1, <3>2, <3>3
    <2>6. PICK Y : BufferFilled(Y, buffer, rest, l) /\ T!parse_telnet_payload(buffer, rest) = Y[l]
        <3>1. BufferFilled(T!Added(buffer, rest), buffer, rest, l)
              /\ T!parse_telnet_payload(buffer, rest) = T!Added(buffer, rest)[l]
            <4>1. l = Len(rest)
                BY <2>5 DEF Held
            <4> QED
                BY ONLY <4>1, buffer \in Seq(Int), rest \in Seq(Int), l \in Nat, Fills, Zenon
        <3> QED
            BY ONLY <3>1, Zenon
    <2>7. Y[0] = Z[t]
        BY ONLY <2>4, <2>6 DEF BufferFilled
    <2>8. Agree(rest, 0, tail, t, l)
        <3> SUFFICES ASSUME NEW j \in 1..l PROVE rest[0 + j] = tail[t + j]
            BY DEF Agree
        <3>1. 0 + j = j /\ t + j \in 1..v /\ n + (t + j) = (start - 1) + j
            BY ONLY <2>1, <2>2, n \in Nat, v \in Nat, w \in Nat, t \in Nat, l \in Nat, j \in 1..l
        <3> QED
            BY ONLY <2>5, <3>1, j \in 1..l, Held(packet, n, tail, v) DEF Held
    <2>9. Y[0 + l] = Z[t + l]
        <3>1. t + l = v
            BY ONLY <2>2
        <3>2. 0 + l <= l /\ t + l <= v /\ 0 \in Nat
            BY ONLY <3>1, l \in Nat, v \in Nat
        <3> QED
            BY ONLY <2>6, <2>7, <2>8, <3>2, BufferFilled(Z, buffer, tail, v), l \in Nat, t \in Nat, v \in Nat, Concur
    <2>10. 0 + l = l
        OBVIOUS
    <2> QED
        BY ONLY <1>2, <2>2, <2>5, <2>6, <2>9, <2>10
<1> QED
    BY <1>1, <1>2

\* The lengths tell the items apart.
LEMMA SameItem ==
    ASSUME items \in Seq(Items), NEW n \in 0..Len(items), NEW m \in 0..Len(items), Len(T!Stream[n]) = Len(T!Stream[m])
    PROVE  n = m
<1>1. \A k \in 0..Len(items) : T!Stream[k] \in Seq(Int)
    BY StreamIs
<1>2. Len(T!Stream[n]) \in Nat /\ Len(T!Stream[m]) \in Nat
    BY <1>1
<1>3. n < m => Len(T!Stream[n]) < Len(T!Stream[m])
    BY Grows
<1>4. m < n => Len(T!Stream[m]) < Len(T!Stream[n])
    BY Grows
<1> QED
    BY <1>2, <1>3, <1>4

\* A packet of negotiations and text leaves the buffer and the echo right.
LEMMA Receives ==
    ASSUME items \in Seq(Items), open \in BOOLEAN, NEW m \in 0..Len(items), taken = Len(T!Stream[m]),
           Right(m, rxbuf, echo_mode), NEW w \in Nat, w <= Len(T!Bytes) - taken, T!Plain(w),
           NEW packet, packet = SubSeq(T!Bytes, taken + 1, taken + w), NEW st, st = T!parse_telnet_options(packet)
    PROVE  /\ st.open \in BOOLEAN
           /\ \E last \in 0..Len(items) :
                 /\ taken + w = Len(T!Stream[last])
                 /\ Right(last, IF st.text = 0 THEN rxbuf
                     ELSE T!parse_telnet_payload(rxbuf, SubSeq(packet, st.text, w)),
                          st.echo)
<1>1. PICK first \in 0..Len(items), mid \in 0..Len(items), last \in 0..Len(items) :
         /\ taken = Len(T!Stream[first]) /\ taken + w = Len(T!Stream[last]) /\ first <= mid /\ mid <= last
         /\ \A k \in (first + 1)..mid : T!Negotiation(items[k])
         /\ \A k \in (mid + 1)..last : T!IsText(items[k])
    BY DEF T!Plain
<1>2. PICK b \in Seq(Int) : b = T!Bytes
    <2>1. Len(items) \in 0..Len(items)
        OBVIOUS
    <2> QED
        BY <2>1, StreamIs DEF T!Bytes
<1>3. PICK t \in Nat : t = taken
    <2>1. T!Stream[m] \in Seq(Int)
        BY StreamIs
    <2> QED
        BY <2>1
<1>4. packet \in Seq(Int) /\ w = Len(packet) /\ \A k \in 1..w : packet[k] = T!Bytes[taken + k]
    <2>1. PICK z \in Nat : z = t + w
        OBVIOUS
    <2>2. z = t + w /\ z <= Len(b)
        BY ONLY <1>2, <1>3, <2>1, w \in Nat, t \in Nat, w <= Len(T!Bytes) - taken, b \in Seq(Int)
    <2>3. packet = SubSeq(b, t + 1, z)
        BY ONLY <1>2, <1>3, <2>1, packet = SubSeq(T!Bytes, taken + 1, taken + w)
    <2>4. packet \in Seq(Int) /\ Held(b, t, packet, w)
        BY ONLY <2>2, <2>3, b \in Seq(Int), t \in Nat, w \in Nat, Slice
    <2> QED
        BY ONLY <1>2, <1>3, <2>4 DEF Held
<1>5. first = m
    BY ONLY <1>1, items \in Seq(Items), m \in 0..Len(items), taken = Len(T!Stream[m]), SameItem
<1>6. PacketHolds(first, last, packet, w)
    <2>1. first <= last
        BY <1>1
    <2> QED
        BY ONLY <1>1, <1>4, <2>1, w \in Nat DEF PacketHolds
<1>7. mid \in first..last
    BY <1>1
<1>8. PICK n \in Nat, v \in Nat : n = Len(T!Stream[mid]) - taken /\ n <= w /\ n + v = w
    <2>1. \A k \in 0..Len(items) : T!Stream[k] \in Seq(Int)
        BY ONLY items \in Seq(Items), StreamIs
    <2>2. PICK x \in Nat, y \in Nat, z \in Nat : x = Len(T!Stream[first]) /\ y = Len(T!Stream[mid])
          /\ z = Len(T!Stream[last])
        <3>1. Len(T!Stream[first]) \in Nat /\ Len(T!Stream[mid]) \in Nat /\ Len(T!Stream[last]) \in Nat
            BY ONLY <2>1, LenNat, Zenon
        <3> QED
            BY ONLY <3>1, Zenon
    <2>3. x <= y
        BY ONLY <1>1, <2>2, items \in Seq(Items), Grows
    <2>4. y <= z
        BY ONLY <1>1, <2>2, items \in Seq(Items), Grows
    <2>0. x = taken /\ x + w = z
        BY ONLY <1>1, <2>2
    <2>5. y - x \in Nat /\ z - y \in Nat /\ y - x <= w /\ (y - x) + (z - y) = w /\ x = taken
        BY ONLY <2>0, <2>3, <2>4, x \in Nat, y \in Nat, z \in Nat, w \in Nat
    <2> QED
        BY ONLY <2>2, <2>5, Zenon
<1>9. PICK tail \in Seq(Int) : Held(packet, n, tail, v)
    <2>1. PICK h : h = SubSeq(packet, n + 1, w)
        OBVIOUS
    <2>2. h \in Seq(Int) /\ Held(packet, n, h, v)
        <3>1. w = n + v /\ w <= Len(packet) /\ packet \in Seq(Int)
            BY ONLY <1>4, <1>8, w \in Nat
        <3> QED
            BY ONLY <2>1, <3>1, n \in Nat, v \in Nat, Slice
    <2> QED
        BY ONLY <2>2
<1>10. echo_mode = T!EchoAsked[first] /\ rxbuf = T!Typed[first]
    BY ONLY <1>5, Right(m, rxbuf, echo_mode) DEF Right
<1>11. T!EchoAsked[first] \in BOOLEAN /\ rxbuf \in Seq(Int)
    BY ONLY <1>1, <1>10, items \in Seq(Items), EchoIs, TypedIs
<1>12. PICK A : Run(A, packet, w) /\ A = T!Parsed(packet)
    BY ONLY <1>4, <1>10, <1>11, w \in Nat, open \in BOOLEAN, Runs
<1>13. Between(A[n], T!EchoAsked[mid]) /\ T!Typed[mid] = T!Typed[first]
    <2>1. Fresh.echo = T!EchoAsked[first]
        BY ONLY <1>10 DEF Fresh
    <2> QED
        BY ONLY <1>1, <1>6, <1>7, <1>8, <1>12, <2>1, items \in Seq(Items), Heads
<1>14. PICK Z : BufferFilled(Z, rxbuf, tail, v)
    BY ONLY <1>9, <1>11, v \in Nat, tail \in Seq(Int), Fills DEF Held
<1>15. Texted(last, mid, packet, n, Z)
    <2>1. BufferFilled(Z, T!Typed[mid], tail, v)
        BY ONLY <1>10, <1>13, <1>14
    <2> QED
        BY ONLY <1>1, <1>6, <1>7, <1>8, <1>9, <2>1, items \in Seq(Items), n \in Nat, v \in Nat, tail \in Seq(Int),
            Tails
<1>16. T!Typed[last] = Z[v] /\ T!EchoAsked[last] = T!EchoAsked[mid] /\ \A k \in (n + 1)..w : packet[k] # T!IAC
    <2>1. Len(T!Stream[last]) - taken = w /\ w - n = v
        BY ONLY <1>1, <1>3, <1>8, n \in Nat, v \in Nat, w \in Nat, t \in Nat
    <2> QED
        BY ONLY <1>15, <2>1 DEF Texted
<1>17. Seeks(A[w], T!EchoAsked[mid], packet, n, w)
    BY ONLY <1>4, <1>8, <1>12, <1>13, <1>16, n \in Nat, w \in Nat, Finds
<1>18. st = A[w]
    BY ONLY <1>4, <1>12, st = T!parse_telnet_options(packet) DEF T!parse_telnet_options
<1>19. st \in ParserStates /\ st.echo = T!EchoAsked[mid] /\ Found(packet, st.text, n, w)
    BY ONLY <1>17, <1>18 DEF Seeks
<1>20. st.open \in BOOLEAN
    BY ONLY <1>19 DEF ParserStates
<1>21. (IF st.text = 0 THEN rxbuf ELSE T!parse_telnet_payload(rxbuf, SubSeq(packet, st.text, w))) = Z[v]
    BY ONLY <1>4, <1>8, <1>9, <1>11, <1>14, <1>19, n \in Nat, v \in Nat, w \in Nat, tail \in Seq(Int), Payload
<1>22. Right(last, IF st.text = 0 THEN rxbuf ELSE T!parse_telnet_payload(rxbuf, SubSeq(packet, st.text, w)), st.echo)
    BY ONLY <1>16, <1>19, <1>21 DEF Right
<1> QED
    BY ONLY <1>1, <1>20, <1>22, Zenon
-----------------------------------------------------------------------------
(* The invariant: until something strange comes, the packets were cut      *)
(* where an item ends, and all of the items that came have been followed.  *)
OptionsInv ==
    /\ items \in Seq(Items) /\ strange \in BOOLEAN
    /\ ~strange => /\ open \in BOOLEAN
                   /\ \E m \in 0..Len(items) : taken = Len(T!Stream[m]) /\ Right(m, rxbuf, echo_mode)

\* Before the first item.
Nothing == Len(T!Stream[0]) = 0 /\ Right(0, <<>>, FALSE)

LEMMA NothingYet ==
    ASSUME items \in Seq(Items)
    PROVE  Nothing
<1>1. T!Stream[0] = <<>>
    BY StreamIs
<1>2. T!Typed[0] = <<>>
    BY TypedIs
<1>3. T!EchoAsked[0] = FALSE
    BY EchoIs
<1> QED
    BY <1>1, <1>2, <1>3 DEF Nothing, Right

LEMMA OptionsTyped ==
    ASSUME items \in Seq(Items), [T!TelnetNext]_T!telnetVars
    PROVE  items' \in Seq(Items)
<1>1. CASE T!Client
    <2>1. PICK n \in 1..MaxItems : items' \in [1..n -> Items]
        BY <1>1 DEF T!Client
    <2>2. n \in Nat
        BY ItemsAssumption
    <2> QED
        BY ONLY <2>1, <2>2
<1>2. CASE T!Receive
    BY <1>2 DEF T!Receive
<1>3. CASE T!telnet_disconnect
    BY <1>3 DEF T!telnet_disconnect
<1>4. CASE UNCHANGED T!telnetVars
    BY <1>4 DEF T!telnetVars
<1> QED
    BY <1>1, <1>2, <1>3, <1>4 DEF T!TelnetNext

LEMMA OptionsStep ==
    ASSUME OptionsInv, [T!TelnetNext]_T!telnetVars, items' \in Seq(Items), Nothing, Nothing'
    PROVE  OptionsInv'
<1>1. items \in Seq(Items) /\ strange \in BOOLEAN /\ 0 \in 0..Len(items) /\ 0 \in 0..Len(items')
    BY DEF OptionsInv
<1>2. ASSUME taken' = 0, rxbuf' = <<>>, echo_mode' = FALSE, strange' \in BOOLEAN, ~strange' => open' \in BOOLEAN
      PROVE  OptionsInv'
    <2>1. taken' = Len(T!Stream'[0]) /\ Right(0, rxbuf, echo_mode)'
        BY <1>2 DEF Nothing, Right
    <2>2. \E m \in 0..Len(items') : taken' = Len(T!Stream'[m]) /\ Right(m, rxbuf, echo_mode)'
        BY ONLY <1>1, <2>1
    <2> QED
        BY ONLY <1>2, <2>2, items' \in Seq(Items) DEF OptionsInv
<1>3. CASE T!Client
    <2>1. UNCHANGED <<taken, open, echo_mode, rxbuf, strange>> /\ items = <<>>
        BY <1>3 DEF T!Client
    <2>2. CASE strange
        BY <1>1, <2>1, <2>2 DEF OptionsInv
    <2>3. CASE ~strange
        <3>1. PICK m \in 0..Len(items) : taken = Len(T!Stream[m]) /\ Right(m, rxbuf, echo_mode)
            BY <2>3 DEF OptionsInv
        <3>2. m = 0
            BY ONLY <2>1, m \in 0..Len(items)
        <3>3. taken = 0 /\ rxbuf = <<>> /\ echo_mode = FALSE
            BY ONLY <3>1, <3>2, Nothing DEF Nothing, Right
        <3>4. open \in BOOLEAN
            BY <2>3 DEF OptionsInv
        <3> QED
            BY ONLY <1>1, <1>2, <2>1, <2>3, <3>3, <3>4
    <2> QED
        BY <2>2, <2>3
<1>4. CASE T!telnet_disconnect
    BY ONLY <1>2, <1>4 DEF T!telnet_disconnect
<1>6. ASSUME items' = items PROVE T!Stream' = T!Stream /\ T!Typed' = T!Typed /\ T!EchoAsked' = T!EchoAsked
    BY <1>6 DEF T!Stream, T!Typed, T!EchoAsked
<1>7. CASE UNCHANGED T!telnetVars
    <2>1. /\ items' = items /\ taken' = taken /\ open' = open /\ echo_mode' = echo_mode /\ rxbuf' = rxbuf
          /\ strange' = strange
        BY <1>7 DEF T!telnetVars
    <2>2. T!Stream' = T!Stream /\ T!Typed' = T!Typed /\ T!EchoAsked' = T!EchoAsked
        BY <1>6, <2>1
    <2> QED
        BY ONLY <2>1, <2>2, OptionsInv DEF OptionsInv, Right
<1>8. CASE T!Receive
    <2>1. PICK w \in 1..(Len(T!Bytes) - taken) :
             LET packet == SubSeq(T!Bytes, taken + 1, taken + w)
                 st     == T!parse_telnet_options(packet)
             IN  /\ taken' = taken + w /\ open' = st.open /\ echo_mode' = st.echo
                 /\ rxbuf' = IF st.text = 0 THEN rxbuf
                             ELSE T!parse_telnet_payload(rxbuf, SubSeq(packet, st.text, w))
                 /\ strange' = (strange \/ ~T!Plain(w))
        BY <1>8 DEF T!Receive
    <2>2. PICK packet, st : packet = SubSeq(T!Bytes, taken + 1, taken + w) /\ st = T!parse_telnet_options(packet)
        OBVIOUS
    <2>3. /\ taken' = taken + w /\ open' = st.open /\ echo_mode' = st.echo
          /\ rxbuf' = IF st.text = 0 THEN rxbuf ELSE T!parse_telnet_payload(rxbuf, SubSeq(packet, st.text, w))
          /\ strange' = (strange \/ ~T!Plain(w))
        BY ONLY <2>1, <2>2
    <2>4. items' = items
        BY <1>8 DEF T!Receive
    <2>5. CASE strange \/ ~T!Plain(w)
        <3>1. strange' = TRUE
            BY ONLY <2>3, <2>5
        <3> QED
            BY ONLY <2>4, <3>1, items' \in Seq(Items) DEF OptionsInv
    <2>6. CASE ~strange /\ T!Plain(w)
        <3>1. PICK m \in 0..Len(items) : taken = Len(T!Stream[m]) /\ Right(m, rxbuf, echo_mode)
            BY <2>6 DEF OptionsInv
        <3>2. open \in BOOLEAN
            BY <2>6 DEF OptionsInv
        <3>3. w \in Nat /\ w <= Len(T!Bytes) - taken
            <4>1. T!Stream[m] \in Seq(Int) /\ T!Bytes \in Seq(Int)
                <5>1. Len(items) \in 0..Len(items)
                    BY <1>1
                <5> QED
                    BY ONLY <1>1, <5>1, m \in 0..Len(items), StreamIs DEF T!Bytes
            <4>2. Len(T!Bytes) - taken \in Int
                BY ONLY <3>1, <4>1
            <4> QED
                BY ONLY <4>2, w \in 1..(Len(T!Bytes) - taken)
        <3>4. /\ st.open \in BOOLEAN
              /\ \E last \in 0..Len(items) :
                    /\ taken + w = Len(T!Stream[last])
                    /\ Right(last,
                             IF st.text = 0 THEN rxbuf ELSE T!parse_telnet_payload(rxbuf, SubSeq(packet, st.text, w)),
                             st.echo)
            BY ONLY <1>1, <2>2, <2>6, <3>1, <3>2, <3>3, Receives
        <3>5. PICK last \in 0..Len(items) : taken' = Len(T!Stream[last]) /\ Right(last, rxbuf', echo_mode')
            BY ONLY <2>3, <3>4, Zenon
        <3>6. T!Stream' = T!Stream /\ T!Typed' = T!Typed /\ T!EchoAsked' = T!EchoAsked
            BY ONLY <1>6, <2>4
        <3>7. taken' = Len(T!Stream'[last]) /\ Right(last, rxbuf, echo_mode)'
            BY ONLY <3>5, <3>6 DEF Right
        <3>8. open' \in BOOLEAN /\ strange' = FALSE
            BY ONLY <2>3, <2>6, <3>4
        <3> QED
            BY ONLY <2>4, <3>7, <3>8, items' \in Seq(Items), last \in 0..Len(items) DEF OptionsInv
    <2> QED
        BY <2>5, <2>6
<1> QED
    BY <1>3, <1>4, <1>7, <1>8 DEF T!TelnetNext

LEMMA OptionsFollowed ==
    ASSUME OptionsInv
    PROVE  T!OptionsKeptOut
<1> SUFFICES ASSUME items # <<>>, taken = Len(T!Bytes), ~strange
             PROVE  rxbuf = T!Typed[Len(items)] /\ echo_mode = T!EchoAsked[Len(items)]
    BY DEF T!OptionsKeptOut
<1>1. items \in Seq(Items)
    BY DEF OptionsInv
<1>2. PICK m \in 0..Len(items) : taken = Len(T!Stream[m]) /\ Right(m, rxbuf, echo_mode)
    BY DEF OptionsInv
<1>3. Len(items) \in 0..Len(items)
    BY <1>1
<1>4. m = Len(items)
    BY ONLY <1>1, <1>2, <1>3, taken = Len(T!Bytes), SameItem DEF T!Bytes
<1> QED
    BY <1>2, <1>4 DEF Right

\* Options never become text nor text options, and the echo is as the client
\* asked last, however many packets its items come in.
THEOREM OptionsStayOut == UnitsSpec => []OptionsKeptOut
<1>1. UnitsInit => items \in Seq(Items)
    BY DEF UnitsInit, T!Idle
<1>2. UnitsInit /\ Nothing => OptionsInv
    <2> SUFFICES ASSUME UnitsInit, Nothing PROVE OptionsInv
        OBVIOUS
    <2>1. items = <<>> /\ taken = 0 /\ open = FALSE /\ echo_mode = FALSE /\ rxbuf = <<>> /\ strange = FALSE
        BY DEF UnitsInit, T!Idle
    <2>2. 0 \in 0..Len(items) /\ items \in Seq(Items)
        BY <2>1
    <2>3. taken = Len(T!Stream[0]) /\ Right(0, rxbuf, echo_mode)
        BY ONLY <2>1, Nothing DEF Nothing, Right
    <2> QED
        BY ONLY <2>1, <2>2, <2>3 DEF OptionsInv
<1>3. [UnitsNext]_all => [T!TelnetNext]_T!telnetVars
    BY DEF UnitsNext, all, options, T!telnetVars
<1>4. items \in Seq(Items) /\ [T!TelnetNext]_T!telnetVars => (items \in Seq(Items))'
    BY OptionsTyped
<1>5. items \in Seq(Items) => Nothing
    BY NothingYet
<1>6. OptionsInv /\ [T!TelnetNext]_T!telnetVars /\ (items \in Seq(Items))' /\ Nothing /\ Nothing' => OptionsInv'
    BY OptionsStep
<1>7. OptionsInv => OptionsKeptOut
    BY OptionsFollowed DEF OptionsKeptOut
<1> QED
    BY <1>1, <1>2, <1>3, <1>4, <1>5, <1>6, <1>7, PTL DEF UnitsSpec
=============================================================================
