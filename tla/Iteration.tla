----------------------------- MODULE Iteration ------------------------------
(***************************************************************************)
(* Induction over the folds and the recursive functions of the models. The *)
(* operator that is folded, Op, and what is shown of it, P, are constants  *)
(* of the module: a proof takes it with an INSTANCE for each fold. c, d    *)
(* and x are parameters that Op and P need.                                *)
(***************************************************************************)
EXTENDS Integers, WellFoundedInduction, TLAPS

CONSTANTS Op(_, _, _, _), P(_, _, _)

\* Every non-empty set of numbers has a least one.
LEMMA Least ==
  ASSUME NEW S \in SUBSET Nat, S # {}
  PROVE  \E n \in S : \A m \in S : n <= m
<1> DEFINE R == OpToRel(<, Nat)
<1>1. \A n, m \in Nat : n < m => <<n, m>> \in R BY DEF OpToRel
<1>2. IsWellFoundedOn(R, Nat) BY NatLessThanWellFounded
<1> HIDE DEF R
<1>3. PICK n \in S : \A m \in S : ~ (<<m, n>> \in R) BY <1>2, WFMin
<1>4. \A m \in S : ~ (m < n) BY <1>1, <1>3, Zenon
<1> QED BY <1>4

\* A set that holds 0 and the successor of each number it holds, up to n, holds
\* the numbers up to n.
LEMMA UpTo ==
  ASSUME NEW n \in Nat, NEW S, 0 \in S, \A k \in 0 .. n - 1 : k \in S => k + 1 \in S
  PROVE  0 .. n \subseteq S
<1> SUFFICES ASSUME (0 .. n) \ S # {} PROVE FALSE OBVIOUS
<1>0. (0 .. n) \ S \in SUBSET Nat OBVIOUS
<1>1. PICK k \in (0 .. n) \ S : \A m \in (0 .. n) \ S : k <= m BY <1>0, Least
<1>2. k - 1 \in 0 .. n - 1 BY <1>1
<1>3. k - 1 \in S BY <1>1, <1>2
<1> QED BY <1>1, <1>2, <1>3

-----------------------------------------------------------------------------
(* A function of 0 .. n defined from its previous value. *)

IsRecursion(c, d, base, n, g) == g = [k \in 0 .. n |-> IF k = 0 THEN base ELSE Op(c, d, g[k - 1], k)]

\* Every recursive definition over 0 .. n has a function that satisfies it.
THEOREM RecursionExists ==
  ASSUME NEW c, NEW d, NEW base, NEW n \in Nat
  PROVE  \E g : IsRecursion(c, d, base, n, g)
<1> DEFINE Q == {m \in 0 .. n : \E g : g = [k \in 0 .. m |-> IF k = 0 THEN base ELSE Op(c, d, g[k - 1], k)]}
<1>1. 0 \in Q
  <2> DEFINE g == [k \in 0 .. 0 |-> base]
  <2>1. g = [k \in 0 .. 0 |-> IF k = 0 THEN base ELSE Op(c, d, g[k - 1], k)] OBVIOUS
  <2> HIDE DEF g
  <2> QED BY <2>1
<1>2. ASSUME NEW m \in 0 .. n - 1, m \in Q PROVE m + 1 \in Q
  <2>1. PICK g : g = [k \in 0 .. m |-> IF k = 0 THEN base ELSE Op(c, d, g[k - 1], k)] BY <1>2
  <2> DEFINE h == [k \in 0 .. m + 1 |-> IF k = m + 1 THEN Op(c, d, g[m], m + 1) ELSE g[k]]
  <2>2. ASSUME NEW k \in 0 .. m + 1 PROVE h[k] = IF k = 0 THEN base ELSE Op(c, d, h[k - 1], k)
    <3>1. CASE k = m + 1
      <4>1. h[k] = Op(c, d, g[m], k) /\ k # 0 /\ k - 1 = m /\ h[m] = g[m] BY <3>1
      <4> HIDE DEF h
      <4> QED BY <4>1
    <3>2. CASE k # m + 1
      <4>1. k \in 0 .. m BY <3>2
      <4>2. h[k] = g[k] /\ (k # 0 => h[k - 1] = g[k - 1]) BY <4>1
      <4>3. g[k] = IF k = 0 THEN base ELSE Op(c, d, g[k - 1], k) BY <2>1, <4>1
      <4> HIDE DEF h
      <4> QED BY <4>2, <4>3
    <3> QED BY <3>1, <3>2
  <2>3. h = [k \in 0 .. m + 1 |-> h[k]] OBVIOUS
  <2> HIDE DEF h
  <2>4. h = [k \in 0 .. m + 1 |-> IF k = 0 THEN base ELSE Op(c, d, h[k - 1], k)] BY <2>2, <2>3
  <2>5. m + 1 \in 0 .. n OBVIOUS
  <2> QED BY <2>4, <2>5
<1> HIDE DEF Q
<1>3. 0 .. n \subseteq Q BY <1>1, <1>2, UpTo
<1>4. n \in Q BY <1>3
<1> QED BY <1>4 DEF Q, IsRecursion

\* What holds of the base and is kept by each step holds of every value.
THEOREM RecursionInduction ==
  ASSUME NEW c, NEW d, NEW base, NEW n \in Nat, NEW g, NEW x,
         IsRecursion(c, d, base, n, g),
         P(x, 0, base),
         \A k \in 1 .. n : \A v : P(x, k - 1, v) => P(x, k, Op(c, d, v, k))
  PROVE  \A k \in 0 .. n : P(x, k, g[k])
<1> USE DEF IsRecursion
<1> DEFINE Q == {m \in 0 .. n : P(x, m, g[m])}
<1>1. 0 \in Q
  <2>1. g[0] = base OBVIOUS
  <2> QED BY <2>1
<1>2. ASSUME NEW m \in 0 .. n - 1, m \in Q PROVE m + 1 \in Q
  <2>1. m + 1 \in 1 .. n /\ m + 1 \in 0 .. n /\ m + 1 # 0 /\ (m + 1) - 1 = m OBVIOUS
  <2>2. g[m + 1] = Op(c, d, g[m], m + 1) BY <2>1
  <2>3. P(x, (m + 1) - 1, g[m]) BY <1>2, <2>1
  <2>4. P(x, m + 1, Op(c, d, g[m], m + 1)) BY <2>1, <2>3
  <2> QED BY <2>1, <2>2, <2>4
<1> HIDE DEF Q
<1>3. 0 .. n \subseteq Q BY <1>1, <1>2, UpTo
<1> QED BY <1>3 DEF Q

-----------------------------------------------------------------------------
(* FoldLeft, which the community modules define by a function of the sets *)
(* of positions that removes their last one.                              *)

Last(s) == CHOOSE k \in s : \A m \in s : k >= m
Step(c, d, base, seq, g, s) == IF s = {} THEN base ELSE Op(c, d, g[s \ {Last(s)}], seq[Last(s)])
\* g is the function by which FoldLeft folds seq: the fold is g[DOMAIN seq].
IsFold(c, d, base, seq, g) == g = [s \in SUBSET DOMAIN seq |-> Step(c, d, base, seq, g, s)]

LEMMA LastUpTo ==
  /\ \A n \in Nat \ {0} : Last(1 .. n) = n
  /\ \A n \in Nat : \A s \in SUBSET (1 .. n + 1) : n + 1 \in s => Last(s) = n + 1
<1>1. ASSUME NEW n \in Nat, NEW s \in SUBSET (1 .. n + 1), n + 1 \in s PROVE Last(s) = n + 1
  <2>1. \A k \in s : k \in Int /\ k <= n + 1 OBVIOUS
  <2>2. Last(s) \in s /\ \A k \in s : Last(s) >= k BY <1>1, <2>1 DEF Last
  <2>3. Last(s) \in Int /\ Last(s) <= n + 1 BY <2>1, <2>2
  <2>4. Last(s) >= n + 1 BY <1>1, <2>2
  <2> QED BY <2>3, <2>4
<1>2. ASSUME NEW n \in Nat \ {0} PROVE Last(1 .. n) = n
  <2>1. n - 1 \in Nat /\ n = (n - 1) + 1 OBVIOUS
  <2> QED BY <1>1, <2>1
<1> QED BY <1>1, <1>2

\* There is one, so that the value of the fold is that of a function.
THEOREM FoldExists ==
  ASSUME NEW c, NEW d, NEW base, NEW seq, NEW n \in Nat, DOMAIN seq = 1 .. n
  PROVE  \E g : IsFold(c, d, base, seq, g)
<1> DEFINE Folds(m, g) == g = [s \in SUBSET (1 .. m) |-> Step(c, d, base, seq, g, s)]
           Q == {m \in 0 .. n : \E g : Folds(m, g)}
<1>1. 0 \in Q
  <2>1. Folds(0, [s \in SUBSET (1 .. 0) |-> base]) BY DEF Step
  <2> HIDE DEF Folds
  <2> QED BY <2>1
<1>2. ASSUME NEW m \in 0 .. n - 1, m \in Q PROVE m + 1 \in Q
  <2>1. PICK g : Folds(m, g) BY <1>2
  <2> DEFINE h == [s \in SUBSET (1 .. m + 1) |->
                     IF m + 1 \in s THEN Op(c, d, g[s \ {m + 1}], seq[m + 1]) ELSE g[s]]
  <2>2. ASSUME NEW s \in SUBSET (1 .. m + 1) PROVE h[s] = Step(c, d, base, seq, h, s)
    <3>1. CASE m + 1 \in s
      <4>1. Last(s) = m + 1 BY <3>1, LastUpTo
      <4>2. s \ {m + 1} \in SUBSET (1 .. m + 1) /\ h[s \ {m + 1}] = g[s \ {m + 1}] OBVIOUS
      <4> QED BY <3>1, <4>1, <4>2 DEF Step
    <3>2. CASE m + 1 \notin s
      <4>1. s \in SUBSET (1 .. m) BY <3>2
      <4>2. h[s] = g[s] BY <3>2
      <4>3. g[s] = Step(c, d, base, seq, g, s) BY <2>1, <4>1
      <4>4. CASE s = {} BY <4>2, <4>3, <4>4 DEF Step
      <4>5. CASE s # {}
        <5>1. s \ {Last(s)} \in SUBSET (1 .. m) BY <4>1
        <5>2. h[s \ {Last(s)}] = g[s \ {Last(s)}] BY <5>1
        <5> HIDE DEF h
        <5> QED BY <4>2, <4>3, <4>5, <5>2 DEF Step
      <4> QED BY <4>4, <4>5
    <3> QED BY <3>1, <3>2
  <2>3. h = [s \in SUBSET (1 .. m + 1) |-> h[s]] OBVIOUS
  <2> HIDE DEF h
  <2>4. Folds(m + 1, h) BY <2>2, <2>3
  <2>5. m + 1 \in 0 .. n OBVIOUS
  <2> HIDE DEF Folds
  <2> QED BY <2>4, <2>5
<1> HIDE DEF Q
<1>3. 0 .. n \subseteq Q BY <1>1, <1>2, UpTo
<1>4. n \in Q BY <1>3
<1> QED BY <1>4 DEF Q, IsFold

\* What holds of the base and is kept by each element, in the order of the
\* sequence, holds of the value of the fold.
THEOREM FoldInduction ==
  ASSUME NEW c, NEW d, NEW base, NEW seq, NEW n \in Nat, DOMAIN seq = 1 .. n, NEW g, NEW x,
         IsFold(c, d, base, seq, g),
         P(x, 0, base),
         \A k \in 1 .. n : \A v : P(x, k - 1, v) => P(x, k, Op(c, d, v, seq[k]))
  PROVE  P(x, n, g[DOMAIN seq])
<1> DEFINE Q == {m \in 0 .. n : P(x, m, g[1 .. m])}
<1>3. \A s \in SUBSET (1 .. n) : g[s] = Step(c, d, base, seq, g, s) BY DEF IsFold
<1>4. 0 \in Q
  <2>1. 1 .. 0 = {} OBVIOUS
  <2>2. g[{}] = base BY <1>3 DEF Step
  <2> QED BY <2>1, <2>2
<1>5. ASSUME NEW m \in 0 .. n - 1, m \in Q PROVE m + 1 \in Q
  <2>1. P(x, m, g[1 .. m]) BY <1>5
  <2>2. Last(1 .. m + 1) = m + 1 /\ 1 .. m + 1 # {} BY LastUpTo
  <2>3. (1 .. m + 1) \ {m + 1} = 1 .. m OBVIOUS
  <2>0. 1 .. m + 1 \in SUBSET (1 .. n) OBVIOUS
  <2>4. g[1 .. m + 1] = Op(c, d, g[1 .. m], seq[m + 1])
    <3>1. g[1 .. m + 1] = Step(c, d, base, seq, g, 1 .. m + 1) BY <1>3, <2>0
    <3> QED BY <3>1, <2>2, <2>3 DEF Step
  <2>5. P(x, (m + 1) - 1, g[1 .. m]) BY <2>1
  <2>6. m + 1 \in 1 .. n /\ m + 1 \in 0 .. n OBVIOUS
  <2>7. P(x, m + 1, Op(c, d, g[1 .. m], seq[m + 1])) BY <2>5, <2>6
  <2> QED BY <2>4, <2>6, <2>7
<1> HIDE DEF Q
<1>6. 0 .. n \subseteq Q BY <1>4, <1>5, UpTo
<1>7. n \in Q BY <1>6
<1> QED BY <1>7 DEF Q
=============================================================================
