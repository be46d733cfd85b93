--------------------------- MODULE Tariffs_proofs ---------------------------
(***************************************************************************)
(* Theorems of Tariffs: any lists of tiers, holiday rates, tariffs and     *)
(* times, and handlers that change them while an exit is charged.          *)
(*                                                                         *)
(* The calculation comes first: sums, the walk over the tiers tier by      *)
(* tier, the sum it is defined by, and the averages of the holiday rates.  *)
(* The three properties then follow from an inductive invariant that says  *)
(* what the calculation has read and made of it so far (Calculation), and  *)
(* that a stored tariff keeps the tiers that were sent with it (FeeRows).  *)
(***************************************************************************)
EXTENDS Tariffs, FiniteSetTheorems, NaturalsInduction, TLAPS

(***************************************************************************)
(* Induction over the numbers, for recursive functions: a set that is not  *)
(* all of Nat misses a least number.                                       *)
(***************************************************************************)

LEMMA NatLess == \A m, n \in Nat : <<m, n>> \in OpToRel(<, Nat) <=> m < n
BY Zenon DEF OpToRel

LEMMA NatInd ==
  ASSUME NEW T, 0 \in T, \A n \in Nat : n \in T => n + 1 \in T
  PROVE  Nat \subseteq T
<1> SUFFICES ASSUME Nat \ T # {} PROVE FALSE
  OBVIOUS
<1>1. PICK x \in Nat \ T : \A y \in Nat \ T : ~(<<y, x>> \in OpToRel(<, Nat))
  <2>1. Nat \ T \subseteq Nat
    OBVIOUS
  <2> QED
    BY <2>1, NatLessThanWellFounded, WFMin, Zenon
<1>2. \A y \in Nat \ T : ~(y < x)
  BY <1>1, NatLess
<1>3. x \in Nat /\ x \notin T
  OBVIOUS
<1>4. x # 0
  BY <1>3, Zenon
<1>5. PICK y \in Nat : x = y + 1
  BY <1>3, <1>4, x - 1 \in Nat, x = (x - 1) + 1
<1>6. y \in T
  BY <1>2, <1>5, y < x
<1> QED
  BY <1>3, <1>5, <1>6, Zenon

(***************************************************************************)
(* Sums over finite sets, for SumFunctionOnSet is a fold that takes the    *)
(* elements in an order of its own choice.                                 *)
(***************************************************************************)

First(s) == CHOOSE x \in s : TRUE

SumAt(it, v, s) == IF s = {} THEN 0 ELSE v[First(s)] + it[s \ {First(s)}]

Summing(it, v, S) == it = [s \in SUBSET S |-> SumAt(it, v, s)]

LEMMA SumUnfolds == \A v, S : SumFunctionOnSet(v, S) = (CHOOSE it : Summing(it, v, S))[S]
BY Zenon DEF SumFunctionOnSet, FoldFunctionOnSet, MapThenFoldSet, Summing, SumAt, First

LEMMA Smaller ==
  ASSUME NEW s, IsFiniteSet(s), NEW x \in s
  PROVE  /\ IsFiniteSet(s \ {x})
         /\ Cardinality(s) \in Nat /\ Cardinality(s \ {x}) \in Nat
         /\ Cardinality(s) = Cardinality(s \ {x}) + 1
<1>1. IsFiniteSet(s \ {x}) /\ Cardinality(s \ {x}) = Cardinality(s) - 1
  BY FS_RemoveElement
<1>2. Cardinality(s) \in Nat /\ Cardinality(s \ {x}) \in Nat
  BY <1>1, FS_CardinalityType
<1> QED
  BY <1>1, <1>2

LEMMA FirstIn == \A s : s # {} => First(s) \in s
BY DEF First

\* The fold is defined.
LEMMA SumExists ==
  ASSUME NEW v, NEW S, IsFiniteSet(S)
  PROVE  \E it : Summing(it, v, S)
<1> DEFINE Upto(n, it) == \A s \in SUBSET S : Cardinality(s) <= n => it[s] = SumAt(it, v, s)
           T == {n \in Nat : \E it : Upto(n, it)}
<1>1. \A s \in SUBSET S : IsFiniteSet(s) /\ Cardinality(s) \in Nat
  BY FS_Subset, FS_CardinalityType
<1>2. 0 \in T
  <2> PICK it : it = [s \in SUBSET S |-> 0]
    OBVIOUS
  <2>1. \A s \in SUBSET S : Cardinality(s) <= 0 => s = {}
    BY <1>1, FS_EmptySet
  <2>2. Upto(0, it)
    BY <2>1 DEF SumAt
  <2> QED
    BY <2>2
<1>3. ASSUME NEW n \in Nat, n \in T PROVE n + 1 \in T
  <2> PICK it : Upto(n, it)
    BY <1>3
  <2> PICK jt : jt = [s \in SUBSET S |-> IF Cardinality(s) <= n THEN it[s] ELSE SumAt(it, v, s)]
    OBVIOUS
  <2>1. ASSUME NEW s \in SUBSET S, Cardinality(s) <= n + 1
        PROVE  jt[s] = SumAt(jt, v, s) /\ jt[s] = SumAt(it, v, s)
    <3>1. jt[s] = SumAt(it, v, s)
      OBVIOUS
    <3>2. CASE s = {}
      BY <3>1, <3>2 DEF SumAt
    <3>3. CASE s # {}
      <4> PICK r : r = s \ {First(s)}
        OBVIOUS
      <4>1. r \in SUBSET S /\ Cardinality(r) <= n
        BY <1>1, <2>1, <3>3, FirstIn, Smaller
      <4>2. jt[r] = it[r]
        BY <4>1
      <4> QED
        BY <3>1, <3>3, <4>2 DEF SumAt
    <3> QED
      BY <3>1, <3>2, <3>3
  <2>2. Upto(n + 1, jt)
    BY <2>1
  <2> HIDE DEF Upto
  <2> QED
    BY <2>2
<1>4. Nat \subseteq T
  <2> HIDE DEF T
  <2> QED
    BY <1>2, <1>3, NatInd
<1>5. PICK it : Upto(Cardinality(S), it)
  BY <1>1, <1>4
<1>6. \A s \in SUBSET S : it[s] = SumAt(it, v, s)
  BY <1>1, <1>5, FS_Subset
<1> PICK jt : jt = [s \in SUBSET S |-> it[s]]
  OBVIOUS
<1>7. \A s \in SUBSET S : jt[s] = SumAt(jt, v, s)
  BY <1>6 DEF SumAt
<1> QED
  BY <1>7 DEF Summing

\* Its value does not depend on the set it was started on.
LEMMA SumAgrees ==
  ASSUME NEW v, NEW S, NEW it, Summing(it, v, S), NEW w, NEW U, NEW jt, Summing(jt, w, U),
         NEW s, s \subseteq S, s \subseteq U, IsFiniteSet(s), \A x \in s : v[x] = w[x]
  PROVE  it[s] = jt[s]
<1> DEFINE T == {n \in Nat : \A r \in SUBSET s : Cardinality(r) = n => it[r] = jt[r]}
<1>1. \A r \in SUBSET s : IsFiniteSet(r) /\ Cardinality(r) \in Nat
  BY FS_Subset, FS_CardinalityType
<1>2. \A r \in SUBSET s : it[r] = SumAt(it, v, r) /\ jt[r] = SumAt(jt, w, r)
  BY DEF Summing
<1>3. 0 \in T
  <2>1. \A r \in SUBSET s : Cardinality(r) = 0 => r = {}
    BY <1>1, FS_EmptySet
  <2> QED
    BY <1>2, <2>1 DEF SumAt
<1>4. ASSUME NEW n \in Nat, n \in T PROVE n + 1 \in T
  <2> SUFFICES ASSUME NEW r \in SUBSET s, Cardinality(r) = n + 1 PROVE it[r] = jt[r]
    OBVIOUS
  <2>1. r # {}
    BY FS_EmptySet
  <2> PICK q : q = r \ {First(r)}
    OBVIOUS
  <2>2. q \in SUBSET s /\ Cardinality(q) = n
    BY <1>1, <2>1, FirstIn, Smaller
  <2>3. it[q] = jt[q] /\ v[First(r)] = w[First(r)]
    BY <1>4, <2>1, <2>2, FirstIn
  <2> QED
    BY <1>2, <2>1, <2>3 DEF SumAt
<1>5. Nat \subseteq T
  <2> HIDE DEF T
  <2> QED
    BY <1>3, <1>4, NatInd
<1> QED
  BY <1>1, <1>5

LEMMA SumSame ==
  ASSUME NEW S, IsFiniteSet(S), NEW v, NEW w, \A x \in S : v[x] = w[x]
  PROVE  SumFunctionOnSet(v, S) = SumFunctionOnSet(w, S)
<1>1. PICK it : Summing(it, v, S) /\ SumFunctionOnSet(v, S) = it[S]
  BY SumExists, SumUnfolds
<1>2. PICK jt : Summing(jt, w, S) /\ SumFunctionOnSet(w, S) = jt[S]
  BY SumExists, SumUnfolds
<1> QED
  BY <1>1, <1>2, SumAgrees

LEMMA SumFirst ==
  ASSUME NEW S, IsFiniteSet(S), NEW v
  PROVE  SumFunctionOnSet(v, S) =
           IF S = {} THEN 0 ELSE v[First(S)] + SumFunctionOnSet(v, S \ {First(S)})
<1>1. PICK it : Summing(it, v, S) /\ SumFunctionOnSet(v, S) = it[S]
  BY SumExists, SumUnfolds
<1>2. it[S] = SumAt(it, v, S)
  BY <1>1 DEF Summing
<1>3. CASE S = {}
  BY <1>1, <1>2, <1>3 DEF SumAt
<1>4. CASE S # {}
  <2> PICK r : r = S \ {First(S)}
    OBVIOUS
  <2>1. IsFiniteSet(r)
    BY FS_Subset
  <2>2. PICK jt : Summing(jt, v, r) /\ SumFunctionOnSet(v, r) = jt[r]
    BY <2>1, SumExists, SumUnfolds
  <2>3. it[r] = jt[r]
    BY <1>1, <2>1, <2>2, SumAgrees
  <2> QED
    BY <1>1, <1>2, <1>4, <2>2, <2>3 DEF SumAt
<1> QED
  BY <1>3, <1>4

\* A sum of numbers of a kind is of that kind: Nat, or Int.
LEMMA SumIn ==
  ASSUME NEW V, 0 \in V, \A a, b \in V : a + b \in V,
         NEW S, IsFiniteSet(S), NEW v, \A y \in S : v[y] \in V
  PROVE  SumFunctionOnSet(v, S) \in V
<1> DEFINE T == {n \in Nat : \A R \in SUBSET S : Cardinality(R) = n => SumFunctionOnSet(v, R) \in V}
<1>1. \A R \in SUBSET S : IsFiniteSet(R) /\ Cardinality(R) \in Nat
  BY FS_Subset, FS_CardinalityType
<1>2. 0 \in T
  <2>1. \A R \in SUBSET S : Cardinality(R) = 0 => R = {}
    BY <1>1, FS_EmptySet
  <2> QED
    BY <1>1, <2>1, SumFirst
<1>3. ASSUME NEW n \in Nat, n \in T PROVE n + 1 \in T
  <2> SUFFICES ASSUME NEW R \in SUBSET S, Cardinality(R) = n + 1 PROVE SumFunctionOnSet(v, R) \in V
    OBVIOUS
  <2>1. R # {} /\ IsFiniteSet(R)
    BY <1>1, FS_EmptySet
  <2> PICK a : a = First(R)
    OBVIOUS
  <2>2. a \in R /\ SumFunctionOnSet(v, R) = v[a] + SumFunctionOnSet(v, R \ {a})
    BY <2>1, FirstIn, SumFirst
  <2>3. R \ {a} \in SUBSET S /\ Cardinality(R \ {a}) = n
    BY <2>1, <2>2, Smaller
  <2> QED
    BY <1>3, <2>2, <2>3
<1>4. Nat \subseteq T
  <2> HIDE DEF T
  <2> QED
    BY <1>2, <1>3, NatInd
<1> QED
  BY <1>1, <1>4

LEMMA SumIsNumber ==
  ASSUME NEW S, IsFiniteSet(S), NEW v
  PROVE  /\ (\A y \in S : v[y] \in Int) => SumFunctionOnSet(v, S) \in Int
         /\ (\A y \in S : v[y] \in Nat) => SumFunctionOnSet(v, S) \in Nat
<1>1. 0 \in Int /\ (\A a, b \in Int : a + b \in Int) /\ 0 \in Nat /\ (\A a, b \in Nat : a + b \in Nat)
  OBVIOUS
<1> QED
  BY <1>1, SumIn, Zenon

\* Any element may be taken out first.
LEMMA SumTakes ==
  ASSUME NEW S, IsFiniteSet(S), NEW v, \A y \in S : v[y] \in Int, NEW z \in S
  PROVE  SumFunctionOnSet(v, S) = v[z] + SumFunctionOnSet(v, S \ {z})
<1> DEFINE Taken(R) == \A x \in R : SumFunctionOnSet(v, R) = v[x] + SumFunctionOnSet(v, R \ {x})
           T == {n \in Nat : \A R \in SUBSET S : Cardinality(R) = n => Taken(R)}
<1>1. \A R \in SUBSET S : IsFiniteSet(R) /\ Cardinality(R) \in Nat /\ SumFunctionOnSet(v, R) \in Int
  <2> TAKE R \in SUBSET S
  <2>1. IsFiniteSet(R)
    BY FS_Subset
  <2>2. \A y \in R : v[y] \in Int
    OBVIOUS
  <2> QED
    BY <2>1, <2>2, SumIsNumber, FS_CardinalityType
<1>2. 0 \in T
  <2>1. \A R \in SUBSET S : Cardinality(R) = 0 => R = {}
    BY <1>1, FS_EmptySet
  <2> QED
    BY <2>1
<1>3. ASSUME NEW n \in Nat, n \in T PROVE n + 1 \in T
  <2> SUFFICES ASSUME NEW R \in SUBSET S, Cardinality(R) = n + 1, NEW x \in R
               PROVE  SumFunctionOnSet(v, R) = v[x] + SumFunctionOnSet(v, R \ {x})
    OBVIOUS
  <2> PICK a : a = First(R)
    OBVIOUS
  <2>1. a \in R /\ SumFunctionOnSet(v, R) = v[a] + SumFunctionOnSet(v, R \ {a})
    BY <1>1, FirstIn, SumFirst
  <2>2. CASE x # a
    <3> PICK q : q = (R \ {a}) \ {x}
      OBVIOUS
    <3>1. q = (R \ {x}) \ {a}
      OBVIOUS
    <3>2. \A y \in R : R \ {y} \in SUBSET S /\ Cardinality(R \ {y}) = n
      BY <1>1, Smaller
    <3>3. Taken(R \ {a}) /\ Taken(R \ {x})
      BY <1>3, <2>1, <3>2
    <3>4. SumFunctionOnSet(v, R \ {a}) = v[x] + SumFunctionOnSet(v, q)
      BY <2>1, <2>2, <3>3
    <3>5. SumFunctionOnSet(v, R \ {x}) = v[a] + SumFunctionOnSet(v, q)
      BY <2>1, <2>2, <3>1, <3>3
    <3>6. SumFunctionOnSet(v, q) \in Int /\ v[a] \in Int /\ v[x] \in Int
      BY <1>1, <2>1
    <3> HIDE DEF Taken
    <3> QED
      BY <2>1, <3>4, <3>5, <3>6
  <2> QED
    BY <2>1, <2>2
<1>4. Nat \subseteq T
  <2> HIDE DEF T
  <2> QED
    BY <1>2, <1>3, NatInd
<1> QED
  BY <1>1, <1>4

(***************************************************************************)
(* The walk over the tiers.                                                *)
(***************************************************************************)

GoodTiers(list) ==
  list \in Seq(TierRows) /\ \A i \in DOMAIN list : list[i].minutes > 0 /\ list[i].fee >= 0

LEMMA WalkUnfolds ==
  \A list, minutes : Walk(list, minutes) =
    CHOOSE walk : walk = [i \in 0 .. Len(list) |->
                            IF i = 0 THEN [total |-> 0, remaining |-> minutes]
                            ELSE Charge(walk[i - 1], list[i])]
BY Zenon DEF Walk

LEMMA WalkSteps ==
  ASSUME NEW list, Len(list) \in Nat, NEW minutes
  PROVE  /\ Walk(list, minutes)[0] = [total |-> 0, remaining |-> minutes]
         /\ \A i \in 1 .. Len(list) :
              Walk(list, minutes)[i] = Charge(Walk(list, minutes)[i - 1], list[i])
<1> DEFINE At(w, i) == IF i = 0 THEN [total |-> 0, remaining |-> minutes] ELSE Charge(w[i - 1], list[i])
           Upto(n, w) == \A i \in 0 .. n : w[i] = At(w, i)
           T == {n \in Nat : \E w : Upto(n, w)}
<1>1. 0 \in T
  <2> PICK w : w = [i \in {0} |-> [total |-> 0, remaining |-> minutes]]
    OBVIOUS
  <2>1. Upto(0, w)
    OBVIOUS
  <2> HIDE DEF Upto
  <2> QED
    BY <2>1
<1>2. ASSUME NEW n \in Nat, n \in T PROVE n + 1 \in T
  <2> PICK w : Upto(n, w)
    BY <1>2
  <2> PICK x : x = [i \in 0 .. n + 1 |-> IF i <= n THEN w[i] ELSE At(w, i)]
    OBVIOUS
  <2>1. ASSUME NEW i \in 0 .. n + 1 PROVE x[i] = At(x, i)
    <3>1. x[i] = At(w, i)
      OBVIOUS
    <3>2. CASE i = 0
      BY <3>1, <3>2
    <3>3. CASE i # 0
      <4>1. i - 1 \in 0 .. n /\ x[i - 1] = w[i - 1]
        BY <3>3
      <4> QED
        BY <3>1, <3>3, <4>1
    <3> QED
      BY <3>2, <3>3
  <2>2. Upto(n + 1, x)
    BY <2>1
  <2> HIDE DEF Upto
  <2> QED
    BY <2>2
<1>3. Nat \subseteq T
  <2> HIDE DEF T
  <2> QED
    BY <1>1, <1>2, NatInd
<1>4. PICK w : Upto(Len(list), w)
  BY <1>3
<1> PICK x : x = [i \in 0 .. Len(list) |-> w[i]]
  OBVIOUS
<1>5. \A i \in 0 .. Len(list) : x[i] = At(x, i)
  BY <1>4
<1>6. x = [i \in 0 .. Len(list) |-> At(x, i)]
  BY <1>5
<1>7. Walk(list, minutes) = [i \in 0 .. Len(list) |-> At(Walk(list, minutes), i)]
  BY <1>6, WalkUnfolds, Zenon
<1> PICK y : y = Walk(list, minutes)
  OBVIOUS
<1>8. \A i \in 0 .. Len(list) : y[i] = At(y, i)
  BY <1>7
<1> QED
  BY <1>8

LEMMA BlocksUp ==
  ASSUME NEW r \in Int, NEW d \in Int, r > 0, d > 0
  PROVE  /\ Blocks(r, d) \in Nat
         /\ (Blocks(r, d) - 1) * d < r
         /\ r <= Blocks(r, d) * d
<1> PICK q \in Int : q = (r + d - 1) \div d
  OBVIOUS
<1>1. q * d <= r + d - 1 /\ r + d - 1 < q * d + d
  OBVIOUS
<1>2. q >= 0
  OBVIOUS
<1> QED
  BY <1>1, <1>2 DEF Blocks

LEMMA TimesUp ==
  ASSUME NEW a \in Int, NEW b \in Int, NEW c \in Int, a <= b, c >= 0
  PROVE  a * c <= b * c
<1> PICK e \in Nat : b = a + e
  BY b - a \in Nat
<1>1. (a + e) * c = a * c + e * c /\ e * c >= 0
  OBVIOUS
<1> QED
  BY <1>1

LEMMA BlocksGrow ==
  ASSUME NEW r \in Int, NEW s \in Int, NEW d \in Int, 0 < r, r <= s, d > 0
  PROVE  Blocks(r, d) <= Blocks(s, d)
<1> PICK a, b : a = Blocks(r, d) /\ b = Blocks(s, d)
  OBVIOUS
<1>3. a \in Nat /\ b \in Nat
  <2>1. s > 0
    OBVIOUS
  <2> QED
    BY <2>1, BlocksUp
<1>1. (a - 1) * d < r /\ s <= b * d
  <2>1. s > 0
    OBVIOUS
  <2> QED
    BY <2>1, BlocksUp
<1>2. CASE b < a
  <2>1. b * d <= (a - 1) * d
    BY <1>2, <1>3, TimesUp
  <2>2. b * d \in Int /\ (a - 1) * d \in Int
    BY <1>3
  <2> QED
    BY <1>1, <2>1, <2>2
<1> QED
  BY <1>2, <1>3

\* What the walk has charged, and what remains, for more minutes and for fewer.
LEMMA ChargeGrows ==
  ASSUME NEW v, v.total \in Int, v.remaining \in Int,
         NEW w, w.total \in Int, w.remaining \in Int,
         0 <= v.total, v.total <= w.total, 0 <= v.remaining, v.remaining <= w.remaining,
         NEW t \in TierRows, t.minutes > 0, t.fee >= 0
  PROVE  LET x == Charge(v, t) y == Charge(w, t) IN
         /\ x.total \in Int /\ x.remaining \in Int /\ y.total \in Int /\ y.remaining \in Int
         /\ 0 <= x.total /\ x.total <= y.total /\ 0 <= x.remaining /\ x.remaining <= y.remaining
<1> PICK d, fee : d = t.minutes /\ fee = t.fee
  OBVIOUS
<1>1. d \in Int /\ fee \in Int /\ d > 0 /\ fee >= 0 /\ t.last \in BOOLEAN
  BY DEF TierRows
<1>2. ASSUME NEW u, u.total \in Int, u.remaining \in Int, 0 <= u.total, 0 <= u.remaining
      PROVE  /\ u.remaining = 0 => Charge(u, t) = u
             /\ u.remaining > 0 /\ t.last =>
                  Charge(u, t) = [total |-> u.total + Blocks(u.remaining, d) * fee, remaining |-> 0]
             /\ u.remaining > 0 /\ ~t.last =>
                  Charge(u, t) = [total |-> u.total + fee,
                                  remaining |-> IF u.remaining < d THEN 0 ELSE u.remaining - d]
  BY <1>1, <1>2 DEF Charge
<1>3. CASE v.remaining = 0
  <2>1. Charge(v, t) = v
    BY <1>2, <1>3
  <2>2. CASE w.remaining = 0
    BY <1>2, <2>1, <2>2
  <2>3. CASE w.remaining > 0 /\ t.last
    <3> PICK c \in Int : c = Blocks(w.remaining, d) * fee /\ c >= 0
      <4>1. Blocks(w.remaining, d) \in Nat
        BY <1>1, <2>3, BlocksUp
      <4> QED
        BY <1>1, <4>1
    <3> QED
      BY <1>2, <1>3, <2>1, <2>3
  <2>4. CASE w.remaining > 0 /\ ~t.last
    BY <1>1, <1>2, <1>3, <2>1, <2>4
  <2> QED
    BY <2>2, <2>3, <2>4
<1>4. CASE v.remaining > 0 /\ t.last
  <2> PICK a, b : a = Blocks(v.remaining, d) /\ b = Blocks(w.remaining, d)
    OBVIOUS
  <2>3. a \in Nat /\ b \in Nat /\ w.remaining > 0
    <3>1. w.remaining > 0
      BY <1>4
    <3>2. a \in Nat
      BY <1>1, <1>4, BlocksUp
    <3>3. b \in Nat
      BY <1>1, <3>1, BlocksUp
    <3> QED
      BY <3>1, <3>2, <3>3
  <2>1. a <= b
    BY <1>1, <1>4, BlocksGrow
  <2>2. a * fee <= b * fee /\ a * fee \in Int /\ b * fee \in Int /\ 0 <= a * fee
    BY <1>1, <2>1, <2>3, TimesUp
  <2> QED
    BY <1>2, <1>4, <2>2, <2>3
<1>5. CASE v.remaining > 0 /\ ~t.last
  BY <1>1, <1>2, <1>5
<1> QED
  BY <1>1, <1>3, <1>4, <1>5

\* A longer stay costs no less, before the holiday rates.
LEMMA TierFeeGrows ==
  ASSUME NEW list, GoodTiers(list), NEW a \in Nat, NEW b \in Nat, a <= b
  PROVE  /\ TierFee(list, a) \in Nat /\ TierFee(list, b) \in Nat
         /\ TierFee(list, a) <= TierFee(list, b)
<1> DEFINE v == Walk(list, a)
           w == Walk(list, b)
           Grown(i) == /\ v[i].total \in Int /\ v[i].remaining \in Int
                       /\ w[i].total \in Int /\ w[i].remaining \in Int
                       /\ 0 <= v[i].total /\ v[i].total <= w[i].total
                       /\ 0 <= v[i].remaining /\ v[i].remaining <= w[i].remaining
           T == {i \in Nat : i <= Len(list) => Grown(i)}
<1>1. Len(list) \in Nat /\ \A i \in 1 .. Len(list) :
        list[i] \in TierRows /\ list[i].minutes > 0 /\ list[i].fee >= 0
  BY DEF GoodTiers
<1>6. /\ v[0] = [total |-> 0, remaining |-> a]
      /\ w[0] = [total |-> 0, remaining |-> b]
      /\ \A i \in 1 .. Len(list) : v[i] = Charge(v[i - 1], list[i])
      /\ \A i \in 1 .. Len(list) : w[i] = Charge(w[i - 1], list[i])
  BY <1>1, WalkSteps
<1>7. TierFee(list, a) = v[Len(list)].total /\ TierFee(list, b) = w[Len(list)].total
  BY DEF TierFee
<1> HIDE DEF v, w
<1>2. 0 \in T
  BY <1>6
<1>3. ASSUME NEW n \in Nat, n \in T PROVE n + 1 \in T
  <2> SUFFICES ASSUME n + 1 <= Len(list) PROVE Grown(n + 1)
    OBVIOUS
  <2> PICK i : i = n + 1
    OBVIOUS
  <2>1. i \in 1 .. Len(list) /\ i - 1 = n /\ n <= Len(list)
    BY <1>1
  <2>2. v[i] = Charge(v[n], list[i]) /\ w[i] = Charge(w[n], list[i])
    BY <1>6, <2>1
  <2>3. Grown(n)
    BY <1>3, <2>1
  <2>4. list[i] \in TierRows /\ list[i].minutes > 0 /\ list[i].fee >= 0
    BY <1>1, <2>1
  <2>5. Grown(i)
    BY <2>2, <2>3, <2>4, ChargeGrows
  <2> QED
    BY <2>5
<1>4. Nat \subseteq T
  <2> HIDE DEF T
  <2> QED
    BY <1>2, <1>3, NatInd
<1>5. Grown(Len(list))
  BY <1>1, <1>4
<1> QED
  BY <1>5, <1>7

(***************************************************************************)
(* The walk charges the fee that is defined: tier by tier, what the tiers  *)
(* up to it cost, and there remain the minutes past them.                  *)
(***************************************************************************)

LEMMA SumPrefix ==
  ASSUME NEW n \in Nat, NEW v, \A j \in 1 .. n : v[j] \in Int, NEW i \in 1 .. n
  PROVE  /\ SumFunctionOnSet(v, 1 .. i - 1) \in Int
         /\ SumFunctionOnSet(v, 1 .. i) = SumFunctionOnSet(v, 1 .. i - 1) + v[i]
<1>1. IsFiniteSet(1 .. i) /\ IsFiniteSet(1 .. i - 1)
  BY FS_Interval
<1>2. (1 .. i) \ {i} = 1 .. i - 1 /\ i \in 1 .. i
  OBVIOUS
<1>3. (\A j \in 1 .. i : v[j] \in Int) /\ (\A j \in 1 .. i - 1 : v[j] \in Int)
  OBVIOUS
<1>4. SumFunctionOnSet(v, 1 .. i - 1) \in Int
  BY <1>1, <1>3, SumIsNumber
<1>5. SumFunctionOnSet(v, 1 .. i) = v[i] + SumFunctionOnSet(v, (1 .. i) \ {i})
  BY <1>1, <1>2, <1>3, SumTakes
<1>6. v[i] \in Int
  OBVIOUS
<1>7. SumFunctionOnSet(v, 1 .. i) = v[i] + SumFunctionOnSet(v, 1 .. i - 1)
  BY <1>2, <1>5, Zenon
<1> QED
  BY <1>4, <1>6, <1>7

LEMMA StartSteps ==
  ASSUME NEW list, GoodTiers(list)
  PROVE  /\ Start(list, 1) = 0
         /\ \A i \in 1 .. Len(list) :
              /\ Start(list, i) \in Nat
              /\ Start(list, i + 1) = Start(list, i) + list[i].minutes
<1>1. Len(list) \in Nat /\ \A i \in 1 .. Len(list) : list[i].minutes \in Nat
  <2>1. \A i \in 1 .. Len(list) : list[i] \in TierRows /\ list[i].minutes > 0
    BY DEF GoodTiers
  <2>2. \A t \in TierRows : t.minutes > 0 => t.minutes \in Nat
    BY DEF TierRows
  <2> QED
    BY <2>1, <2>2 DEF GoodTiers
<1>2. Start(list, 1) = 0
  <2>1. 1 .. 1 - 1 = {}
    OBVIOUS
  <2> QED
    BY <2>1, FS_EmptySet, SumFirst DEF Start
<1>3. ASSUME NEW i \in 1 .. Len(list)
      PROVE  Start(list, i) \in Nat /\ Start(list, i + 1) = Start(list, i) + list[i].minutes
  <2> PICK u, v : /\ u = [j \in 1 .. i - 1 |-> list[j].minutes]
                  /\ v = [j \in 1 .. i |-> list[j].minutes]
    OBVIOUS
  <2>1. /\ \A j \in 1 .. i - 1 : u[j] = v[j] /\ u[j] \in Nat
        /\ \A j \in 1 .. i : v[j] \in Int
        /\ v[i] = list[i].minutes
        /\ i \in Nat /\ i \in 1 .. i
    BY <1>1
  <2>2. IsFiniteSet(1 .. i - 1)
    BY FS_Interval
  <2>3. SumFunctionOnSet(u, 1 .. i - 1) = SumFunctionOnSet(v, 1 .. i - 1)
    BY <2>1, <2>2, SumSame
  <2>4. SumFunctionOnSet(u, 1 .. i - 1) \in Nat
    BY <2>1, <2>2, SumIsNumber
  <2>5. SumFunctionOnSet(v, 1 .. i) = SumFunctionOnSet(v, 1 .. i - 1) + v[i]
    BY <2>1, SumPrefix
  <2>6. Start(list, i) = SumFunctionOnSet(u, 1 .. i - 1)
    BY Zenon DEF Start
  <2>7. Start(list, i + 1) = SumFunctionOnSet(v, 1 .. i)
    <3>1. (i + 1) - 1 = i
      OBVIOUS
    <3> QED
      BY <3>1 DEF Start
  <2> QED
    BY <2>1, <2>3, <2>4, <2>5, <2>6, <2>7
<1> QED
  BY <1>2, <1>3

LEMMA BlocksBegun ==
  ASSUME NEW s \in Nat, NEW m \in Nat, m > 0, NEW b \in Nat, s < b,
         NEW begun, \A k : k \in begun <=> k \in 0 .. b /\ s + k * m < b
  PROVE  begun # {} /\ Cardinality(begun) = Blocks(b - s, m)
<1> PICK q : q = Blocks(b - s, m)
  OBVIOUS
<1>1. q \in Nat /\ (q - 1) * m < b - s /\ b - s <= q * m
  BY BlocksUp, b - s > 0
<1>2. q >= 1
  BY <1>1
<1>3. ASSUME NEW k \in Nat, k <= q - 1 PROVE k <= b /\ s + k * m < b
  <2>1. k * m <= (q - 1) * m
    BY <1>1, <1>3, TimesUp
  <2>2. k * 1 <= k * m
    OBVIOUS
  <2>3. k * m \in Int /\ (q - 1) * m \in Int
    BY <1>1
  <2> QED
    BY <1>1, <2>1, <2>2, <2>3
<1>4. ASSUME NEW k \in Nat, s + k * m < b PROVE k <= q - 1
  <2>1. CASE k >= q
    <3>1. q * m <= k * m
      BY <1>1, <2>1, TimesUp
    <3>2. k * m \in Int /\ q * m \in Int
      BY <1>1
    <3> QED
      BY <1>1, <1>4, <3>1, <3>2
  <2> QED
    BY <1>1, <2>1
<1>5. begun = 0 .. q - 1
  <2>1. ASSUME NEW k \in begun PROVE k \in 0 .. q - 1
    BY <1>1, <1>4
  <2>2. ASSUME NEW k \in 0 .. q - 1 PROVE k \in begun
    BY <1>1, <1>3
  <2> QED
    BY <2>1, <2>2
<1>6. Cardinality(0 .. q - 1) = q
  BY <1>1, <1>2, FS_Interval
<1> QED
  BY <1>2, <1>5, <1>6, 0 \in 0 .. q - 1

LEMMA TiersTyped ==
  ASSUME NEW list, GoodTiers(list)
  PROVE  /\ Len(list) \in Nat /\ DOMAIN list = 1 .. Len(list)
         /\ \A i \in 1 .. Len(list) :
              /\ list[i].minutes \in Nat /\ list[i].minutes > 0 /\ list[i].fee \in Nat
              /\ list[i].last \in BOOLEAN
<1>1. \A i \in DOMAIN list : list[i] \in TierRows /\ list[i].minutes > 0 /\ list[i].fee >= 0
  BY DEF GoodTiers
<1>2. ASSUME NEW t \in TierRows, t.minutes > 0, t.fee >= 0
      PROVE  t.minutes \in Nat /\ t.fee \in Nat /\ t.last \in BOOLEAN
  BY <1>2 DEF TierRows
<1>3. Len(list) \in Nat /\ DOMAIN list = 1 .. Len(list)
  BY DEF GoodTiers
<1> QED
  BY <1>1, <1>2, <1>3

\* What a tier costs, without counting its blocks one by one.
LEMMA TierCosts ==
  ASSUME NEW list, GoodTiers(list), NEW b \in Nat, NEW i \in 1 .. Len(list)
  PROVE  TierCost(list, i, b) =
           IF (\E j \in 1 .. i - 1 : list[j].last) \/ b <= Start(list, i) THEN 0
           ELSE IF list[i].last THEN Blocks(b - Start(list, i), list[i].minutes) * list[i].fee
           ELSE list[i].fee
<1> PICK s, m, f, l : /\ s = Start(list, i) /\ m = list[i].minutes /\ f = list[i].fee
                      /\ l = list[i].last
  OBVIOUS
<1>1. s \in Nat /\ m \in Nat /\ m > 0
  BY StartSteps, TiersTyped
<1> PICK begun, done : /\ begun = {k \in 0 .. b : s + k * m < b}
                       /\ done = \E j \in 1 .. i - 1 : list[j].last
  OBVIOUS
<1>2. \A k : k \in begun <=> k \in 0 .. b /\ s + k * m < b
  OBVIOUS
<1>3. /\ begun = {} \/ done => TierCost(list, i, b) = 0
      /\ begun # {} /\ l /\ ~done => TierCost(list, i, b) = Cardinality(begun) * f
      /\ begun # {} /\ ~l /\ ~done => TierCost(list, i, b) = f
  BY Zenon DEF TierCost
<1>4. b <= s => begun = {}
  <2> SUFFICES ASSUME b <= s, NEW k \in 0 .. b PROVE ~(s + k * m < b)
    BY <1>2
  <2>1. k * m >= 0 /\ k * m \in Int
    BY <1>1
  <2> QED
    BY <1>1, <2>1
<1>5. s < b => begun # {} /\ Cardinality(begun) = Blocks(b - s, m)
  BY <1>1, <1>2, BlocksBegun, Zenon
<1>6. b <= s \/ s < b
  BY <1>1
<1>7. ~(b <= s /\ s < b)
  BY <1>1
<1> QED
  BY <1>3, <1>4, <1>5, <1>6, <1>7

\* A tier charged after s minutes, of which a stay of b leaves b - s, unless
\* a tier before it took them all.
LEMMA TierCharged ==
  ASSUME NEW t, t.minutes \in Nat, t.minutes > 0, t.fee \in Nat, t.last \in BOOLEAN,
         NEW w, w.total \in Nat, NEW s \in Nat, NEW b \in Nat, NEW done \in BOOLEAN,
         w.remaining = IF done \/ b <= s THEN 0 ELSE b - s,
         NEW cost, cost = IF done \/ b <= s THEN 0
                          ELSE IF t.last THEN Blocks(b - s, t.minutes) * t.fee ELSE t.fee
  PROVE  /\ cost \in Nat
         /\ Charge(w, t).total = w.total + cost
         /\ Charge(w, t).remaining =
              IF done \/ t.last \/ b <= s + t.minutes THEN 0 ELSE b - (s + t.minutes)
<1>1. CASE done \/ b <= s
  BY <1>1 DEF Charge
<1>2. CASE ~(done \/ b <= s) /\ t.last
  <2> PICK r, x : r = b - s /\ x = Blocks(b - s, t.minutes) * t.fee
    OBVIOUS
  <2>1. r \in Nat /\ r > 0 /\ w.remaining = r
    BY <1>2
  <2>5. r \in Int /\ t.minutes \in Int
    BY <2>1
  <2>2. Blocks(r, t.minutes) \in Nat
    BY <2>1, <2>5, BlocksUp, Zenon
  <2>3. x \in Nat /\ x = Blocks(r, t.minutes) * t.fee
    BY <2>2
  <2>4. Charge(w, t) = [total |-> w.total + x, remaining |-> 0]
    BY <1>2, <2>1, <2>3 DEF Charge
  <2> QED
    BY <1>2, <2>3, <2>4
<1>3. CASE ~(done \/ b <= s) /\ ~t.last
  BY <1>3 DEF Charge
<1> QED
  BY <1>1, <1>2, <1>3

LEMMA TierFeeIsSum ==
  ASSUME NEW list, GoodTiers(list), NEW b \in Nat
  PROVE  /\ TierFee(list, b) = SumFunction([i \in DOMAIN list |-> TierCost(list, i, b)])
         /\ TierFee(list, b) \in Nat
<1>0. PICK w, c, n : /\ w = Walk(list, b)
                     /\ c = [i \in DOMAIN list |-> TierCost(list, i, b)]
                     /\ n = Len(list)
  OBVIOUS
<1>1. n \in Nat /\ DOMAIN list = 1 .. n
  BY <1>0, TiersTyped
<1>2. /\ w[0] = [total |-> 0, remaining |-> b]
      /\ \A i \in 1 .. n : w[i] = Charge(w[i - 1], list[i])
  <2>1. /\ Walk(list, b)[0] = [total |-> 0, remaining |-> b]
        /\ \A i \in 1 .. Len(list) :
             Walk(list, b)[i] = Charge(Walk(list, b)[i - 1], list[i])
    BY TiersTyped, WalkSteps
  <2> QED
    BY <1>0, <2>1
<1> DEFINE Done(i) == \E j \in 1 .. i : list[j].last
           Walked(i) == /\ \A j \in 1 .. i : c[j] \in Nat
                        /\ w[i].total = SumFunctionOnSet(c, 1 .. i)
                        /\ w[i].total \in Nat
                        /\ w[i].remaining = IF Done(i) \/ b <= Start(list, i + 1) THEN 0
                                            ELSE b - Start(list, i + 1)
           T == {i \in Nat : i <= n => Walked(i)}
<1>3. 0 \in T
  <2>1. SumFunctionOnSet(c, 1 .. 0) = 0
    BY FS_EmptySet, SumFirst, 1 .. 0 = {}
  <2>2. Start(list, 0 + 1) = 0 /\ ~Done(0)
    BY StartSteps
  <2> QED
    BY <1>2, <2>1, <2>2
<1>4. ASSUME NEW i \in 1 .. n, Walked(i - 1) PROVE Walked(i)
  <2>0. PICK s, t, d, v : s = Start(list, i) /\ d = i - 1 /\ v = w[d] /\ t = list[i]
    OBVIOUS
  <2>1. /\ s \in Nat /\ Start(list, i + 1) = s + t.minutes
        /\ i \in Nat /\ d \in Nat /\ i = d + 1
    BY <1>0, <1>1, <2>0, StartSteps
  <2>2. /\ t.minutes \in Nat /\ t.minutes > 0 /\ t.fee \in Nat /\ t.last \in BOOLEAN
    BY <1>0, <2>0, TiersTyped
  <2>a. PICK done \in BOOLEAN : done = Done(d)
    OBVIOUS
  <2>3. Done(i) <=> done \/ t.last
    <3>1. 1 .. i = (1 .. d) \cup {i}
      BY <2>1
    <3> QED
      BY <2>0, <2>a, <3>1, Zenon
  <2>4. /\ v.total \in Nat
        /\ v.total = SumFunctionOnSet(c, 1 .. d)
        /\ v.remaining = IF done \/ b <= s THEN 0 ELSE b - s
        /\ w[i] = Charge(v, t)
        /\ \A j \in 1 .. d : c[j] \in Nat
    BY <1>2, <1>4, <2>0, <2>1, <2>a
  <2>b. PICK cost : cost = c[i]
    OBVIOUS
  <2>5. cost = IF done \/ b <= s THEN 0
               ELSE IF t.last THEN Blocks(b - s, t.minutes) * t.fee ELSE t.fee
    BY <1>0, <1>1, <2>0, <2>a, <2>b, TierCosts
  <2> HIDE DEF Walked, Done
  <2>6. /\ cost \in Nat
        /\ Charge(v, t).total = v.total + cost
        /\ Charge(v, t).remaining =
             IF done \/ t.last \/ b <= s + t.minutes THEN 0 ELSE b - (s + t.minutes)
    BY <2>1, <2>2, <2>4, <2>5, TierCharged
  <2>7. \A j \in 1 .. i : c[j] \in Nat
    <3> TAKE j \in 1 .. i
    <3>1. j \in 1 .. d \/ j = i
      BY <2>1
    <3> QED
      BY <2>4, <2>6, <2>b, <3>1
  <2>8. SumFunctionOnSet(c, 1 .. i) = SumFunctionOnSet(c, 1 .. i - 1) + c[i]
    <3>1. \A j \in 1 .. i : c[j] \in Int
      BY <2>7
    <3>2. i \in 1 .. i
      BY <1>1
    <3> QED
      BY <2>1, <3>1, <3>2, SumPrefix
  <2>9. w[i].total = SumFunctionOnSet(c, 1 .. i) /\ w[i].total \in Nat
    <3>1. SumFunctionOnSet(c, 1 .. i) = SumFunctionOnSet(c, 1 .. d) + cost
      BY <2>8, <2>0, <2>b
    <3> QED
      BY <2>4, <2>6, <3>1
  <2>10. w[i].remaining = IF Done(i) \/ b <= Start(list, i + 1) THEN 0
                          ELSE b - Start(list, i + 1)
    BY <2>1, <2>3, <2>4, <2>6
  <2> QED
    BY <2>7, <2>9, <2>10 DEF Walked
<1> HIDE DEF Walked
<1>5. ASSUME NEW i \in Nat, i \in T PROVE i + 1 \in T
  <2> SUFFICES ASSUME i + 1 <= n PROVE Walked(i + 1)
    OBVIOUS
  <2> PICK k : k = i + 1
    OBVIOUS
  <2>1. k \in 1 .. n /\ k - 1 = i /\ i <= n
    BY <1>1
  <2>2. Walked(k - 1)
    BY <1>5, <2>1
  <2> QED
    BY <1>4, <2>1, <2>2
<1>6. Nat \subseteq T
  <2> HIDE DEF T
  <2> QED
    BY <1>3, <1>5, NatInd
<1>7. Walked(n)
  BY <1>1, <1>6
<1>8. SumFunction(c) = SumFunctionOnSet(c, 1 .. n)
  BY <1>0, <1>1 DEF SumFunction
<1> QED
  BY <1>0, <1>7, <1>8 DEF TierFee, Walked

(***************************************************************************)
(* Holiday rates: what they make of a fee is a number, grows with the fee, *)
(* and is the average the document asks for.                               *)
(***************************************************************************)

GoodRates(found) ==
  IsFiniteSet(DOMAIN found) /\
    \A r \in DOMAIN found : found[r] \in RateRows /\ ValidRate(found[r])

LEMMA Divided ==
  ASSUME NEW x \in Int, NEW y \in Int, NEW d \in Nat, d > 0, x <= y
  PROVE  /\ x \div d \in Int /\ y \div d \in Int
         /\ x >= 0 => x \div d \in Nat
         /\ x \div d <= y \div d
         /\ (x \div d) * d <= x /\ x < (x \div d + 1) * d
<1> PICK p \in Int, q \in Int : p = x \div d /\ q = y \div d
  OBVIOUS
<1>1. /\ p * d <= x /\ x < p * d + d
      /\ q * d <= y /\ y < q * d + d
  OBVIOUS
<1>2. (p + 1) * d = p * d + d /\ (q + 1) * d = q * d + d
  OBVIOUS
<1>3. p <= q
  <2> SUFFICES ASSUME q + 1 <= p PROVE FALSE
    OBVIOUS
  <2>1. (q + 1) * d <= p * d
    BY TimesUp
  <2> QED
    BY <1>1, <1>2, <2>1
<1>4. x >= 0 => p >= 0
  <2> SUFFICES ASSUME x >= 0, p + 1 <= 0 PROVE FALSE
    OBVIOUS
  <2>1. (p + 1) * d <= 0 * d
    BY TimesUp
  <2> QED
    BY <1>1, <1>2, <2>1
<1> QED
  BY <1>1, <1>2, <1>3, <1>4

LEMMA RatesValued ==
  ASSUME NEW found, GoodRates(found), NEW type, Of(found, type) # {}
  PROVE  /\ ValueOf(found, Of(found, type)) \in Nat
         /\ Cardinality(Of(found, type)) \in Nat /\ Cardinality(Of(found, type)) > 0
<1> PICK S, v : S = Of(found, type) /\ v = [r \in S |-> found[r].value]
  OBVIOUS
<1>1. S \subseteq DOMAIN found
  BY DEF Of
<1>2. IsFiniteSet(S)
  BY <1>1, FS_Subset DEF GoodRates
<1>3. \A r \in S : v[r] \in Nat
  <2> TAKE r \in S
  <2>1. found[r] \in RateRows /\ ValidRate(found[r])
    BY <1>1 DEF GoodRates
  <2>2. found[r].value \in Nat
    BY <2>1 DEF RateRows, ValidRate
  <2> QED
    BY <2>2
<1>4. SumFunctionOnSet(v, S) \in Nat
  BY <1>2, <1>3, SumIsNumber
<1>5. ValueOf(found, S) = SumFunctionOnSet(v, S)
  BY DEF ValueOf
<1>6. Cardinality(S) \in Nat /\ Cardinality(S) # 0
  BY <1>2, FS_CardinalityType, FS_EmptySet
<1> QED
  BY <1>4, <1>5, <1>6

LEMMA Averaged ==
  ASSUME NEW found, GoodRates(found), NEW type, Of(found, type) # {},
         NEW V, V = ValueOf(found, Of(found, type)),
         NEW n, n = Cardinality(Of(found, type)),
         NEW A, A = Average(found, Of(found, type))
  PROVE  /\ A \in Nat
         /\ A * (2 * n) <= 2 * V * Digits + n
         /\ 2 * V * Digits + n < (A + 1) * (2 * n)
<1>1. V \in Nat /\ n \in Nat /\ n > 0 /\ Digits \in Nat
  BY RatesValued, NumericAssumption
<1> PICK x, d : x = 2 * V * Digits + n /\ d = 2 * n
  OBVIOUS
<1>2. x \in Nat /\ d \in Nat /\ d > 0
  <2>1. V * Digits \in Nat
    BY <1>1
  <2>2. 2 * V * Digits = 2 * (V * Digits)
    BY <1>1
  <2> QED
    BY <1>1, <2>1, <2>2
<1>3. A = x \div d
  BY DEF Average
<1>4. A \in Nat /\ A * d <= x /\ x < (A + 1) * d
  BY <1>2, <1>3, Divided, x <= x, x >= 0
<1> QED
  BY <1>4

LEMMA RatesGrow ==
  ASSUME NEW found, GoodRates(found), NEW a \in Nat, NEW b \in Nat, a <= b
  PROVE  /\ ApplyHolidayRates(a, found) \in Nat /\ ApplyHolidayRates(b, found) \in Nat
         /\ ApplyHolidayRates(a, found) <= ApplyHolidayRates(b, found)
<1> PICK over, multi : over = Of(found, "override") /\ multi = Of(found, "multiplier")
  OBVIOUS
<1>1. CASE over # {}
  <2> PICK V, n : V = ValueOf(found, over) /\ n = Cardinality(over)
    OBVIOUS
  <2>1. V \in Nat /\ n \in Nat /\ n > 0
    BY <1>1, RatesValued
  <2>2. V \div n \in Nat
    BY <2>1, Divided, V <= V, V >= 0
  <2>3. ApplyHolidayRates(a, found) = V \div n /\ ApplyHolidayRates(b, found) = V \div n
    BY <1>1 DEF ApplyHolidayRates, Overridden
  <2> QED
    BY <2>2, <2>3
<1>2. CASE over = {} /\ multi # {}
  <2> PICK A, D : A = Average(found, multi) /\ D = 100 * Digits
    OBVIOUS
  <2>1. A \in Nat
    BY <1>2, Averaged
  <2>2. D \in Nat /\ D > 0
    BY NumericAssumption
  <2> PICK x, y : x = A * a /\ y = A * b
    OBVIOUS
  <2>3. x \in Nat /\ y \in Nat /\ x <= y
    <3>1. a * A <= b * A
      BY <2>1, TimesUp
    <3> QED
      BY <2>1, <3>1
  <2>4. x \div D \in Nat /\ y \div D \in Nat /\ x \div D <= y \div D
    BY <2>2, <2>3, Divided, x >= 0, y >= 0, y <= y
  <2>5. ApplyHolidayRates(a, found) = x \div D /\ ApplyHolidayRates(b, found) = y \div D
    BY <1>2 DEF ApplyHolidayRates, Multiplied
  <2> QED
    BY <2>4, <2>5
<1>3. CASE over = {} /\ multi = {}
  BY <1>3 DEF ApplyHolidayRates
<1> QED
  BY <1>1, <1>2, <1>3

(***************************************************************************)
(* The inductive invariant.                                                *)
(***************************************************************************)

Sized == clock \in 0 .. EndTime /\ faults \in 0 .. MaxFaults

\* A tariff that is stored keeps the tiers sent with it: all of them are
\* there, or none is; without the tariff there are none.
FeeRows ==
  /\ configs \in [ConfigIds -> ConfigRows \cup {None}]
  /\ sent \in [ConfigIds -> TierLists \cup {<<>>}]
  /\ DOMAIN tiers = ConfigIds
  /\ \A c \in ConfigIds : /\ GoodTiers(sent[c])
                          /\ tiers[c] \in {<<>>, sent[c]}
                          /\ configs[c] = None => tiers[c] = <<>>

HolidayRows ==
  /\ DOMAIN rates = RateIds
  /\ \A r \in RateIds : rates[r] # None => rates[r] \in RateRows /\ ValidRate(rates[r])

Creating ==
  /\ creating.pc \in {"none", "tiers"} /\ creating.id \in ConfigIds \cup {None}
  /\ creating.pc = "tiers" => creating.id \in ConfigIds /\ configs[creating.id] # None

Editing ==
  /\ editing.pc \in {"none", "write"} /\ editing.id \in RateIds \cup {None}
  /\ editing.pc = "write" =>
       editing.id \in RateIds /\ editing.rate \in RateRows /\ ValidRate(editing.rate)

\* What the calculation has read, and what it made of it.
ExitRow ==
  /\ exit = [pc |-> exit.pc, id |-> exit.id, pair |-> exit.pair, entry |-> exit.entry,
             minutes |-> exit.minutes, base |-> exit.base, grace |-> exit.grace,
             list |-> exit.list, found |-> exit.found, raw |-> exit.raw, fee |-> exit.fee]
  /\ exit.pc \in {"none", "tiers", "rates", "charged"}
  /\ exit.minutes \in Nat /\ exit.base \in Nat /\ exit.grace \in Nat /\ exit.fee \in Nat
  /\ exit.found = <<>> \/ DOMAIN exit.found \subseteq RateIds
  /\ GoodRates(exit.found) /\ GoodTiers(exit.list)

ExitReads ==
  exit.pc # "none" =>
    /\ exit.id \in ConfigIds /\ configs[exit.id] # None
    /\ exit.list \in {<<>>, sent[exit.id]}

Billable == exit.minutes - exit.grace
Tiered == exit.raw = exit.base + TierFee(exit.list, Billable)

ExitCharges ==
  /\ exit.pc = "tiers" => exit.fee = 0
  /\ exit.pc = "rates" => exit.minutes > 0 /\ Billable > 0 /\ Tiered
  /\ exit.pc = "charged" /\ exit.minutes <= 0 => exit.fee = 0
  /\ exit.pc = "charged" /\ exit.minutes > 0 /\ Billable <= 0 => exit.fee = exit.base
  /\ exit.pc = "charged" /\ exit.minutes > 0 /\ Billable > 0 =>
       Tiered /\ exit.fee = ApplyHolidayRates(exit.raw, exit.found)

Calculation == ExitRow /\ ExitReads /\ ExitCharges

TariffInv == Sized /\ FeeRows /\ HolidayRows /\ Creating /\ Editing /\ Calculation

USE DEF vars, fees

LEMMA EmptyGood == GoodTiers(<<>>) /\ GoodRates(<<>>) /\ DOMAIN <<>> = {}
<1>1. DOMAIN <<>> = {} /\ <<>> \in Seq(TierRows)
  OBVIOUS
<1> QED
  BY <1>1, FS_EmptySet DEF GoodTiers, GoodRates

LEMMA InitInv == Init => TariffInv
<1> SUFFICES ASSUME Init PROVE TariffInv
  OBVIOUS
<1> USE DEF Init
<1>1. Sized
  BY NumericAssumption DEF Sized
<1>2. FeeRows
  BY EmptyGood DEF FeeRows
<1>3. HolidayRows
  BY DEF HolidayRows
<1>4. Creating /\ Editing
  BY DEF Creating, Editing, NoConfig, NoEdit
<1>5. Calculation
  BY EmptyGood DEF Calculation, ExitRow, ExitReads, ExitCharges, NoExit
<1> QED
  BY <1>1, <1>2, <1>3, <1>4, <1>5 DEF TariffInv

\* What a fault may change.
LEMMA FaultSized == Sized /\ Fault => faults' \in 0 .. MaxFaults
BY NumericAssumption DEF Sized, Fault

\* The exit in progress keeps what it read while tariffs come and go: no
\* stored tariff disappears, and what was sent with it does not change.
Kept == \A c \in ConfigIds : configs[c] # None => configs'[c] # None /\ sent'[c] = sent[c]

LEMMA CalculationKept ==
  ASSUME Calculation, Kept, exit' = exit
  PROVE  Calculation'
<1>1. ExitRow'
  BY DEF Calculation, ExitRow
<1>2. ExitReads'
  BY DEF Calculation, ExitReads, Kept
<1>3. ExitCharges'
  BY DEF Calculation, ExitCharges, Billable, Tiered
<1> QED
  BY <1>1, <1>2, <1>3 DEF Calculation

LEMMA CreateInv ==
  ASSUME TariffInv, NEW c \in ConfigIds, NEW p \in Pairs, NEW tariff \in Tariffs,
         NEW list \in TierLists, NEW from \in Starts, NEW until \in Ends,
         CreateFeeConfig(c, p, tariff, list, from, until)
  PROVE  TariffInv'
<1> USE DEF CreateFeeConfig
<1> PICK row : row = [pair |-> p, base |-> tariff.base, grace |-> tariff.grace, active |-> TRUE,
                      from |-> from, until |-> until]
  OBVIOUS
<1>1. row \in ConfigRows /\ row # None
  <2>1. tariff \in [base : Nat, grace : Nat]
    BY InputAssumption
  <2>2. row \in ConfigRows
    <3>1. tariff.base \in Nat /\ tariff.grace \in Nat
      BY <2>1
    <3> QED
      BY <3>1 DEF ConfigRows
  <2> QED
    BY <2>2, NoneAssumption
<1>2. configs' = [configs EXCEPT ![c] = row]
  BY DEF InsertConfig
<1>3. GoodTiers(list)
  BY InputAssumption DEF ValidTiers, GoodTiers
<1>4. Kept
  BY <1>1, <1>2 DEF Kept, TariffInv, FeeRows
<1>5. Calculation'
  BY <1>4, CalculationKept DEF TariffInv
<1>6. FeeRows'
  <2>1. configs' \in [ConfigIds -> ConfigRows \cup {None}] /\ configs'[c] # None
    BY <1>1, <1>2 DEF TariffInv, FeeRows
  <2>2. sent' = [sent EXCEPT ![c] = list] /\ sent' \in [ConfigIds -> TierLists \cup {<<>>}]
    BY DEF TariffInv, FeeRows
  <2>3. tiers' = tiers /\ tiers[c] = <<>> /\ DOMAIN tiers = ConfigIds
    BY DEF TariffInv, FeeRows
  <2>4. ASSUME NEW d \in ConfigIds
        PROVE  /\ GoodTiers(sent'[d])
               /\ tiers'[d] \in {<<>>, sent'[d]}
               /\ configs'[d] = None => tiers'[d] = <<>>
    <3>1. CASE d = c
      BY <1>3, <2>2, <2>3, <3>1 DEF TariffInv, FeeRows
    <3>2. CASE d # c
      BY <1>2, <2>2, <2>3, <3>2 DEF TariffInv, FeeRows
    <3> QED
      BY <3>1, <3>2
  <2> QED
    BY <2>1, <2>2, <2>3, <2>4 DEF FeeRows
<1>7. Creating'
  <2>1. configs'[c] # None
    BY <1>1, <1>2 DEF TariffInv, FeeRows
  <2> QED
    BY <1>4, <2>1 DEF TariffInv, Creating, Kept
<1>8. Sized' /\ HolidayRows' /\ Editing'
  BY DEF TariffInv, Sized, HolidayRows, Editing
<1> QED
  BY <1>5, <1>6, <1>7, <1>8 DEF TariffInv

LEMMA ConfigInv ==
  ASSUME TariffInv, ConfigHandlers
  PROVE  TariffInv'
<1>1. CASE \E c \in ConfigIds, p \in Pairs, tariff \in Tariffs, list \in TierLists,
             from \in Starts, until \in Ends : CreateFeeConfig(c, p, tariff, list, from, until)
  BY <1>1, CreateInv
<1>2. CASE CreateTiers
  <2> USE <1>2 DEF CreateTiers
  <2>1. Kept
    BY DEF Kept
  <2>2. Calculation'
    BY <2>1, CalculationKept DEF TariffInv
  <2>3. FeeRows'
    <3>1. creating.id \in ConfigIds /\ configs[creating.id] # None
      BY DEF TariffInv, Creating
    <3>2. \/ tiers' = tiers
          \/ tiers' = [tiers EXCEPT ![creating.id] = sent[creating.id]]
      BY DEF CreateBatch
    <3>3. \A d \in ConfigIds : tiers'[d] \in {<<>>, sent[d]} /\ (configs[d] = None => tiers'[d] = <<>>)
      BY <3>1, <3>2 DEF TariffInv, FeeRows
    <3>4. DOMAIN tiers' = ConfigIds
      BY <3>2 DEF TariffInv, FeeRows
    <3> QED
      BY <3>3, <3>4 DEF TariffInv, FeeRows
  <2>4. Sized'
    BY FaultSized DEF TariffInv, Sized
  <2>5. Creating'
    BY DEF Creating, NoConfig
  <2>6. HolidayRows' /\ Editing'
    BY DEF TariffInv, HolidayRows, Editing
  <2> QED
    BY <2>2, <2>3, <2>4, <2>5, <2>6 DEF TariffInv
<1>3. ASSUME NEW c \in ConfigIds, DeactivateFeeConfig(c) PROVE TariffInv'
  <2> USE <1>3 DEF DeactivateFeeConfig, Deactivate
  <2>1. configs[c] \in ConfigRows /\ configs' = [configs EXCEPT ![c].active = FALSE]
    BY DEF TariffInv, FeeRows
  <2>2. [configs[c] EXCEPT !.active = FALSE] \in ConfigRows
    BY <2>1 DEF ConfigRows
  <2>3. [configs[c] EXCEPT !.active = FALSE] # None
    BY <2>2, NoneAssumption
  <2>4. configs' \in [ConfigIds -> ConfigRows \cup {None}]
    BY <2>1, <2>2 DEF TariffInv, FeeRows
  <2>5. \A d \in ConfigIds : configs'[d] = None <=> configs[d] = None
    BY <2>1, <2>3 DEF TariffInv, FeeRows
  <2>6. Kept
    BY <2>5 DEF Kept
  <2>7. Calculation'
    BY <2>6, CalculationKept DEF TariffInv
  <2>8. FeeRows'
    BY <2>4, <2>5 DEF TariffInv, FeeRows
  <2>9. Creating'
    BY <2>5 DEF TariffInv, Creating
  <2>10. Sized' /\ HolidayRows' /\ Editing'
    BY DEF TariffInv, Sized, HolidayRows, Editing
  <2> QED
    BY <2>7, <2>8, <2>9, <2>10 DEF TariffInv
<1> QED
  BY <1>1, <1>2, <1>3 DEF ConfigHandlers

LEMMA RateInv ==
  ASSUME TariffInv, RateHandlers
  PROVE  TariffInv'
<1>1. ASSUME UNCHANGED <<fees, creating, exit, clock>>, faults' \in 0 .. MaxFaults
      PROVE  Sized' /\ FeeRows' /\ Creating' /\ Calculation'
  <2>1. Kept
    BY <1>1 DEF Kept
  <2>2. Calculation'
    BY <1>1, <2>1, CalculationKept DEF TariffInv
  <2>3. Sized' /\ FeeRows' /\ Creating'
    BY <1>1 DEF TariffInv, Sized, FeeRows, Creating
  <2> QED
    BY <2>2, <2>3
<1>2. faults \in 0 .. MaxFaults
  BY DEF TariffInv, Sized
<1>3. ASSUME NEW r \in RateIds, NEW rate \in RateRequests, CreateHolidayRate(r, rate)
      PROVE  TariffInv'
  <2> USE <1>3 DEF CreateHolidayRate
  <2>1. rate \in RateRows /\ ValidRate(rate)
    BY InputAssumption
  <2>2. HolidayRows'
    BY <2>1 DEF TariffInv, HolidayRows
  <2>3. Editing'
    BY DEF TariffInv, Editing
  <2> QED
    BY <1>1, <1>2, <2>2, <2>3 DEF TariffInv
<1>4. ASSUME NEW r \in RateIds, NEW rate \in RateRequests, UpdateHolidayRateRead(r, rate)
      PROVE  TariffInv'
  <2> USE <1>4 DEF UpdateHolidayRateRead
  <2>1. rate \in RateRows /\ rates[r] \in RateRows
    BY InputAssumption DEF TariffInv, HolidayRows
  <2>2. /\ [rates[r] EXCEPT !.start = rate.start, !.end = rate.end] \in RateRows
        /\ [rates[r] EXCEPT !.type = rate.type, !.value = rate.value] \in RateRows
    BY <2>1 DEF RateRows
  <2>3. Editing'
    BY <2>2 DEF Editing
  <2>4. HolidayRows'
    BY DEF TariffInv, HolidayRows
  <2> QED
    BY <1>1, <1>2, <2>3, <2>4 DEF TariffInv
<1>5. CASE UpdateHolidayRateWrite
  <2> USE <1>5 DEF UpdateHolidayRateWrite
  <2>1. faults' \in 0 .. MaxFaults
    BY <1>2, FaultSized DEF TariffInv
  <2>2. HolidayRows'
    <3>1. editing.id \in RateIds /\ editing.rate \in RateRows /\ ValidRate(editing.rate)
      BY DEF TariffInv, Editing
    <3>2. \/ rates' = rates
          \/ rates' = [rates EXCEPT ![editing.id] = IF @ = None THEN @ ELSE editing.rate]
      BY DEF UpdateRate
    <3> QED
      BY <3>1, <3>2 DEF TariffInv, HolidayRows
  <2>3. Editing'
    BY DEF Editing, NoEdit
  <2> QED
    BY <1>1, <2>1, <2>2, <2>3 DEF TariffInv
<1>6. ASSUME NEW r \in RateIds, DeleteHolidayRate(r) PROVE TariffInv'
  <2> USE <1>6 DEF DeleteHolidayRate, DeleteRate
  <2>1. HolidayRows' /\ Editing'
    BY DEF TariffInv, HolidayRows, Editing
  <2> QED
    BY <1>1, <1>2, <2>1 DEF TariffInv
<1> QED
  BY <1>3, <1>4, <1>5, <1>6 DEF RateHandlers

LEMMA ExitInv ==
  ASSUME TariffInv, CalculateExitFee
  PROVE  TariffInv'
<1>1. ASSUME UNCHANGED <<fees, rates, creating, editing, clock>>, faults' \in 0 .. MaxFaults
      PROVE  Sized' /\ FeeRows' /\ HolidayRows' /\ Creating' /\ Editing'
  BY <1>1 DEF TariffInv, Sized, FeeRows, HolidayRows, Creating, Editing
<1>2. faults \in 0 .. MaxFaults /\ clock \in Nat
  BY NumericAssumption DEF TariffInv, Sized
<1>3. ASSUME NEW p \in Pairs, NEW entry \in Entries, FindConfig(p, entry) PROVE TariffInv'
  <2> USE <1>3 DEF FindConfig
  <2>1. PICK c \in Effective(p) :
          exit' = [NoExit EXCEPT !.pc = "tiers", !.id = c, !.pair = p, !.entry = entry,
                     !.minutes = clock - entry, !.base = configs[c].base,
                     !.grace = configs[c].grace]
    OBVIOUS
  <2>2. c \in ConfigIds /\ configs[c] # None /\ configs[c] \in ConfigRows
    BY DEF TariffInv, FeeRows, Effective, Stored
  <2>3. configs[c].base \in Nat /\ configs[c].grace \in Nat
    BY <2>2 DEF ConfigRows
  <2>4. clock - entry \in Nat
    BY <1>2, NumericAssumption
  <2>5. exit' = [pc |-> "tiers", id |-> c, pair |-> p, entry |-> entry,
                 minutes |-> clock - entry, base |-> configs[c].base,
                 grace |-> configs[c].grace, list |-> <<>>, found |-> <<>>, raw |-> 0, fee |-> 0]
    BY <2>1 DEF NoExit
  <2>6. ExitRow'
    BY <2>3, <2>4, <2>5, EmptyGood DEF ExitRow
  <2>7. ExitReads' /\ ExitCharges'
    BY <2>2, <2>5 DEF ExitReads, ExitCharges
  <2> QED
    BY <1>1, <1>2, <2>6, <2>7 DEF TariffInv, Calculation
<1>4. CASE RawFee
  <2> USE <1>4 DEF RawFee
  <2>0. PICK list, raw : list = tiers[exit.id] /\ raw = exit.base + TierFee(list, Billable)
    OBVIOUS
  <2>1. /\ exit.id \in ConfigIds /\ configs[exit.id] # None /\ ExitRow
    BY DEF TariffInv, Calculation, ExitReads
  <2>2. GoodTiers(list) /\ list \in {<<>>, sent[exit.id]}
    BY <2>0, <2>1, EmptyGood DEF TariffInv, FeeRows
  <2>3. \/ exit.minutes <= 0 /\ exit' = [exit EXCEPT !.pc = "charged"]
        \/ /\ exit.minutes > 0 /\ Billable <= 0
           /\ exit' = [exit EXCEPT !.pc = "charged", !.list = list, !.fee = exit.base]
        \/ /\ exit.minutes > 0 /\ Billable > 0
           /\ exit' = [exit EXCEPT !.pc = "rates", !.list = list, !.raw = raw]
    BY <2>0, <2>1 DEF Billable, ExitRow
  <2>4. ExitRow'
    <3>1. CASE exit' = [exit EXCEPT !.pc = "charged"]
      BY <2>1, <3>1 DEF ExitRow
    <3>2. CASE exit' = [exit EXCEPT !.pc = "charged", !.list = list, !.fee = exit.base]
      BY <2>1, <2>2, <3>2 DEF ExitRow
    <3>3. CASE exit' = [exit EXCEPT !.pc = "rates", !.list = list, !.raw = raw]
      BY <2>1, <2>2, <3>3 DEF ExitRow
    <3> QED
      BY <2>3, <3>1, <3>2, <3>3
  <2>5. ExitReads'
    <3>1. exit'.id = exit.id /\ exit'.list \in {exit.list, list}
      <4>1. CASE exit' = [exit EXCEPT !.pc = "charged"]
        BY <2>1, <4>1 DEF ExitRow
      <4>2. CASE exit' = [exit EXCEPT !.pc = "charged", !.list = list, !.fee = exit.base]
        BY <2>1, <4>2 DEF ExitRow
      <4>3. CASE exit' = [exit EXCEPT !.pc = "rates", !.list = list, !.raw = raw]
        BY <2>1, <4>3 DEF ExitRow
      <4> QED
        BY <2>3, <4>1, <4>2, <4>3
    <3>2. exit.list \in {<<>>, sent[exit.id]}
      BY DEF TariffInv, Calculation, ExitReads
    <3> QED
      BY <2>1, <2>2, <3>1, <3>2 DEF ExitReads
  <2>6. ExitCharges'
    <3>1. exit.fee = 0
      BY DEF TariffInv, Calculation, ExitCharges
    <3>2. CASE exit.minutes <= 0 /\ exit' = [exit EXCEPT !.pc = "charged"]
      BY <2>1, <3>1, <3>2 DEF ExitRow, ExitCharges
    <3>3. CASE /\ exit.minutes > 0 /\ Billable <= 0
               /\ exit' = [exit EXCEPT !.pc = "charged", !.list = list, !.fee = exit.base]
      BY <2>1, <3>3 DEF ExitRow, ExitCharges, Billable
    <3>4. CASE /\ exit.minutes > 0 /\ Billable > 0
               /\ exit' = [exit EXCEPT !.pc = "rates", !.list = list, !.raw = raw]
      BY <2>0, <2>1, <3>4 DEF ExitRow, ExitCharges, Billable, Tiered
    <3> QED
      BY <2>3, <3>2, <3>3, <3>4
  <2> QED
    BY <1>1, <1>2, <2>4, <2>5, <2>6 DEF TariffInv, Calculation
<1>5. CASE HolidayFee
  <2> USE <1>5 DEF HolidayFee
  <2>0. PICK found : found = [r \in RatesOn(exit.entry \div Day, exit.pair) |-> rates[r]]
    OBVIOUS
  <2>1. exit' = [exit EXCEPT !.pc = "charged", !.found = found,
                   !.fee = ApplyHolidayRates(exit.raw, found)]
    BY <2>0
  <2>2. DOMAIN found \subseteq RateIds /\ GoodRates(found)
    <3>1. DOMAIN found \subseteq RateIds /\ \A r \in DOMAIN found : found[r] = rates[r] /\ rates[r] # None
      BY <2>0 DEF RatesOn
    <3>2. IsFiniteSet(DOMAIN found)
      BY <3>1, FiniteAssumption, FS_Subset
    <3> QED
      BY <3>1, <3>2 DEF GoodRates, TariffInv, HolidayRows
  <2>3. ExitRow /\ ExitReads /\ exit.minutes > 0 /\ Billable > 0 /\ Tiered
    BY DEF TariffInv, Calculation, ExitCharges
  <2>4. Billable \in Nat
    BY <2>3 DEF Billable, ExitRow
  <2>5. exit.raw \in Nat
    <3>1. TierFee(exit.list, Billable) \in Nat
      BY <2>3, <2>4, TierFeeGrows, Billable <= Billable DEF ExitRow
    <3> QED
      BY <2>3, <3>1 DEF Tiered, ExitRow
  <2>6. ApplyHolidayRates(exit.raw, found) \in Nat
    BY <2>2, <2>5, RatesGrow, exit.raw <= exit.raw
  <2>7. ExitRow'
    BY <2>1, <2>2, <2>3, <2>6 DEF ExitRow
  <2>8. ExitReads'
    BY <2>1, <2>3 DEF ExitReads, ExitRow
  <2>9. ExitCharges'
    BY <2>1, <2>3 DEF ExitCharges, ExitRow, Billable, Tiered
  <2> QED
    BY <1>1, <1>2, <2>7, <2>8, <2>9 DEF TariffInv, Calculation
<1>6. CASE ExitReturns
  <2> USE <1>6 DEF ExitReturns
  <2>1. faults' \in 0 .. MaxFaults
    BY <1>2, FaultSized DEF TariffInv
  <2>2. Calculation'
    BY EmptyGood DEF Calculation, ExitRow, ExitReads, ExitCharges, NoExit
  <2> QED
    BY <1>1, <2>1, <2>2 DEF TariffInv
<1> QED
  BY <1>3, <1>4, <1>5, <1>6 DEF CalculateExitFee

LEMMA NextInv == TariffInv /\ [Next]_vars => TariffInv'
<1> SUFFICES ASSUME TariffInv, [Next]_vars PROVE TariffInv'
  OBVIOUS
<1>1. ASSUME UNCHANGED <<fees, rates>>, Sized', Creating', Editing', Calculation'
      PROVE  TariffInv'
  BY <1>1 DEF TariffInv, FeeRows, HolidayRows
<1>2. ASSUME UNCHANGED <<fees, rates, creating, editing, exit>>, Sized' PROVE TariffInv'
  <2>1. Kept
    BY <1>2 DEF Kept
  <2>2. Calculation'
    BY <1>2, <2>1, CalculationKept DEF TariffInv
  <2>3. Creating' /\ Editing'
    BY <1>2 DEF TariffInv, Creating, Editing
  <2> QED
    BY <1>1, <1>2, <2>2, <2>3
<1>3. CASE Tick
  <2>1. Sized'
    BY <1>3, NumericAssumption DEF Tick, TariffInv, Sized
  <2> QED
    BY <1>2, <1>3, <2>1 DEF Tick
<1>4. CASE Restart
  <2>1. Sized'
    BY <1>4, FaultSized DEF Restart, TariffInv, Sized
  <2>2. Calculation'
    BY <1>4, EmptyGood DEF Restart, Calculation, ExitRow, ExitReads, ExitCharges, NoExit
  <2>3. Creating' /\ Editing'
    BY <1>4 DEF Restart, Creating, Editing, NoConfig, NoEdit
  <2> QED
    BY <1>1, <1>4, <2>1, <2>2, <2>3 DEF Restart
<1>5. CASE UNCHANGED vars
  <2>1. Sized'
    BY <1>5 DEF TariffInv, Sized
  <2> QED
    BY <1>2, <1>5, <2>1
<1> QED
  BY <1>3, <1>4, <1>5, ConfigInv, RateInv, ExitInv DEF Next

LEMMA TariffInvHolds == Spec => []TariffInv
<1> QED
  BY InitInv, NextInv, PTL DEF Spec

(***************************************************************************)
(* What the decimal average of the multipliers is off by.                  *)
(***************************************************************************)

\* While the rates found times the fee stay under twice the digits kept, the
\* fee multiplied is never above the one due, and at most one rupiah below.
LEMMA MultipliedNear ==
  ASSUME NEW found, GoodRates(found), Of(found, "multiplier") # {},
         NEW n, n = Cardinality(Of(found, "multiplier")),
         NEW V, V = ValueOf(found, Of(found, "multiplier")),
         NEW raw \in Nat, n * raw < 2 * Digits,
         NEW fee, fee = Multiplied(raw, found, Of(found, "multiplier"))
  PROVE  /\ fee \in Nat
         /\ fee * (100 * n) <= raw * V
         /\ raw * V <= (fee + 1) * (100 * n)
<1>0. PICK A, D, K : /\ A = Average(found, Of(found, "multiplier"))
                     /\ D = Digits /\ K = 100 * Digits
  OBVIOUS
<1>1. n \in Nat /\ n > 0 /\ V \in Nat /\ D \in Nat /\ D > 0 /\ K \in Nat /\ K > 0 /\ K = 100 * D
  BY <1>0, RatesValued, NumericAssumption
<1>2. A \in Nat /\ A * (2 * n) <= 2 * V * D + n /\ 2 * V * D + n < (A + 1) * (2 * n)
  BY <1>0, Averaged
<1>3. PICK P \in Nat : P = A * raw
  BY <1>2
<1>4. fee = P \div K
  BY <1>0, <1>3 DEF Multiplied
<1>5. fee \in Nat /\ fee * K <= P /\ P < (fee + 1) * K
  BY <1>1, <1>4, Divided, P <= P, P >= 0
<1>6. PICK Q \in Nat, N \in Nat, F \in Nat, G \in Nat :
         Q = raw * V /\ N = n * raw /\ F = fee * (100 * n) /\ G = (fee + 1) * (100 * n)
  <2>1. raw * V \in Nat /\ n * raw \in Nat
    BY <1>1
  <2>2. fee * (100 * n) \in Nat /\ (fee + 1) * (100 * n) \in Nat
    BY <1>1, <1>5
  <2> QED
    BY <2>1, <2>2
<1>7. PICK Y \in Nat, Z \in Nat : Y = n * P /\ Z = D * Q
  BY <1>1
<1>8. 2 * Y <= 2 * Z + N
  <2>1. (A * (2 * n)) * raw <= (2 * V * D + n) * raw
    BY <1>1, <1>2, TimesUp
  <2>2. (A * (2 * n)) * raw = 2 * (n * (A * raw))
    BY <1>1, <1>2
  <2>3. (2 * V * D + n) * raw = 2 * (D * (raw * V)) + n * raw
    BY <1>1
  <2> QED
    BY <1>3, <1>6, <1>7, <2>1, <2>2, <2>3
<1>9. 2 * Z + N <= 2 * Y + 2 * N
  <2>1. (2 * V * D + n) * raw <= ((A + 1) * (2 * n)) * raw
    BY <1>1, <1>2, TimesUp
  <2>2. ((A + 1) * (2 * n)) * raw = 2 * (n * (A * raw)) + 2 * (n * raw)
    BY <1>1, <1>2
  <2>3. (2 * V * D + n) * raw = 2 * (D * (raw * V)) + n * raw
    BY <1>1
  <2> QED
    BY <1>3, <1>6, <1>7, <2>1, <2>2, <2>3
<1>10. F * D <= Y
  <2>1. (fee * K) * n <= P * n
    BY <1>1, <1>5, TimesUp
  <2>2. (fee * (100 * D)) * n = (fee * (100 * n)) * D
    BY <1>1, <1>5
  <2>3. P * n = n * P
    BY <1>1
  <2> QED
    BY <1>1, <1>6, <1>7, <2>1, <2>2, <2>3
<1>11. Y + n <= G * D
  <2>1. (P + 1) * n <= ((fee + 1) * K) * n
    <3>1. PICK x : x = (fee + 1) * K
      OBVIOUS
    <3>2. x \in Int /\ P < x
      BY <1>1, <1>5, <3>1
    <3>3. P + 1 <= x
      BY <3>2
    <3>4. (P + 1) * n <= x * n
      BY <1>1, <3>2, <3>3, TimesUp
    <3> QED
      BY <3>1, <3>4
  <2>2. ((fee + 1) * (100 * D)) * n = ((fee + 1) * (100 * n)) * D
    BY <1>1, <1>5
  <2>3. (P + 1) * n = n * P + n
    BY <1>1
  <2> QED
    BY <1>1, <1>6, <1>7, <2>1, <2>2, <2>3
<1>12. N < 2 * D /\ Z = Q * D
  BY <1>0, <1>1, <1>6, <1>7
<1>13. F <= Q
  <2> SUFFICES ASSUME Q + 1 <= F PROVE FALSE
    OBVIOUS
  <2>1. (Q + 1) * D <= F * D
    BY <1>1, TimesUp
  <2>2. (Q + 1) * D = Q * D + D
    BY <1>1
  <2> QED
    BY <1>1, <1>8, <1>10, <1>12, <2>1, <2>2
<1>14. Q <= G
  <2> SUFFICES ASSUME G + 1 <= Q PROVE FALSE
    OBVIOUS
  <2>1. (G + 1) * D <= Q * D
    BY <1>1, TimesUp
  <2>2. (G + 1) * D = G * D + D
    BY <1>1
  <2> QED
    BY <1>1, <1>9, <1>11, <1>12, <2>1, <2>2
<1> QED
  BY <1>5, <1>6, <1>13, <1>14

(***************************************************************************)
(* Theorems.                                                               *)
(***************************************************************************)

\* Rows, requests and the calculation are well formed, whatever handlers and
\* exits do at the same time; a fee is never negative.
THEOREM TypeCorrect == Spec => []TypeOK
<1>1. ASSUME TariffInv PROVE TypeOK
  <2> USE <1>1 DEF TariffInv
  <2>1. ASSUME NEW c \in Stored
        PROVE  /\ configs[c].pair \in Pairs /\ configs[c].active \in BOOLEAN
               /\ configs[c].from \in Starts /\ configs[c].until \in Ends
    BY DEF FeeRows, Stored, ConfigRows
  <2>2. ASSUME NEW c \in ConfigIds
        PROVE  sent[c] \in TierLists \cup {<<>>} /\ \A i \in DOMAIN sent[c] : sent[c][i].minutes > 0
    BY DEF FeeRows, GoodTiers
  <2>3. ASSUME NEW r \in RateIds, rates[r] # None
        PROVE  ValidRate(rates[r]) /\ rates[r].applies \subseteq Pairs
    BY <2>3 DEF HolidayRows, RateRows
  <2>4. DOMAIN exit.found \subseteq RateIds
    BY EmptyGood DEF Calculation, ExitRow
  <2> QED
    BY <2>1, <2>2, <2>3, <2>4 DEF TypeOK, Sized, Creating, Editing, Calculation, ExitRow
<1> QED
  BY <1>1, TariffInvHolds, PTL

\* An exit that finds a tariff between its two inserts, or after the second
\* one failed, is charged by no tier; it is never charged by some of them,
\* and never by those of another tariff.
THEOREM TiersAtOnce == Spec => []AllTiersOrNone
<1>1. TariffInv => AllTiersOrNone
  BY DEF TariffInv, Calculation, ExitReads, AllTiersOrNone
<1> QED
  BY <1>1, TariffInvHolds, PTL

\* For every list of tiers and all holiday rates: past the grace period, a
\* shorter stay would not have cost more.
THEOREM NoGainInStaying == Spec => []LongerPaysNoLess
<1>1. ASSUME TariffInv PROVE LongerPaysNoLess
  <2> SUFFICES ASSUME exit.pc = "charged", NEW a \in 1 .. exit.minutes - exit.grace
               PROVE  ApplyHolidayRates(exit.base + TierFee(exit.list, a), exit.found) <= exit.fee
    BY DEF LongerPaysNoLess
  <2>1. ExitRow /\ ExitCharges
    BY <1>1 DEF TariffInv, Calculation
  <2>2. exit.minutes \in Nat /\ exit.grace \in Nat /\ exit.base \in Nat
    BY <2>1 DEF ExitRow
  <2>3. PICK b : b = Billable
    OBVIOUS
  <2>4. b \in Nat /\ a \in Nat /\ a <= b /\ b > 0 /\ exit.minutes > 0
    BY <2>2, <2>3 DEF Billable
  <2>5. exit.raw = exit.base + TierFee(exit.list, b) /\ exit.fee = ApplyHolidayRates(exit.raw, exit.found)
    BY <2>1, <2>3, <2>4 DEF ExitCharges, Tiered
  <2>6. PICK x, y : x = TierFee(exit.list, a) /\ y = TierFee(exit.list, b)
    OBVIOUS
  <2>7. GoodTiers(exit.list) /\ GoodRates(exit.found)
    BY <2>1 DEF ExitRow
  <2>8. x \in Nat /\ y \in Nat /\ x <= y
    BY <2>4, <2>6, <2>7, TierFeeGrows
  <2>9. exit.base + x \in Nat /\ exit.base + y \in Nat /\ exit.base + x <= exit.base + y
    BY <2>2, <2>8
  <2>10. ApplyHolidayRates(exit.base + x, exit.found) <= ApplyHolidayRates(exit.base + y, exit.found)
    BY <2>7, <2>9, RatesGrow
  <2> QED
    BY <2>5, <2>6, <2>10
<1> QED
  BY <1>1, TariffInvHolds, PTL

\* The digits of the average decide a rupiah only for larger fees: a decimal
\* keeps sixteen.
Affordable == Cardinality(Of(exit.found, "multiplier")) * exit.raw < 2 * Digits

\* For every list of tiers and all holiday rates: the walk over the tiers and
\* the two averages charge the fee as it is defined.
THEOREM ChargedAsDefined == Spec => [](Affordable => FeeAsDefined)
<1>1. ASSUME TariffInv, Affordable PROVE FeeAsDefined
  <2>0. PICK b, raw, over, multi, found :
          /\ b = Billable /\ raw = DefinedRaw(exit.base, exit.list, b) /\ found = exit.found
          /\ over = Of(found, "override") /\ multi = Of(found, "multiplier")
    OBVIOUS
  <2>1. ExitRow /\ ExitCharges /\ GoodTiers(exit.list) /\ GoodRates(found)
    BY <1>1, <2>0 DEF TariffInv, Calculation, ExitRow
  <2>2. exit.minutes \in Nat /\ exit.grace \in Nat /\ exit.base \in Nat /\ b \in Int
    BY <2>0, <2>1 DEF ExitRow, Billable
  <2>3. exit.pc = "charged" =>
          /\ exit.minutes <= 0 => exit.fee = 0
          /\ exit.minutes > 0 /\ b <= 0 => exit.fee = exit.base
    BY <2>0, <2>1 DEF ExitCharges
  <2>4. ASSUME exit.pc = "charged", exit.minutes > 0, b > 0
        PROVE  /\ raw \in Nat /\ raw = exit.raw
               /\ exit.fee = ApplyHolidayRates(raw, found)
    <3>1. exit.raw = exit.base + TierFee(exit.list, b) /\ exit.fee = ApplyHolidayRates(exit.raw, found)
      BY <2>0, <2>1, <2>4 DEF ExitCharges, Tiered
    <3>2. b \in Nat
      BY <2>2, <2>4
    <3>3. PICK x : x = TierFee(exit.list, b)
      OBVIOUS
    <3>4. /\ x = SumFunction([i \in DOMAIN exit.list |-> TierCost(exit.list, i, b)])
          /\ x \in Nat
      BY <2>1, <3>2, <3>3, TierFeeIsSum
    <3>5. raw = exit.base + x
      BY <2>0, <3>4 DEF DefinedRaw
    <3> QED
      BY <2>2, <3>1, <3>3, <3>4, <3>5
  <2>5. ASSUME exit.pc = "charged", exit.minutes > 0, b > 0, over # {}
        PROVE  /\ exit.fee * Cardinality(over) <= ValueOf(found, over)
               /\ ValueOf(found, over) < (exit.fee + 1) * Cardinality(over)
    <3>1. PICK V, n : V = ValueOf(found, over) /\ n = Cardinality(over)
      OBVIOUS
    <3>2. V \in Nat /\ n \in Nat /\ n > 0
      BY <2>0, <2>1, <2>5, <3>1, RatesValued
    <3>3. exit.fee = V \div n
      BY <2>0, <2>4, <2>5, <3>1 DEF ApplyHolidayRates, Overridden
    <3>4. (V \div n) * n <= V /\ V < (V \div n + 1) * n
      BY <3>2, Divided, V <= V
    <3> QED
      BY <3>1, <3>3, <3>4
  <2>6. ASSUME exit.pc = "charged", exit.minutes > 0, b > 0, over = {}, multi # {}
        PROVE  /\ exit.fee * (100 * Cardinality(multi)) <= raw * ValueOf(found, multi)
               /\ raw * ValueOf(found, multi) <= (exit.fee + 1) * (100 * Cardinality(multi))
    <3>1. exit.fee = Multiplied(raw, found, multi)
      BY <2>0, <2>4, <2>6 DEF ApplyHolidayRates
    <3>2. raw \in Nat /\ Cardinality(multi) * raw < 2 * Digits
      BY <1>1, <2>0, <2>4, <2>6 DEF Affordable
    <3> QED
      BY <2>0, <2>1, <2>6, <3>1, <3>2, MultipliedNear
  <2>7. ASSUME exit.pc = "charged", exit.minutes > 0, b > 0, over = {}, multi = {}
        PROVE  exit.fee = raw
    BY <2>0, <2>4, <2>7 DEF ApplyHolidayRates
  <2> QED
    BY <2>0, <2>2, <2>3, <2>5, <2>6, <2>7 DEF FeeAsDefined, Billable
<1> QED
  BY <1>1, TariffInvHolds, PTL

=============================================================================
