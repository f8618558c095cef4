------------------------------ MODULE DataLemmas ------------------------------
(***************************************************************************)
(* Facts about the data of the models: a queue that holds nobody twice, as *)
(* the connection's holds the callers that await a statement; the sum of   *)
(* f[i] over a finite set of indices, SumFunctionOnSet of the module       *)
(* Functions; and the order on the texts of DECIMAL values.                *)
(***************************************************************************)
EXTENDS Integers, Sequences, FiniteSets, Functions, DecimalOrder, FiniteSetTheorems,
        WellFoundedInduction, TLAPS

(* What is left when the first of the queue has been served.               *)
LEMMA TailDistinct ==
  ASSUME NEW S, NEW q \in Seq(S), q # <<>>, IsInjective(q)
  PROVE  /\ Head(q) \in S /\ \E j \in DOMAIN q : q[j] = Head(q)
         /\ Tail(q) \in Seq(S) /\ IsInjective(Tail(q))
         /\ \A i \in DOMAIN Tail(q) : /\ Tail(q)[i] \in S \ {Head(q)}
                                      /\ \E j \in DOMAIN q : q[j] = Tail(q)[i]
<1> DEFINE n == Len(q)
<1>1. n \in Nat /\ n >= 1 /\ DOMAIN q = 1..n /\ Head(q) = q[1] /\ q[1] \in S
  OBVIOUS
<1>2. /\ Tail(q) \in Seq(S) /\ DOMAIN Tail(q) = 1..(n - 1)
      /\ \A i \in 1..(n - 1) : Tail(q)[i] = q[i + 1]
  BY <1>1
<1>3. \A i \in 1..(n - 1) : i + 1 \in 1..n /\ i + 1 # 1 /\ q[i + 1] \in S
  BY <1>1
<1>4. \A i \in 1..(n - 1) : Tail(q)[i] \in S \ {q[1]}
  BY <1>1, <1>2, <1>3 DEF IsInjective
<1>5. IsInjective(Tail(q))
  BY <1>1, <1>2, <1>3 DEF IsInjective
<1> QED
  BY <1>1, <1>2, <1>3, <1>4, <1>5

(* What it becomes when somebody new joins at its end.                     *)
LEMMA AppendDistinct ==
  ASSUME NEW S, NEW q \in Seq(S), NEW x \in S, IsInjective(q),
         \A i \in DOMAIN q : q[i] # x
  PROVE  /\ Append(q, x) \in Seq(S) /\ IsInjective(Append(q, x))
         /\ \A i \in DOMAIN Append(q, x) :
              Append(q, x)[i] = x \/ \E j \in DOMAIN q : q[j] = Append(q, x)[i]
<1> DEFINE n == Len(q)
           longer == Append(q, x)
<1>1. n \in Nat /\ DOMAIN q = 1..n
  OBVIOUS
<1>2. /\ longer \in Seq(S) /\ DOMAIN longer = 1..(n + 1) /\ longer[n + 1] = x
      /\ \A i \in 1..n : longer[i] = q[i]
  BY <1>1
<1> HIDE DEF n, longer
<1>3. \A i \in 1..(n + 1) : i = n + 1 \/ i \in 1..n
  BY <1>1
<1>4. IsInjective(longer)
  BY <1>1, <1>2, <1>3 DEF IsInjective
<1>5. \A i \in DOMAIN longer : longer[i] = x \/ \E j \in DOMAIN q : q[j] = longer[i]
  BY <1>1, <1>2, <1>3
<1> QED
  BY <1>2, <1>4, <1>5 DEF longer

-----------------------------------------------------------------------------
(***************************************************************************)
(* Sums.                                                                   *)
(***************************************************************************)

(* Induction over the subsets of a finite set, for a set of them that is   *)
(* given by comprehension.                                                 *)
LEMMA SubsetInduction ==
  ASSUME NEW S, IsFiniteSet(S), NEW good \in SUBSET (SUBSET S),
         \A u \in SUBSET S : (\A v \in SUBSET u : v # u => v \in good) => u \in good
  PROVE  \A u \in SUBSET S : u \in good
<1> DEFINE bad == (SUBSET S) \ good
<1> SUFFICES ASSUME bad # {} PROVE FALSE
  OBVIOUS
<1>1. IsWellFoundedOn(StrictSubsetOrdering(S), SUBSET S)
  <2>1. FiniteSubsetsOf(S) = SUBSET S
    BY FS_FiniteSubsetsOfFinite
  <2>2. IsWellFoundedOn(StrictSubsetOrdering(S), FiniteSubsetsOf(S))
    BY FS_StrictSubsetOrderingWellFounded
  <2> QED
    BY <2>1, <2>2, Zenon
<1>2. PICK u \in bad : \A v \in bad : <<v, u>> \notin StrictSubsetOrdering(S)
  <2> HIDE DEF bad
  <2>1. bad \subseteq SUBSET S
    BY DEF bad
  <2> QED
    BY <1>1, <2>1, WFMin
<1>3. ASSUME NEW v \in SUBSET u, v # u PROVE v \in good
  BY <1>2, <1>3 DEF StrictSubsetOrdering
<1> QED
  BY <1>2, <1>3

-----------------------------------------------------------------------------
(***************************************************************************)
(* The recursive function inside the library's fold exists.                *)
(***************************************************************************)
AnyOf(s) == CHOOSE x \in s : TRUE

Unfolds(f, h, s) ==
  h = [t \in SUBSET s |-> IF t = {} THEN 0 ELSE f[AnyOf(t)] + h[t \ {AnyOf(t)}]]

Unfolding(f, s) == CHOOSE h : Unfolds(f, h, s)

LEMMA LibrarySum ==
  ASSUME NEW f, NEW S
  PROVE  SumFunctionOnSet(f, S) = Unfolding(f, S)[S]
BY DEF SumFunctionOnSet, FoldFunctionOnSet, MapThenFoldSet, Unfolds, Unfolding, AnyOf

LEMMA AnyElement ==
  ASSUME NEW s, s # {}
  PROVE  AnyOf(s) \in s
BY DEF AnyOf

LEMMA UnfoldsAt ==
  ASSUME NEW f, NEW h, NEW s, Unfolds(f, h, s), NEW t \in SUBSET s
  PROVE  /\ t = {} => h[t] = 0
         /\ t # {} => h[t] = f[AnyOf(t)] + h[t \ {AnyOf(t)}]
<1> DEFINE F(g) == [u \in SUBSET s |-> IF u = {} THEN 0 ELSE f[AnyOf(u)] + g[u \ {AnyOf(u)}]]
<1>1. h = F(h)
  BY DEF Unfolds
<1>2. F(h)[t] = IF t = {} THEN 0 ELSE f[AnyOf(t)] + h[t \ {AnyOf(t)}]
  OBVIOUS
<1> HIDE DEF F
<1> QED
  BY <1>1, <1>2

LEMMA UnfoldingsAgree ==
  ASSUME NEW f, NEW s, NEW w, IsFiniteSet(w), w \subseteq s,
         NEW h, NEW k, Unfolds(f, h, s), Unfolds(f, k, w)
  PROVE  h[w] = k[w]
<1> DEFINE good == {u \in SUBSET w : h[u] = k[u]}
<1>1. ASSUME NEW u \in SUBSET w, \A v \in SUBSET u : v # u => v \in good
      PROVE  u \in good
  <2>1. CASE u = {}
    BY <2>1, UnfoldsAt
  <2>2. CASE u # {}
    <3>1. u \ {AnyOf(u)} \in good
      BY <1>1, <2>2, AnyElement
    <3>2. u \in SUBSET s /\ u \in SUBSET w
      OBVIOUS
    <3>3. h[u] = f[AnyOf(u)] + h[u \ {AnyOf(u)}] /\ k[u] = f[AnyOf(u)] + k[u \ {AnyOf(u)}]
      BY <2>2, <3>2, UnfoldsAt
    <3>4. h[u \ {AnyOf(u)}] = k[u \ {AnyOf(u)}]
      BY <3>1
    <3> QED
      BY <3>3, <3>4
  <2> QED
    BY <2>1, <2>2
<1>2. good \in SUBSET (SUBSET w)
  OBVIOUS
<1> HIDE DEF good
<1>3. \A u \in SUBSET w : u \in good
  BY <1>1, <1>2, SubsetInduction
<1> QED
  BY <1>3 DEF good

LEMMA UnfoldingExists ==
  ASSUME NEW f, NEW S, IsFiniteSet(S)
  PROVE  \A u \in SUBSET S : Unfolds(f, Unfolding(f, u), u)
<1> DEFINE good == {u \in SUBSET S : Unfolds(f, Unfolding(f, u), u)}
           val(u) == Unfolding(f, u)[u]
<1>1. ASSUME NEW u \in SUBSET S, \A v \in SUBSET u : v # u => v \in good
      PROVE  u \in good
  <2> DEFINE h == [t \in SUBSET u |-> IF t = {} THEN 0 ELSE f[AnyOf(t)] + val(t \ {AnyOf(t)})]
  <2>1. ASSUME NEW w \in SUBSET u, w # u
        PROVE  h[w] = val(w)
    <3>1. Unfolds(f, Unfolding(f, w), w)
      BY <1>1, <2>1
    <3>2. CASE w = {}
      BY <3>1, <3>2, UnfoldsAt
    <3>3. CASE w # {}
      <4> DEFINE x == w \ {AnyOf(w)}
      <4>1. x \in SUBSET w /\ x \in SUBSET u /\ x # u /\ IsFiniteSet(x)
        BY <2>1, FS_Subset
      <4>2. Unfolds(f, Unfolding(f, x), x)
        BY <1>1, <4>1
      <4>3. Unfolding(f, w)[x] = val(x)
        BY <3>1, <4>1, <4>2, UnfoldingsAgree
      <4>4. val(w) = f[AnyOf(w)] + Unfolding(f, w)[x]
        BY <3>1, <3>3, UnfoldsAt
      <4>5. h[w] = f[AnyOf(w)] + val(x)
        BY <3>3
      <4> QED
        BY <4>3, <4>4, <4>5
    <3> QED
      BY <3>2, <3>3
  <2>2. ASSUME NEW t \in SUBSET u, t # {}
        PROVE  h[t \ {AnyOf(t)}] = val(t \ {AnyOf(t)})
    <3>1. t \ {AnyOf(t)} \in SUBSET u /\ t \ {AnyOf(t)} # u
      BY <2>2, AnyElement
    <3> QED
      BY <2>1, <3>1
  <2>3. h = [t \in SUBSET u |-> IF t = {} THEN 0 ELSE f[AnyOf(t)] + h[t \ {AnyOf(t)}]]
    <3> DEFINE e(t) == IF t = {} THEN 0 ELSE f[AnyOf(t)] + val(t \ {AnyOf(t)})
               d(t) == IF t = {} THEN 0 ELSE f[AnyOf(t)] + h[t \ {AnyOf(t)}]
    <3>1. \A t \in SUBSET u : e(t) = d(t)
      BY <2>2
    <3>2. h = [t \in SUBSET u |-> e(t)]
      OBVIOUS
    <3> HIDE DEF h, e, d
    <3>3. h = [t \in SUBSET u |-> d(t)]
      BY <3>1, <3>2
    <3> QED
      BY <3>3 DEF d
  <2> HIDE DEF h
  <2>4. Unfolds(f, h, u)
    BY <2>3 DEF Unfolds
  <2>5. Unfolds(f, Unfolding(f, u), u)
    BY <2>4 DEF Unfolding
  <2> QED
    BY <2>5
<1>2. good \in SUBSET (SUBSET S)
  OBVIOUS
<1> HIDE DEF good
<1>3. \A u \in SUBSET S : u \in good
  BY <1>1, <1>2, SubsetInduction
<1> QED
  BY <1>3 DEF good

-----------------------------------------------------------------------------
(***************************************************************************)
(* What the sum over a finite set is.                                      *)
(***************************************************************************)
LEMMA SumEmpty ==
  ASSUME NEW f
  PROVE  SumFunctionOnSet(f, {}) = 0
<1>1. Unfolds(f, Unfolding(f, {}), {})
  BY UnfoldingExists, FS_EmptySet
<1>2. Unfolding(f, {})[{}] = 0
  BY <1>1, UnfoldsAt
<1> QED
  BY <1>2, LibrarySum

LEMMA SumUnfolds ==
  ASSUME NEW f, NEW S, IsFiniteSet(S), S # {}
  PROVE  SumFunctionOnSet(f, S) = f[AnyOf(S)] + SumFunctionOnSet(f, S \ {AnyOf(S)})
<1> DEFINE w == S \ {AnyOf(S)}
<1>1. w \in SUBSET S /\ IsFiniteSet(w)
  BY FS_Subset
<1>2. Unfolds(f, Unfolding(f, S), S) /\ Unfolds(f, Unfolding(f, w), w)
  BY <1>1, UnfoldingExists
<1>3. Unfolding(f, S)[S] = f[AnyOf(S)] + Unfolding(f, S)[w]
  BY <1>2, UnfoldsAt
<1>4. Unfolding(f, S)[w] = Unfolding(f, w)[w]
  BY <1>1, <1>2, UnfoldingsAgree
<1> QED
  BY <1>3, <1>4, LibrarySum

LEMMA SumIsInt ==
  ASSUME NEW S, IsFiniteSet(S), NEW f, \A i \in S : f[i] \in Int
  PROVE  SumFunctionOnSet(f, S) \in Int
<1> DEFINE good == {u \in SUBSET S : SumFunctionOnSet(f, u) \in Int}
<1>1. ASSUME NEW u \in SUBSET S, \A v \in SUBSET u : v # u => v \in good
      PROVE  u \in good
  <2>1. CASE u = {}
    BY <2>1, SumEmpty
  <2>2. CASE u # {}
    <3> DEFINE x == AnyOf(u)
               rest == SumFunctionOnSet(f, u \ {x})
    <3>1. x \in u /\ f[x] \in Int
      BY <2>2, AnyElement
    <3>2. u \ {x} \in good
      BY <1>1, <3>1
    <3>3. IsFiniteSet(u)
      BY FS_Subset
    <3>4. SumFunctionOnSet(f, u) = f[x] + rest
      BY <2>2, <3>3, SumUnfolds
    <3>5. rest \in Int
      BY <3>2
    <3> HIDE DEF x, rest
    <3> QED
      BY <3>1, <3>4, <3>5
  <2> QED
    BY <2>1, <2>2
<1>2. good \in SUBSET (SUBSET S)
  OBVIOUS
<1> HIDE DEF good
<1>3. \A u \in SUBSET S : u \in good
  BY <1>1, <1>2, SubsetInduction
<1> QED
  BY <1>3 DEF good

(* Any one index may be taken out of a sum, not only the one the library   *)
(* happens to choose.                                                      *)
LEMMA SumTakeOut ==
  ASSUME NEW S, IsFiniteSet(S), NEW f, \A i \in S : f[i] \in Int
  PROVE  \A x \in S : SumFunctionOnSet(f, S) = f[x] + SumFunctionOnSet(f, S \ {x})
<1> DEFINE sum(u) == SumFunctionOnSet(f, u)
           good == {u \in SUBSET S : \A x \in u : sum(u) = f[x] + sum(u \ {x})}
<1>0. \A u \in SUBSET S : IsFiniteSet(u) /\ sum(u) \in Int
  <2>1. ASSUME NEW u \in SUBSET S PROVE IsFiniteSet(u) /\ sum(u) \in Int
    <3>1. IsFiniteSet(u)
      BY FS_Subset
    <3> QED
      BY <3>1, SumIsInt
  <2> QED
    BY <2>1
<1>1. ASSUME NEW u \in SUBSET S, \A v \in SUBSET u : v # u => v \in good
      PROVE  u \in good
  <2> SUFFICES ASSUME NEW x \in u PROVE sum(u) = f[x] + sum(u \ {x})
    OBVIOUS
  <2> DEFINE y == AnyOf(u)
             w == (u \ {x}) \ {y}
  <2>1. y \in u
    BY AnyElement
  <2>2. sum(u) = f[y] + sum(u \ {y})
    BY <1>0, SumUnfolds
  <2>3. CASE x = y
    BY <2>2, <2>3
  <2>4. CASE x # y
    <3>1. (u \ {y}) \ {x} = w
      OBVIOUS
    <3>2. u \ {y} \in good /\ u \ {x} \in good /\ x \in u \ {y} /\ y \in u \ {x}
      BY <1>1, <2>1, <2>4
    <3>3. sum(u \ {y}) = f[x] + sum(w)
      BY <3>1, <3>2
    <3>4. sum(u \ {x}) = f[y] + sum(w)
      BY <3>2
    <3>5. f[x] \in Int /\ f[y] \in Int /\ sum(w) \in Int
      BY <1>0, <2>1
    <3> HIDE DEF sum, y, w
    <3> QED
      BY <2>2, <3>3, <3>4, <3>5
  <2> QED
    BY <2>3, <2>4
<1>2. good \in SUBSET (SUBSET S)
  OBVIOUS
<1> HIDE DEF good, sum
<1>3. \A u \in SUBSET S : u \in good
  BY <1>1, <1>2, SubsetInduction
<1> QED
  BY <1>3 DEF good, sum

(* A sum of smaller numbers is smaller, and of equal ones equal.           *)
LEMMA SumMonotone ==
  ASSUME NEW S, IsFiniteSet(S), NEW f, NEW g,
         \A i \in S : f[i] \in Int /\ g[i] \in Int /\ f[i] <= g[i]
  PROVE  SumFunctionOnSet(f, S) <= SumFunctionOnSet(g, S)
<1> DEFINE good == {u \in SUBSET S : SumFunctionOnSet(f, u) <= SumFunctionOnSet(g, u)}
<1>1. ASSUME NEW u \in SUBSET S, \A v \in SUBSET u : v # u => v \in good
      PROVE  u \in good
  <2>1. CASE u = {}
    BY <2>1, SumEmpty
  <2>2. CASE u # {}
    <3> DEFINE x == AnyOf(u)
               sf == SumFunctionOnSet(f, u \ {x})
               sg == SumFunctionOnSet(g, u \ {x})
    <3>1. x \in u /\ f[x] \in Int /\ g[x] \in Int /\ f[x] <= g[x]
      BY <2>2, AnyElement
    <3>2. u \ {x} \in good
      BY <1>1, <3>1
    <3>3. IsFiniteSet(u) /\ IsFiniteSet(u \ {x})
      BY FS_Subset
    <3>4. sf \in Int /\ sg \in Int
      BY <3>3, SumIsInt
    <3>5. SumFunctionOnSet(f, u) = f[x] + sf /\ SumFunctionOnSet(g, u) = g[x] + sg
      BY <2>2, <3>3, SumUnfolds
    <3>6. sf <= sg
      BY <3>2
    <3> HIDE DEF x, sf, sg
    <3> QED
      BY <3>1, <3>4, <3>5, <3>6
  <2> QED
    BY <2>1, <2>2
<1>2. good \in SUBSET (SUBSET S)
  OBVIOUS
<1> HIDE DEF good
<1>3. \A u \in SUBSET S : u \in good
  BY <1>1, <1>2, SubsetInduction
<1> QED
  BY <1>3 DEF good

LEMMA SumAgrees ==
  ASSUME NEW S, IsFiniteSet(S), NEW f, NEW g,
         \A i \in S : f[i] \in Int /\ f[i] = g[i]
  PROVE  SumFunctionOnSet(f, S) = SumFunctionOnSet(g, S)
<1>1. SumFunctionOnSet(f, S) \in Int /\ SumFunctionOnSet(g, S) \in Int
  BY SumIsInt
<1>2. \A i \in S : f[i] <= g[i] /\ g[i] <= f[i] /\ g[i] \in Int
  OBVIOUS
<1>3. SumFunctionOnSet(f, S) <= SumFunctionOnSet(g, S)
  BY <1>2, SumMonotone
<1>4. SumFunctionOnSet(g, S) <= SumFunctionOnSet(f, S)
  BY <1>2, SumMonotone
<1> QED
  BY <1>1, <1>3, <1>4

(* Adding to one of the summed values adds to the sum.                     *)
LEMMA SumShift ==
  ASSUME NEW S, IsFiniteSet(S), NEW f \in [S -> Int], NEW x \in S, NEW d \in Int,
         NEW g, g = [f EXCEPT ![x] = f[x] + d]
  PROVE  SumFunctionOnSet(g, S) = SumFunctionOnSet(f, S) + d
<1> DEFINE sf == SumFunctionOnSet(f, S \ {x})
           sg == SumFunctionOnSet(g, S \ {x})
<1>1. IsFiniteSet(S \ {x})
  BY FS_Subset
<1>2. g \in [S -> Int] /\ g[x] = f[x] + d /\ f[x] \in Int
  OBVIOUS
<1>3. \A i \in S \ {x} : f[i] \in Int /\ f[i] = g[i]
  OBVIOUS
<1>4. sf \in Int /\ sf = sg
  BY <1>1, <1>3, SumIsInt, SumAgrees
<1>5. SumFunctionOnSet(f, S) = f[x] + sf
  BY SumTakeOut
<1>6. SumFunctionOnSet(g, S) = g[x] + sg
  BY <1>2, SumTakeOut
<1> HIDE DEF sf, sg
<1> QED
  BY <1>2, <1>4, <1>5, <1>6

(* Summing over a part is summing over the whole with zeros elsewhere.     *)
LEMMA SumOverPart ==
  ASSUME NEW S, IsFiniteSet(S), NEW part \in SUBSET S, NEW f, NEW g,
         \A i \in part : f[i] \in Int /\ g[i] = f[i],
         \A i \in S \ part : g[i] = 0
  PROVE  SumFunctionOnSet(f, part) = SumFunctionOnSet(g, S)
<1> DEFINE good == {u \in SUBSET S :
                      SumFunctionOnSet(f, u \cap part) = SumFunctionOnSet(g, u)}
<1>1. ASSUME NEW u \in SUBSET S, \A v \in SUBSET u : v # u => v \in good
      PROVE  u \in good
  <2>1. CASE u = {}
    BY <2>1, SumEmpty
  <2>2. CASE u # {}
    <3>1. PICK x \in u : TRUE
      BY <2>2
    <3> DEFINE sf == SumFunctionOnSet(f, (u \ {x}) \cap part)
               sg == SumFunctionOnSet(g, u \ {x})
    <3>2. u \ {x} \in good
      BY <1>1
    <3>3. IsFiniteSet(u) /\ IsFiniteSet(u \ {x}) /\ IsFiniteSet(u \cap part)
      BY FS_Subset
    <3>4. \A i \in u : g[i] \in Int
      OBVIOUS
    <3>5. sf = sg /\ sg \in Int
      BY <3>2, <3>3, <3>4, SumIsInt
    <3>6. SumFunctionOnSet(g, u) = g[x] + sg
      BY <3>3, <3>4, SumTakeOut
    <3>7. CASE x \in part
      <4>1. (u \cap part) \ {x} = (u \ {x}) \cap part
        OBVIOUS
      <4>2. SumFunctionOnSet(f, u \cap part) = f[x] + sf
        BY <3>3, <3>7, <4>1, SumTakeOut
      <4> QED
        BY <3>5, <3>6, <3>7, <4>2
    <3>8. CASE x \notin part
      <4>1. u \cap part = (u \ {x}) \cap part
        BY <3>8
      <4>2. g[x] = 0
        BY <3>8
      <4>3. SumFunctionOnSet(f, u \cap part) = sf
        BY <4>1
      <4> HIDE DEF sf, sg
      <4>4. SumFunctionOnSet(g, u) = sg
        BY <3>5, <3>6, <4>2
      <4> QED
        BY <3>5, <4>3, <4>4
    <3> QED
      BY <3>7, <3>8
  <2> QED
    BY <2>1, <2>2
<1>2. good \in SUBSET (SUBSET S)
  OBVIOUS
<1> HIDE DEF good
<1>3. S \in good
  BY <1>1, <1>2, SubsetInduction
<1>4. S \cap part = part
  OBVIOUS
<1> QED
  BY <1>3, <1>4 DEF good

LEMMA SumZeros ==
  ASSUME NEW S, IsFiniteSet(S), NEW f, \A i \in S : f[i] = 0
  PROVE  SumFunctionOnSet(f, S) = 0
<1>1. {} \in SUBSET S
  OBVIOUS
<1>2. SumFunctionOnSet(f, {}) = SumFunctionOnSet(f, S)
  BY <1>1, SumOverPart
<1> QED
  BY <1>2, SumEmpty

LEMMA SumDifference ==
  ASSUME NEW S, IsFiniteSet(S), NEW f, NEW g, NEW h,
         \A i \in S : f[i] \in Int /\ g[i] \in Int /\ h[i] = f[i] - g[i]
  PROVE  SumFunctionOnSet(h, S) = SumFunctionOnSet(f, S) - SumFunctionOnSet(g, S)
<1> DEFINE good == {u \in SUBSET S :
                      SumFunctionOnSet(h, u) = SumFunctionOnSet(f, u) - SumFunctionOnSet(g, u)}
<1>1. ASSUME NEW u \in SUBSET S, \A v \in SUBSET u : v # u => v \in good
      PROVE  u \in good
  <2>1. CASE u = {}
    BY <2>1, SumEmpty
  <2>2. CASE u # {}
    <3> DEFINE x == AnyOf(u)
               sf == SumFunctionOnSet(f, u \ {x})
               sg == SumFunctionOnSet(g, u \ {x})
               sh == SumFunctionOnSet(h, u \ {x})
    <3>1. x \in u /\ f[x] \in Int /\ g[x] \in Int /\ h[x] = f[x] - g[x]
      BY <2>2, AnyElement
    <3>2. u \ {x} \in good
      BY <1>1, <3>1
    <3>3. IsFiniteSet(u) /\ IsFiniteSet(u \ {x})
      BY FS_Subset
    <3>4. sf \in Int /\ sg \in Int
      BY <3>3, SumIsInt
    <3>5. /\ SumFunctionOnSet(f, u) = f[x] + sf
          /\ SumFunctionOnSet(g, u) = g[x] + sg
          /\ SumFunctionOnSet(h, u) = h[x] + sh
      BY <2>2, <3>3, SumUnfolds
    <3>6. sh = sf - sg
      BY <3>2
    <3> HIDE DEF x, sf, sg, sh
    <3> QED
      BY <3>1, <3>4, <3>5, <3>6
  <2> QED
    BY <2>1, <2>2
<1>2. good \in SUBSET (SUBSET S)
  OBVIOUS
<1> HIDE DEF good
<1>3. \A u \in SUBSET S : u \in good
  BY <1>1, <1>2, SubsetInduction
<1> QED
  BY <1>3 DEF good

-----------------------------------------------------------------------------
(***************************************************************************)
(* Decimal texts.                                                          *)
(***************************************************************************)

(* Induction on the numbers below, for a set of them.                      *)
LEMMA StrongInduction ==
  ASSUME NEW good, \A n \in Nat : (\A m \in 0..(n - 1) : m \in good) => n \in good
  PROVE  Nat \subseteq good
<1> DEFINE bad == Nat \ good
<1> SUFFICES ASSUME bad # {} PROVE FALSE
  OBVIOUS
<1>1. PICK n \in bad : \A m \in bad : <<m, n>> \notin OpToRel(<, Nat)
  <2> HIDE DEF bad
  <2>1. bad \subseteq Nat
    BY DEF bad
  <2> QED
    BY <2>1, NatLessThanWellFounded, WFMin, Zenon
<1>2. ASSUME NEW m \in 0..(n - 1) PROVE m \in good
  <2>1. m \in Nat /\ m < n /\ n \in Nat
    OBVIOUS
  <2>2. <<m, n>> \in OpToRel(<, Nat)
    BY <2>1, Zenon DEF OpToRel
  <2> QED
    BY <1>1, <2>1, <2>2, Zenon
<1> QED
  BY <1>1, <1>2

(* The powers of ten that TenTo's recursion computes.                      *)
Tens ==
  [k \in 0..13 |->
     <<1, 10, 100, 1000, 10000, 100000, 1000000, 10000000, 100000000, 1000000000,
       10000000000, 100000000000, 1000000000000, 10000000000000>>[k + 1]]

LEMMA TenToRecurs ==
  /\ DOMAIN TenTo = 0..13
  /\ \A k \in 0..13 : TenTo[k] = IF k = 0 THEN 1 ELSE 10 * TenTo[k - 1]
<1> DEFINE F(g) == [k \in 0..13 |-> IF k = 0 THEN 1 ELSE 10 * g[k - 1]]
<1>1. \A k \in 0..13 : Tens[k] = IF k = 0 THEN 1 ELSE 10 * Tens[k - 1]
  BY DEF Tens
<1>2. Tens = F(Tens)
  BY <1>1 DEF Tens
<1>3. TenTo = F(TenTo)
  BY <1>2 DEF TenTo
<1>4. /\ DOMAIN F(TenTo) = 0..13
      /\ \A k \in 0..13 : F(TenTo)[k] = IF k = 0 THEN 1 ELSE 10 * TenTo[k - 1]
  OBVIOUS
<1> HIDE DEF F
<1> QED
  BY <1>3, <1>4

LEMMA Powers ==
  /\ TenTo[0] = 1 /\ TenTo[1] = 10 /\ TenTo[2] = 100 /\ TenTo[3] = 1000 /\ TenTo[4] = 10000
  /\ TenTo[5] = 100000 /\ TenTo[6] = 1000000 /\ TenTo[7] = 10000000
  /\ TenTo[8] = 100000000 /\ TenTo[9] = 1000000000 /\ TenTo[10] = 10000000000
  /\ TenTo[11] = 100000000000 /\ TenTo[12] = 1000000000000 /\ TenTo[13] = 10000000000000
BY TenToRecurs

(* Dividing by ten and by a power of ten is dividing by the next power.    *)
LEMMA DivideTwice ==
  ASSUME NEW n \in Nat, NEW k \in 0..12
  PROVE  /\ (n \div 10) \div TenTo[k] = n \div TenTo[k + 1]
         /\ (n \div TenTo[k]) \div 10 = n \div TenTo[k + 1]
BY Powers

LEMMA PowersGrow ==
  /\ \A k \in 0..13 : TenTo[k] \in Nat \ {0}
  /\ \A k \in 0..12 : TenTo[k + 1] = 10 * TenTo[k]
  /\ \A j, k \in 0..13 : j <= k => TenTo[j] <= TenTo[k]
BY Powers

-----------------------------------------------------------------------------
(***************************************************************************)
(* The recursive function that renders whole numbers exists: its initial   *)
(* parts do, and they agree.                                               *)
(***************************************************************************)
RenderStep(h, n) == (IF n < 10 THEN <<>> ELSE h[n \div 10]) \o <<48 + (n % 10)>>

LEMMA SameStep ==
  ASSUME NEW n \in Nat, NEW g, NEW h, n >= 10 => g[n \div 10] = h[n \div 10]
  PROVE  RenderStep(g, n) = RenderStep(h, n)
<1>1. n < 10 \/ g[n \div 10] = h[n \div 10]
  OBVIOUS
<1>2. (IF n < 10 THEN <<>> ELSE g[n \div 10]) = (IF n < 10 THEN <<>> ELSE h[n \div 10])
  BY <1>1, Zenon
<1> QED
  BY <1>2, Zenon DEF RenderStep

Renders(h, n) == h \in [0..n -> Seq(Nat)] /\ \A k \in 0..n : h[k] = RenderStep(h, k)

LEMMA RenderStepIsSeq ==
  ASSUME NEW n \in Nat, NEW h, n >= 10 => h[n \div 10] \in Seq(Nat)
  PROVE  RenderStep(h, n) \in Seq(Nat)
<1>1. 48 + (n % 10) \in Nat
  OBVIOUS
<1>2. <<48 + (n % 10)>> \in Seq(Nat)
  BY <1>1
<1>3. (IF n < 10 THEN <<>> ELSE h[n \div 10]) \in Seq(Nat)
  OBVIOUS
<1> QED
  BY <1>2, <1>3 DEF RenderStep

LEMMA RenderingExists ==
  ASSUME NEW n \in Nat
  PROVE  \E h : Renders(h, n)
<1> DEFINE good == {m \in Nat : \E h : Renders(h, m)}
<1> SUFFICES ASSUME NEW m \in Nat, \A l \in 0..(m - 1) : l \in good PROVE m \in good
  BY StrongInduction
<1>1. PICK g : m # 0 => Renders(g, m - 1)
  <2>1. CASE m = 0
    BY <2>1
  <2>2. CASE m # 0
    BY <2>2
  <2> QED
    BY <2>1, <2>2
<1> DEFINE h == [k \in 0..m |-> IF k = m THEN RenderStep(g, m) ELSE g[k]]
<1>2. m >= 10 => m \div 10 \in 0..(m - 1) /\ g[m \div 10] \in Seq(Nat)
  BY <1>1 DEF Renders
<1>3. RenderStep(g, m) \in Seq(Nat)
  BY <1>2, RenderStepIsSeq
<1>4. h \in [0..m -> Seq(Nat)]
  BY <1>1, <1>3 DEF Renders
<1>5. ASSUME NEW k \in 0..m PROVE h[k] = RenderStep(h, k)
  <2>1. k >= 10 => k \div 10 \in 0..(m - 1) /\ h[k \div 10] = g[k \div 10]
    OBVIOUS
  <2>2. RenderStep(h, k) = RenderStep(g, k)
    <3> HIDE DEF h
    <3> QED
      BY <2>1, SameStep
  <2> QED
    BY <1>1, <2>2 DEF Renders
<1> HIDE DEF h
<1> QED
  BY <1>4, <1>5 DEF Renders

LEMMA RenderingsAgree ==
  ASSUME NEW g, NEW m \in Nat, Renders(g, m), NEW h, NEW n \in Nat, Renders(h, n),
         NEW k \in Nat, k <= m, k <= n
  PROVE  g[k] = h[k]
<1> DEFINE good == {l \in Nat : l <= m /\ l <= n => g[l] = h[l]}
<1> SUFFICES ASSUME NEW l \in Nat, \A j \in 0..(l - 1) : j \in good, l <= m, l <= n
             PROVE  g[l] = h[l]
  BY StrongInduction
<1>1. l >= 10 => g[l \div 10] = h[l \div 10]
  OBVIOUS
<1>2. g[l] = RenderStep(g, l) /\ h[l] = RenderStep(h, l)
  BY DEF Renders
<1> QED
  BY <1>1, <1>2, SameStep

LEMMA DigitCharsRecurs ==
  /\ DigitChars \in [Nat -> Seq(Nat)]
  /\ \A n \in Nat : DigitChars[n] = RenderStep(DigitChars, n)
<1> DEFINE F(g) == [n \in Nat |-> RenderStep(g, n)]
           first(n) == CHOOSE h : Renders(h, n)
           whole == [n \in Nat |-> first(n)[n]]
<1>1. \A n \in Nat : Renders(first(n), n)
  BY RenderingExists
<1>2. ASSUME NEW n \in Nat PROVE whole[n] = RenderStep(whole, n)
  <2>1. whole[n] = RenderStep(first(n), n)
    <3>1. whole[n] = first(n)[n]
      OBVIOUS
    <3> HIDE DEF first, whole
    <3> QED
      BY <1>1, <3>1 DEF Renders
  <2>2. n >= 10 => n \div 10 \in Nat /\ n \div 10 <= n
    OBVIOUS
  <2>3. n >= 10 => whole[n \div 10] = first(n)[n \div 10]
    <3> HIDE DEF first
    <3> QED
      BY <1>1, <2>2, RenderingsAgree
  <2> HIDE DEF whole, first
  <2> QED
    BY <2>1, <2>3, SameStep
<1>3. \E g : g = F(g)
  BY <1>2
<1>4. DigitChars = F(DigitChars)
  BY <1>3 DEF DigitChars, RenderStep
<1>5. \A n \in Nat : DigitChars[n] = RenderStep(DigitChars, n)
  BY <1>4
<1>6. ASSUME NEW n \in Nat PROVE DigitChars[n] \in Seq(Nat)
  <2> DEFINE good == {m \in Nat : DigitChars[m] \in Seq(Nat)}
  <2> SUFFICES ASSUME NEW m \in Nat, \A j \in 0..(m - 1) : j \in good
               PROVE  DigitChars[m] \in Seq(Nat)
    BY StrongInduction
  <2>1. m >= 10 => DigitChars[m \div 10] \in Seq(Nat)
    OBVIOUS
  <2> QED
    BY <1>5, <2>1, RenderStepIsSeq
<1>7. DOMAIN DigitChars = Nat
  BY <1>4
<1> QED
  BY <1>4, <1>5, <1>6, <1>7

-----------------------------------------------------------------------------
(* Numbers of at most thirteen digits.                                     *)
Whole == {n \in Nat : n < TenTo[13]}

(* What Digits chooses, and that nothing else has these properties.        *)
LEMMA DigitsAre ==
  ASSUME NEW n \in Whole
  PROVE  /\ Digits(n) \in 1..13 /\ n < TenTo[Digits(n)]
         /\ Digits(n) = 1 \/ TenTo[Digits(n) - 1] <= n
<1> DEFINE fits(k) == n < TenTo[k] /\ \A j \in 1..(k - 1) : TenTo[j] <= n
<1>1. \E k \in 1..13 : fits(k)
  BY Powers DEF Whole
<1>2. Digits(n) = CHOOSE k \in 1..13 : fits(k)
  BY DEF Digits
<1> HIDE DEF fits
<1>3. Digits(n) \in 1..13 /\ fits(Digits(n))
  BY <1>1, <1>2
<1>4. Digits(n) # 1 => Digits(n) - 1 \in 1..(Digits(n) - 1)
  BY <1>3
<1> QED
  BY <1>3, <1>4 DEF fits

LEMMA DigitsUnique ==
  ASSUME NEW n \in Whole, NEW k \in 1..13, n < TenTo[k], k = 1 \/ TenTo[k - 1] <= n
  PROVE  Digits(n) = k
<1>1. /\ Digits(n) \in 1..13 /\ n < TenTo[Digits(n)]
      /\ Digits(n) = 1 \/ TenTo[Digits(n) - 1] <= n
  BY DigitsAre
<1>2. ~(Digits(n) < k)
  <2> SUFFICES ASSUME Digits(n) < k PROVE FALSE
    OBVIOUS
  <2>1. TenTo[Digits(n)] <= TenTo[k - 1]
    BY <1>1, PowersGrow
  <2> QED
    BY <1>1, <2>1, PowersGrow DEF Whole
<1>3. ~(k < Digits(n))
  <2> SUFFICES ASSUME k < Digits(n) PROVE FALSE
    OBVIOUS
  <2>1. TenTo[k] <= TenTo[Digits(n) - 1]
    BY <1>1, PowersGrow
  <2> QED
    BY <1>1, <2>1, PowersGrow DEF Whole
<1> QED
  BY <1>1, <1>2, <1>3

(* Without its last digit a number has one digit less.                     *)
LEMMA OneDigitLess ==
  ASSUME NEW n \in Whole, n >= 10
  PROVE  n \div 10 \in Whole /\ Digits(n) > 1 /\ Digits(n \div 10) = Digits(n) - 1
<1> DEFINE k == Digits(n)
<1>1. k \in 1..13 /\ n < TenTo[k] /\ (k = 1 \/ TenTo[k - 1] <= n)
  BY DigitsAre
<1>2. n \div 10 \in Whole
  BY Powers DEF Whole
<1> HIDE DEF k
<1>3. k > 1
  <2>1. TenTo[1] = 10
    BY Powers
  <2> QED
    BY <1>1, <2>1 DEF Whole
<1>4. TenTo[k] = 10 * TenTo[k - 1] /\ TenTo[k] \in Nat /\ TenTo[k - 1] \in Nat
  BY <1>1, <1>3, PowersGrow
<1>5. n \div 10 < TenTo[k - 1]
  BY <1>1, <1>4 DEF Whole
<1>6. k - 1 = 1 \/ TenTo[k - 2] <= n \div 10
  <2> SUFFICES ASSUME k - 1 # 1 PROVE TenTo[k - 2] <= n \div 10
    OBVIOUS
  <2>1. TenTo[k - 1] = 10 * TenTo[k - 2] /\ TenTo[k - 2] \in Nat
    BY <1>1, <1>3, PowersGrow
  <2> QED
    BY <1>1, <1>3, <2>1 DEF Whole
<1> QED
  BY <1>1, <1>2, <1>3, <1>5, <1>6, DigitsUnique DEF k

(* Leading digits: all of them are the number, the first is a digit, and   *)
(* each further one adds a digit.                                          *)
LEMMA LeadingAre ==
  ASSUME NEW n \in Whole
  PROVE  /\ \A i \in 1..Digits(n) : Leading(n, i) \in Nat
         /\ Leading(n, Digits(n)) = n
         /\ Leading(n, 1) \in 0..9
         /\ \A i \in 1..(Digits(n) - 1) :
              Leading(n, i + 1) = 10 * Leading(n, i) + (Leading(n, i + 1) % 10)
<1> DEFINE k == Digits(n)
<1>1. k \in 1..13 /\ n < TenTo[k] /\ n \in Nat
  BY DigitsAre DEF Whole
<1> HIDE DEF k
<1>2. \A i \in 1..k : k - i \in 0..12 /\ TenTo[k - i] \in Nat \ {0}
  BY <1>1, PowersGrow
<1>3. \A i \in 1..k : n \div TenTo[k - i] \in Nat
  BY <1>1, <1>2
<1>4. n \div TenTo[k - k] = n
  BY <1>1, Powers
<1>5. n \div TenTo[k - 1] \in 0..9
  BY <1>1, Powers
<1>6. ASSUME NEW i \in 1..(k - 1)
      PROVE  n \div TenTo[k - (i + 1)] =
               10 * (n \div TenTo[k - i]) + ((n \div TenTo[k - (i + 1)]) % 10)
  <2>1. k - (i + 1) \in 0..12 /\ (k - (i + 1)) + 1 = k - i /\ i + 1 \in 1..k
    BY <1>1
  <2>2. (n \div TenTo[k - (i + 1)]) \div 10 = n \div TenTo[k - i]
    BY <1>1, <2>1, DivideTwice
  <2>3. n \div TenTo[k - (i + 1)] \in Nat
    BY <1>3, <2>1
  <2>4. \A x \in Nat : x = 10 * (x \div 10) + (x % 10)
    OBVIOUS
  <2> QED
    BY <2>2, <2>3, <2>4
<1> QED
  BY <1>3, <1>4, <1>5, <1>6 DEF Leading, k

LEMMA Joined ==
  ASSUME NEW s \in Seq(Nat), NEW t \in Seq(Nat)
  PROVE  /\ s \o t \in Seq(Nat) /\ Len(s \o t) = Len(s) + Len(t)
         /\ \A i \in 1..Len(s) : (s \o t)[i] = s[i]
         /\ \A i \in (Len(s) + 1)..(Len(s) + Len(t)) : (s \o t)[i] = t[i - Len(s)]
OBVIOUS

LEMMA OneMoreChar ==
  ASSUME NEW s \in Seq(Nat), NEW c \in Nat
  PROVE  /\ s \o <<c>> \in Seq(Nat) /\ Len(s \o <<c>>) = Len(s) + 1
         /\ \A i \in 1..Len(s) : (s \o <<c>>)[i] = s[i]
         /\ (s \o <<c>>)[Len(s) + 1] = c
OBVIOUS

(* The rendering of a whole number has its i-th digit at place i.          *)
LEMMA DigitCharsAre ==
  ASSUME NEW n \in Whole
  PROVE  /\ DigitChars[n] \in Seq(Nat) /\ Len(DigitChars[n]) = Digits(n)
         /\ \A i \in 1..Digits(n) : DigitChars[n][i] = 48 + (Leading(n, i) % 10)
<1> DEFINE chars(m) ==
             /\ Len(DigitChars[m]) = Digits(m)
             /\ \A i \in 1..Digits(m) : DigitChars[m][i] = 48 + (Leading(m, i) % 10)
           good == {m \in Nat : m \in Whole => chars(m)}
<1>1. ASSUME NEW m \in Nat, \A j \in 0..(m - 1) : j \in good PROVE m \in good
  <2> SUFFICES ASSUME m \in Whole PROVE chars(m)
    OBVIOUS
  <2>1. /\ DigitChars[m] = RenderStep(DigitChars, m)
        /\ Leading(m, Digits(m)) = m /\ Digits(m) \in 1..13
    BY DigitCharsRecurs, LeadingAre, DigitsAre
  <2>2. CASE m < 10
    <3>1. Digits(m) = 1
      BY <2>2, DigitsUnique, Powers
    <3>2. DigitChars[m] = <<>> \o <<48 + (m % 10)>>
      BY <2>1, <2>2 DEF RenderStep
    <3>3. Len(<<>> \o <<48 + (m % 10)>>) = 1 /\ (<<>> \o <<48 + (m % 10)>>)[1] = 48 + (m % 10)
      OBVIOUS
    <3> QED
      BY <2>1, <3>1, <3>2, <3>3
  <2>3. CASE m >= 10
    <3> DEFINE front == DigitChars[m \div 10]
               k == Digits(m)
    <3>1. /\ m \div 10 \in Whole /\ m \div 10 \in 0..(m - 1)
          /\ k > 1 /\ Digits(m \div 10) = k - 1 /\ m \div 10 \in Nat
      BY <2>3, OneDigitLess
    <3>2. chars(m \div 10)
      BY <1>1, <3>1
    <3>3. front \in Seq(Nat)
      BY <3>1, DigitCharsRecurs
    <3>4. DigitChars[m] = front \o <<48 + (m % 10)>>
      <4>1. ~(m < 10)
        BY <2>3
      <4> QED
        BY <2>1, <4>1, Zenon DEF RenderStep
    <3>5. /\ Len(front) = k - 1
          /\ \A i \in 1..(k - 1) : front[i] = 48 + (Leading(m \div 10, i) % 10)
      BY <3>1, <3>2
    <3> HIDE DEF front, k
    <3>6. k \in 2..13
      BY <2>1, <3>1 DEF k
    <3>7. /\ Len(front \o <<48 + (m % 10)>>) = k
          /\ \A i \in 1..(k - 1) : (front \o <<48 + (m % 10)>>)[i] = front[i]
          /\ (front \o <<48 + (m % 10)>>)[k] = 48 + (m % 10)
      <4>1. PICK c \in Nat : c = 48 + (m % 10)
        OBVIOUS
      <4>2. /\ Len(front \o <<c>>) = Len(front) + 1
            /\ \A i \in 1..Len(front) : (front \o <<c>>)[i] = front[i]
            /\ (front \o <<c>>)[Len(front) + 1] = c
        BY <3>3, OneMoreChar
      <4>3. Len(front) = k - 1 /\ Len(front) + 1 = k
        BY <3>5, <3>6
      <4> QED
        BY <4>1, <4>2, <4>3, Zenon
    <3>8. ASSUME NEW i \in 1..(k - 1) PROVE Leading(m \div 10, i) = Leading(m, i)
      <4>1. k - 1 - i \in 0..12 /\ (k - 1 - i) + 1 = k - i
        BY <3>6
      <4>2. (m \div 10) \div TenTo[k - 1 - i] = m \div TenTo[k - i]
        BY <4>1, DivideTwice
      <4> QED
        BY <3>1, <4>2 DEF Leading, k
    <3>9. \A i \in 1..k : i = k \/ i \in 1..(k - 1)
      BY <3>6
    <3>10. Leading(m, k) = m
      BY <2>1 DEF k
    <3> QED
      BY <3>4, <3>5, <3>7, <3>8, <3>9, <3>10 DEF k
  <2> QED
    BY <2>2, <2>3
<1>2. n \in good
  <2> HIDE DEF good
  <2> QED
    BY <1>1, StrongInduction DEF Whole
<1> QED
  BY <1>2, DigitCharsRecurs DEF Whole

-----------------------------------------------------------------------------
(* The texts of two numbers agree as far as their leading digits do.       *)
LEMMA LeadingOrder ==
  ASSUME NEW m \in Whole, NEW n \in Whole, NEW i \in 1..13, i <= Digits(m), i <= Digits(n)
  PROVE  /\ Leading(m, i) = Leading(n, i) =>
              \A j \in 1..i : DigitChars[m][j] = DigitChars[n][j]
         /\ Leading(m, i) < Leading(n, i) =>
              \E j \in 1..i : /\ DigitChars[m][j] < DigitChars[n][j]
                             /\ \A l \in 1..(j - 1) : DigitChars[m][l] = DigitChars[n][l]
<1> DEFINE same(k) == \A j \in 1..k : DigitChars[m][j] = DigitChars[n][j]
           less(k) == \E j \in 1..k : DigitChars[m][j] < DigitChars[n][j] /\ same(j - 1)
           order(k) == /\ Leading(m, k) = Leading(n, k) => same(k)
                       /\ Leading(m, k) < Leading(n, k) => less(k)
           good == {k \in Nat : k \in 1..13 /\ k <= Digits(m) /\ k <= Digits(n) => order(k)}
<1>1. /\ \A k \in 1..Digits(m) :
           DigitChars[m][k] = 48 + (Leading(m, k) % 10) /\ Leading(m, k) \in Nat
      /\ \A k \in 1..Digits(n) :
           DigitChars[n][k] = 48 + (Leading(n, k) % 10) /\ Leading(n, k) \in Nat
      /\ Digits(m) \in 1..13 /\ Digits(n) \in 1..13
  BY DigitCharsAre, LeadingAre, DigitsAre
<1>2. ASSUME NEW k \in Nat, \A j \in 0..(k - 1) : j \in good PROVE k \in good
  <2> SUFFICES ASSUME k \in 1..13, k <= Digits(m), k <= Digits(n) PROVE order(k)
    OBVIOUS
  <2> DEFINE x == Leading(m, k)
             y == Leading(n, k)
  <2>1. /\ DigitChars[m][k] = 48 + (x % 10) /\ DigitChars[n][k] = 48 + (y % 10)
        /\ x \in Nat /\ y \in Nat
    BY <1>1
  <2>2. CASE k = 1
    <3>1. x \in 0..9 /\ y \in 0..9
      BY <2>2, LeadingAre
    <3>2. /\ x = y => DigitChars[m][1] = DigitChars[n][1]
          /\ x < y => DigitChars[m][1] < DigitChars[n][1]
      BY <2>1, <2>2, <3>1
    <3> HIDE DEF x, y
    <3>3. (x = y => same(1)) /\ (x < y => less(1))
      BY <3>2
    <3> QED
      BY <2>2, <3>3 DEF x, y
  <2>3. CASE k > 1
    <3> DEFINE u == Leading(m, k - 1)
               v == Leading(n, k - 1)
    <3>1. k - 1 \in 1..(Digits(m) - 1) /\ k - 1 \in 1..(Digits(n) - 1) /\ (k - 1) + 1 = k
          /\ k - 1 \in 0..(k - 1) /\ k - 1 \in 1..13
      BY <1>1, <2>3
    <3>2. order(k - 1)
      <4>1. k - 1 \in good
        BY <1>2, <3>1
      <4>2. k - 1 \in 1..13 /\ k - 1 <= Digits(m) /\ k - 1 <= Digits(n)
        BY <1>1, <3>1
      <4> HIDE DEF order
      <4> QED
        BY <4>1, <4>2
    <3>3. /\ x = 10 * u + (x % 10) /\ y = 10 * v + (y % 10)
          /\ u \in Nat /\ v \in Nat
      BY <1>1, <3>1, LeadingAre
    <3> HIDE DEF x, y, u, v
    <3>4. x % 10 \in 0..9 /\ y % 10 \in 0..9
      BY <2>1
    <3>5. x = y => u = v /\ DigitChars[m][k] = DigitChars[n][k]
      BY <2>1, <3>3, <3>4
    <3>6. x < y => (u < v) \/ (u = v /\ DigitChars[m][k] < DigitChars[n][k])
      BY <2>1, <3>3, <3>4
    <3>7. /\ u = v => same(k - 1)
          /\ u < v => less(k - 1)
      BY <3>2 DEF u, v
    <3>8. x = y => same(k)
      <4>1. \A j \in 1..k : j = k \/ j \in 1..(k - 1)
        OBVIOUS
      <4> QED
        BY <3>5, <3>7, <4>1
    <3>9. x < y => less(k)
      <4>1. less(k - 1) => less(k)
        <5>1. 1..(k - 1) \subseteq 1..k
          OBVIOUS
        <5> HIDE DEF same
        <5> QED
          BY <5>1
      <4>2. DigitChars[m][k] < DigitChars[n][k] /\ same(k - 1) => less(k)
        <5>1. k \in 1..k
          OBVIOUS
        <5> HIDE DEF same
        <5> QED
          BY <5>1
      <4> HIDE DEF less, same
      <4> QED
        BY <3>6, <3>7, <4>1, <4>2
    <3> QED
      BY <3>8, <3>9 DEF x, y
  <2> QED
    BY <2>2, <2>3
<1>3. i \in good
  <2> HIDE DEF good
  <2> QED
    BY <1>2, StrongInduction
<1> QED
  BY <1>3

(* s is the text of c, which is not negative: k digits, a dot, two         *)
(* decimals.                                                               *)
IsTextOf(s, k, c) ==
  /\ s = Unsigned(c) /\ k = Digits(Euros(c)) /\ Len(s) = k + 3
  /\ \A i \in 1..k : s[i] = DigitChars[Euros(c)][i] /\ s[i] >= 48
  /\ s[k + 1] = 46
  /\ s[k + 2] = 48 + ((c % 100) \div 10)
  /\ s[k + 3] = 48 + (c % 10)

LEMMA UnsignedIs ==
  ASSUME NEW c \in Nat, Euros(c) \in Whole
  PROVE  \E k \in 1..13, s \in Seq(Nat) : IsTextOf(s, k, c)
<1>1. PICK s \in Seq(Nat), k \in 1..13 :
        /\ s = DigitChars[Euros(c)] /\ k = Digits(Euros(c)) /\ Len(s) = k
        /\ \A i \in 1..k : s[i] >= 48
  <2>1. /\ Digits(Euros(c)) \in 1..13
        /\ \A i \in 1..Digits(Euros(c)) : Leading(Euros(c), i) \in Nat
    BY DigitsAre, LeadingAre
  <2>2. \A i \in 1..Digits(Euros(c)) : DigitChars[Euros(c)][i] >= 48
    BY <2>1, DigitCharsAre
  <2> QED
    BY <2>1, <2>2, DigitCharsAre
<1>2. PICK t \in Seq(Nat) :
        /\ Unsigned(c) = s \o t /\ Len(t) = 3
        /\ t[1] = 46 /\ t[2] = 48 + ((c % 100) \div 10) /\ t[3] = 48 + (c % 10)
  <2>1. 46 \in Nat /\ 48 + ((c % 100) \div 10) \in Nat /\ 48 + (c % 10) \in Nat
    OBVIOUS
  <2> DEFINE t == <<46, 48 + ((c % 100) \div 10), 48 + (c % 10)>>
  <2>2. t \in Seq(Nat) /\ Len(t) = 3
    BY <2>1
  <2>3. t[1] = 46 /\ t[2] = 48 + ((c % 100) \div 10) /\ t[3] = 48 + (c % 10)
    OBVIOUS
  <2>4. Unsigned(c) = s \o t
    BY <1>1 DEF Unsigned
  <2> HIDE DEF t
  <2> QED
    BY <2>2, <2>3, <2>4
<1>3. /\ s \o t \in Seq(Nat) /\ Len(s \o t) = k + 3
      /\ \A i \in 1..k : (s \o t)[i] = s[i]
      /\ \A i \in (k + 1)..(k + 3) : (s \o t)[i] = t[i - k]
  <2>1. Len(s) = k /\ Len(t) = 3
    BY <1>1, <1>2
  <2>2. /\ s \o t \in Seq(Nat) /\ Len(s \o t) = Len(s) + Len(t)
        /\ \A i \in 1..Len(s) : (s \o t)[i] = s[i]
        /\ \A i \in (Len(s) + 1)..(Len(s) + Len(t)) : (s \o t)[i] = t[i - Len(s)]
    BY Joined
  <2> QED
    BY <2>1, <2>2, Zenon
<1>4. (s \o t)[k + 1] = t[1] /\ (s \o t)[k + 2] = t[2] /\ (s \o t)[k + 3] = t[3]
  <2>1. /\ {k + 1, k + 2, k + 3} \subseteq (k + 1)..(k + 3)
        /\ (k + 1) - k = 1 /\ (k + 2) - k = 2 /\ (k + 3) - k = 3
    OBVIOUS
  <2> QED
    BY <1>3, <2>1
<1>5. /\ k \in 1..13 /\ Unsigned(c) \in Seq(Nat) /\ Unsigned(c) = s \o t
      /\ k = Digits(Euros(c)) /\ s = DigitChars[Euros(c)]
  BY <1>1, <1>2, <1>3
<1>6. IsTextOf(s \o t, k, c)
  BY <1>1, <1>2, <1>3, <1>4, <1>5 DEF IsTextOf
<1> QED
  BY <1>3, <1>6

LEMMA UnsignedIsSeq ==
  ASSUME NEW c \in Nat, Euros(c) \in Whole
  PROVE  Unsigned(c) \in Seq(Nat)
BY UnsignedIs DEF IsTextOf

(* s and t differ first at i, where s has the smaller character.           *)
LessAt(s, t, i) ==
  i \in DOMAIN s \cap DOMAIN t /\ s[i] < t[i] /\ \A j \in 1..(i - 1) : s[j] = t[j]

(* Two texts of k and l digits, a dot and two decimals.                    *)
LEMMA TextsDiffer ==
  ASSUME NEW k \in 1..13, NEW s \in Seq(Nat), Len(s) = k + 3,
         \A i \in 1..k : s[i] >= 48, s[k + 1] = 46,
         NEW l \in 1..13, NEW t \in Seq(Nat), Len(t) = l + 3,
         \A i \in 1..l : t[i] >= 48, t[l + 1] = 46
  PROVE  /\ \A i \in 1..13 : i <= k /\ i <= l /\ s[i] < t[i] /\ (\A j \in 1..(i - 1) : s[j] = t[j])
              => LessAt(s, t, i)
         /\ k < l /\ (\A j \in 1..k : s[j] = t[j]) => LessAt(s, t, k + 1)
         /\ k = l /\ (\A j \in 1..k : s[j] = t[j]) =>
              /\ s[k + 2] < t[k + 2] => LessAt(s, t, k + 2)
              /\ s[k + 2] = t[k + 2] /\ s[k + 3] < t[k + 3] => LessAt(s, t, k + 3)
<1>1. DOMAIN s = 1..(k + 3) /\ DOMAIN t = 1..(l + 3)
  OBVIOUS
<1>2. ASSUME NEW i \in 1..13, i <= k, i <= l, s[i] < t[i], \A j \in 1..(i - 1) : s[j] = t[j]
      PROVE  LessAt(s, t, i)
  <2>1. i \in DOMAIN s \cap DOMAIN t
    BY <1>1, <1>2
  <2> QED
    BY <1>2, <2>1 DEF LessAt
<1>3. ASSUME k < l, \A j \in 1..k : s[j] = t[j] PROVE LessAt(s, t, k + 1)
  <2>1. k + 1 \in DOMAIN s \cap DOMAIN t /\ k + 1 \in 1..l /\ (k + 1) - 1 = k
    BY <1>1, <1>3
  <2>2. s[k + 1] < t[k + 1]
    BY <1>1, <2>1
  <2> QED
    BY <1>3, <2>1, <2>2 DEF LessAt
<1>4. ASSUME k = l, \A j \in 1..k : s[j] = t[j], s[k + 2] < t[k + 2]
      PROVE  LessAt(s, t, k + 2)
  <2>1. k + 2 \in DOMAIN s \cap DOMAIN t
    BY <1>1, <1>4
  <2>2. \A j \in 1..((k + 2) - 1) : j \in 1..k \/ j = k + 1
    OBVIOUS
  <2>3. \A j \in 1..((k + 2) - 1) : s[j] = t[j]
    BY <1>4, <2>2
  <2> QED
    BY <1>4, <2>1, <2>3 DEF LessAt
<1>5. ASSUME k = l, \A j \in 1..k : s[j] = t[j], s[k + 2] = t[k + 2], s[k + 3] < t[k + 3]
      PROVE  LessAt(s, t, k + 3)
  <2>1. k + 3 \in DOMAIN s \cap DOMAIN t
    BY <1>1, <1>5
  <2>2. \A j \in 1..((k + 3) - 1) : j \in 1..k \/ j = k + 1 \/ j = k + 2
    OBVIOUS
  <2>3. \A j \in 1..((k + 3) - 1) : s[j] = t[j]
    BY <1>5, <2>2
  <2> QED
    BY <1>5, <2>1, <2>3 DEF LessAt
<1> QED
  BY <1>2, <1>3, <1>4, <1>5

(* The arithmetic finds where the two texts differ first.                  *)
LEMMA UnsignedOrder ==
  ASSUME NEW a \in Nat, NEW b \in Nat, Euros(a) \in Whole, Euros(b) \in Whole,
         UnsignedTextLess(a, b)
  PROVE  \E i \in Nat \ {0} : LessAt(Unsigned(a), Unsigned(b), i)
<1>1. PICK k \in 1..13, s \in Seq(Nat) : IsTextOf(s, k, a)
  BY UnsignedIs
<1>2. PICK l \in 1..13, t \in Seq(Nat) : IsTextOf(t, l, b)
  BY UnsignedIs
<1> SUFFICES \E i \in Nat \ {0} : LessAt(s, t, i)
  BY <1>1, <1>2 DEF IsTextOf
<1>3. PICK m \in Whole, n \in Whole : m = Euros(a) /\ n = Euros(b)
  OBVIOUS
<1>4. k = Digits(m) /\ l = Digits(n)
  BY <1>1, <1>2, <1>3 DEF IsTextOf
<1>5. /\ \A i \in 1..k : s[i] = DigitChars[m][i]
      /\ \A i \in 1..l : t[i] = DigitChars[n][i]
  BY <1>1, <1>2, <1>3 DEF IsTextOf
<1>6. /\ Len(s) = k + 3 /\ s[k + 1] = 46 /\ \A i \in 1..k : s[i] >= 48
      /\ Len(t) = l + 3 /\ t[l + 1] = 46 /\ \A i \in 1..l : t[i] >= 48
  BY <1>1, <1>2 DEF IsTextOf
<1>7. m \in Nat /\ n \in Nat /\ m = a \div 100 /\ n = b \div 100
  BY <1>3 DEF Whole, Euros
<1>8. Leading(m, k) = m /\ Leading(n, l) = n
  BY <1>4, LeadingAre
<1>9. k < l => Leading(n, k) \in Nat
  <2>1. k < l => k \in 1..l
    OBVIOUS
  <2> QED
    BY <1>4, <2>1, LeadingAre
<1>10. \/ k = l /\ a < b
       \/ k < l /\ m <= Leading(n, k)
       \/ k > l /\ Leading(m, l) < n
  BY <1>3, <1>4 DEF UnsignedTextLess
<1>11. ASSUME NEW i \in 1..13, i <= k, i <= l, Leading(m, i) < Leading(n, i)
       PROVE  \E j \in Nat \ {0} : LessAt(s, t, j)
  <2>1. PICK j \in 1..i : /\ DigitChars[m][j] < DigitChars[n][j]
                           /\ \A h \in 1..(j - 1) : DigitChars[m][h] = DigitChars[n][h]
    BY <1>4, <1>11, LeadingOrder
  <2>2. j \in 1..13 /\ j <= k /\ j <= l /\ \A h \in 1..(j - 1) : h \in 1..k /\ h \in 1..l
    BY <1>11
  <2>3. j \in 1..k /\ j \in 1..l /\ j \in Nat \ {0}
    BY <2>2
  <2>4. s[j] < t[j] /\ \A h \in 1..(j - 1) : s[h] = t[h]
    BY <1>5, <2>1, <2>2, <2>3
  <2>5. LessAt(s, t, j)
    BY <1>6, <2>2, <2>4, TextsDiffer
  <2> QED
    BY <2>3, <2>5
<1>12. ASSUME NEW i \in 1..13, i <= k, i <= l, Leading(m, i) = Leading(n, i)
       PROVE  \A j \in 1..i : s[j] = t[j]
  <2>1. \A j \in 1..i : DigitChars[m][j] = DigitChars[n][j]
    <3>1. i <= Digits(m) /\ i <= Digits(n)
      BY <1>4, <1>12
    <3> QED
      BY <1>12, <3>1, LeadingOrder
  <2>2. \A j \in 1..i : j \in 1..k /\ j \in 1..l
    BY <1>12
  <2> QED
    BY <1>5, <2>1, <2>2
<1>13. CASE k > l /\ Leading(m, l) < n
  <2>1. l <= k /\ l <= l /\ Leading(m, l) < Leading(n, l)
    BY <1>8, <1>13
  <2> QED
    BY <1>11, <2>1
<1>14. CASE k < l /\ m <= Leading(n, k)
  <2>1. k <= k /\ k <= l
    BY <1>14
  <2>2. CASE m < Leading(n, k)
    <3>1. Leading(m, k) < Leading(n, k)
      BY <1>8, <2>2
    <3> QED
      BY <1>11, <2>1, <3>1
  <2>3. CASE m = Leading(n, k)
    <3>1. Leading(m, k) = Leading(n, k)
      BY <1>8, <2>3
    <3>2. \A j \in 1..k : s[j] = t[j]
      BY <1>12, <2>1, <3>1
    <3>3. LessAt(s, t, k + 1)
      BY <1>6, <1>14, <3>2, TextsDiffer
    <3>4. k + 1 \in Nat \ {0}
      OBVIOUS
    <3> QED
      BY <3>3, <3>4
  <2> QED
    <3>1. m < Leading(n, k) \/ m = Leading(n, k)
      BY <1>7, <1>9, <1>14
    <3> QED
      BY <2>2, <2>3, <3>1
<1>15. CASE k = l /\ a < b
  <2>1. m <= n /\ k <= k /\ k <= l
    BY <1>7, <1>15
  <2>2. CASE m < n
    <3>1. Leading(m, k) < Leading(n, k)
      BY <1>8, <1>15, <2>2
    <3> QED
      BY <1>11, <2>1, <3>1
  <2>3. CASE m = n
    <3>1. Leading(m, k) = Leading(n, k)
      BY <1>15, <2>3
    <3>2. \A j \in 1..k : s[j] = t[j]
      BY <1>12, <2>1, <3>1
    <3>3. \/ (a % 100) \div 10 < (b % 100) \div 10
          \/ (a % 100) \div 10 = (b % 100) \div 10 /\ a % 10 < b % 10
      <4>1. a % 100 < b % 100 /\ a % 100 \in 0..99 /\ b % 100 \in 0..99
        BY <1>7, <1>15, <2>3
      <4>2. a % 10 = (a % 100) % 10 /\ b % 10 = (b % 100) % 10
        OBVIOUS
      <4> QED
        BY <4>1, <4>2
    <3>4. /\ s[k + 2] = 48 + ((a % 100) \div 10) /\ s[k + 3] = 48 + (a % 10)
          /\ t[k + 2] = 48 + ((b % 100) \div 10) /\ t[k + 3] = 48 + (b % 10)
      BY <1>1, <1>2, <1>15 DEF IsTextOf
    <3>5. \/ s[k + 2] < t[k + 2]
          \/ s[k + 2] = t[k + 2] /\ s[k + 3] < t[k + 3]
      BY <3>3, <3>4
    <3>6. /\ s[k + 2] < t[k + 2] => LessAt(s, t, k + 2)
          /\ s[k + 2] = t[k + 2] /\ s[k + 3] < t[k + 3] => LessAt(s, t, k + 3)
      BY <1>6, <1>15, <3>2, TextsDiffer
    <3>7. k + 2 \in Nat \ {0} /\ k + 3 \in Nat \ {0}
      OBVIOUS
    <3> QED
      BY <3>5, <3>6, <3>7
  <2> QED
    BY <1>7, <2>1, <2>2, <2>3
<1> QED
  BY <1>10, <1>13, <1>14, <1>15

-----------------------------------------------------------------------------
LEMMA CharLessAt ==
  ASSUME NEW s \in Seq(Nat), NEW t \in Seq(Nat), NEW i \in Nat \ {0}, LessAt(s, t, i)
  PROVE  CharLess(s, t)
BY DEF LessAt, CharLess

(* JavaScript's < is an order: what decides one way does not decide the    *)
(* other.                                                                  *)
LEMMA CharLessOneWay ==
  ASSUME NEW s \in Seq(Nat), NEW t \in Seq(Nat), CharLess(s, t)
  PROVE  ~CharLess(t, s) /\ s # t
<1>1. /\ DOMAIN s = 1..Len(s) /\ DOMAIN t = 1..Len(t) /\ Len(s) \in Nat /\ Len(t) \in Nat
      /\ \A i \in 1..Len(s) : s[i] \in Nat
      /\ \A i \in 1..Len(t) : t[i] \in Nat
  OBVIOUS
<1>2. \A i, j \in Nat \ {0} : i < j => i \in 1..(j - 1)
  OBVIOUS
<1>3. CASE \E i \in DOMAIN s \cap DOMAIN t : s[i] < t[i] /\ \A j \in 1..(i - 1) : s[j] = t[j]
  <2>1. PICK i \in DOMAIN s \cap DOMAIN t : s[i] < t[i] /\ \A j \in 1..(i - 1) : s[j] = t[j]
    BY <1>3
  <2>2. i \in Nat \ {0} /\ s[i] \in Nat /\ t[i] \in Nat /\ s[i] # t[i] /\ ~(t[i] < s[i])
    BY <1>1, <2>1
  <2>3. ASSUME NEW j \in DOMAIN s \cap DOMAIN t, t[j] < s[j], \A h \in 1..(j - 1) : t[h] = s[h]
        PROVE  FALSE
    <3>1. j \in Nat \ {0} /\ t[j] # s[j]
      BY <1>1, <2>3
    <3>2. ~(i < j) /\ ~(j < i) /\ i # j
      BY <1>2, <2>1, <2>2, <2>3, <3>1
    <3> QED
      BY <2>2, <3>1, <3>2
  <2> QED
    BY <2>1, <2>2, <2>3 DEF CharLess
<1>4. CASE Len(s) < Len(t) /\ \A j \in DOMAIN s : s[j] = t[j]
  <2>1. \A j \in DOMAIN s : ~(t[j] < s[j])
    BY <1>1, <1>4
  <2> QED
    BY <1>1, <1>4, <2>1 DEF CharLess
<1> QED
  BY <1>3, <1>4 DEF CharLess

LEMMA WholeEuros ==
  ASSUME NEW c \in Decimals
  PROVE  /\ c >= 0 => c \in Nat /\ Euros(c) \in Whole
         /\ c < 0 => -c \in Nat /\ Euros(-c) \in Whole
BY Powers DEF Decimals, Whole, Euros

LEMMA MinusSign ==
  ASSUME NEW s \in Seq(Nat)
  PROVE  /\ <<45>> \o s \in Seq(Nat) /\ Len(<<45>> \o s) = Len(s) + 1
         /\ (<<45>> \o s)[1] = 45
         /\ \A i \in 1..Len(s) : (<<45>> \o s)[i + 1] = s[i]
<1>1. <<45>> \in Seq(Nat) /\ Len(<<45>>) = 1 /\ <<45>>[1] = 45
  OBVIOUS
<1>2. \A i \in 2..(Len(s) + 1) : (<<45>> \o s)[i] = s[i - 1]
  BY <1>1, Joined
<1>3. \A i \in 1..Len(s) : i + 1 \in 2..(Len(s) + 1) /\ (i + 1) - 1 = i
  OBVIOUS
<1> QED
  BY <1>1, <1>2, <1>3, Joined

LEMMA TextOrder ==
  ASSUME NEW a \in Decimals, NEW b \in Decimals, TextLess(a, b)
  PROVE  \E i \in Nat \ {0} : LessAt(Text(a), Text(b), i)
<1>1. CASE a >= 0 /\ b >= 0
  <2>1. Text(a) = Unsigned(a) /\ Text(b) = Unsigned(b)
    BY <1>1 DEF Text, Decimals
  <2>2. UnsignedTextLess(a, b)
    BY <1>1 DEF TextLess, Decimals
  <2> QED
    BY <1>1, <2>1, <2>2, UnsignedOrder, WholeEuros
<1>2. CASE a < 0 /\ b >= 0
  <2>1. Text(a) = <<45>> \o Unsigned(-a) /\ Text(b) = Unsigned(b)
    BY <1>2 DEF Text, Decimals
  <2>2. Unsigned(-a) \in Seq(Nat) /\ Unsigned(b) \in Seq(Nat)
    BY <1>2, WholeEuros, UnsignedIsSeq
  <2>3. Len(Unsigned(b)) >= 1 /\ Unsigned(b)[1] >= 48
    <3>1. PICK k \in 1..13 : /\ Len(Unsigned(b)) = k + 3
                             /\ \A i \in 1..k : Unsigned(b)[i] >= 48
      <4>1. b \in Nat /\ Euros(b) \in Whole
        BY <1>2, WholeEuros
      <4> QED
        BY <4>1, UnsignedIs DEF IsTextOf
    <3>2. 1 \in 1..k
      OBVIOUS
    <3> QED
      BY <3>1, <3>2
  <2>4. 1 \in DOMAIN Text(a) /\ Text(a)[1] = 45
    BY <2>1, <2>2, MinusSign
  <2>5. 1 \in DOMAIN Text(b) /\ Text(b)[1] >= 48 /\ Text(b)[1] \in Nat
    BY <2>1, <2>2, <2>3
  <2>6. LessAt(Text(a), Text(b), 1)
    BY <2>4, <2>5 DEF LessAt
  <2> QED
    BY <2>6
<1>3. CASE a < 0 /\ b < 0
  <2>1. Text(a) = <<45>> \o Unsigned(-a) /\ Text(b) = <<45>> \o Unsigned(-b)
    BY <1>3 DEF Text
  <2>2. UnsignedTextLess(-a, -b)
    BY <1>3 DEF TextLess, Decimals
  <2>3. PICK i \in Nat \ {0} : LessAt(Unsigned(-a), Unsigned(-b), i)
    BY <1>3, <2>2, UnsignedOrder, WholeEuros
  <2>4. PICK s \in Seq(Nat), t \in Seq(Nat) : s = Unsigned(-a) /\ t = Unsigned(-b)
    BY <1>3, UnsignedIsSeq, WholeEuros
  <2>5. i \in 1..Len(s) /\ i \in 1..Len(t) /\ s[i] < t[i] /\ \A j \in 1..(i - 1) : s[j] = t[j]
    BY <2>3, <2>4 DEF LessAt
  <2>6. /\ i + 1 \in DOMAIN Text(a) \cap DOMAIN Text(b)
        /\ Text(a)[i + 1] = s[i] /\ Text(b)[i + 1] = t[i]
    BY <2>1, <2>4, <2>5, MinusSign
  <2>7. ASSUME NEW j \in 1..((i + 1) - 1) PROVE Text(a)[j] = Text(b)[j]
    <3>1. CASE j = 1
      BY <2>1, <2>4, <3>1, MinusSign
    <3>2. CASE j > 1
      <4>1. j - 1 \in 1..(i - 1) /\ j - 1 \in 1..Len(s) /\ j - 1 \in 1..Len(t) /\ (j - 1) + 1 = j
        BY <2>5, <3>2
      <4> QED
        BY <2>1, <2>4, <2>5, <4>1, MinusSign
    <3> QED
      BY <3>1, <3>2
  <2>8. LessAt(Text(a), Text(b), i + 1)
    BY <2>5, <2>6, <2>7 DEF LessAt
  <2> QED
    BY <2>8
<1> QED
  BY <1>1, <1>2, <1>3 DEF TextLess

LEMMA TextIsSeq ==
  ASSUME NEW a \in Decimals
  PROVE  Text(a) \in Seq(Nat)
<1>1. CASE a >= 0
  BY <1>1, WholeEuros, UnsignedIsSeq DEF Text, Decimals
<1>2. CASE a < 0
  BY <1>2, WholeEuros, UnsignedIsSeq, MinusSign DEF Text
<1> QED
  BY <1>1, <1>2 DEF Decimals

(* Of two values one has the lesser text.                                  *)
LEMMA TextLessTotal ==
  ASSUME NEW a \in Decimals, NEW b \in Decimals, a # b
  PROVE  TextLess(a, b) \/ TextLess(b, a)
<1>1. ASSUME NEW m \in Nat, NEW n \in Nat, m # n, Euros(m) \in Whole, Euros(n) \in Whole
      PROVE  UnsignedTextLess(m, n) \/ UnsignedTextLess(n, m)
  <2>1. PICK k \in 1..13, l \in 1..13 : k = Digits(Euros(m)) /\ l = Digits(Euros(n))
    BY <1>1, DigitsAre
  <2>2. (k < l => Leading(Euros(n), k) \in Nat) /\ (l < k => Leading(Euros(m), l) \in Nat)
    <3>1. (k < l => k \in 1..l) /\ (l < k => l \in 1..k)
      OBVIOUS
    <3> QED
      BY <1>1, <2>1, <3>1, LeadingAre
  <2>3. Euros(m) \in Nat /\ Euros(n) \in Nat
    BY <1>1 DEF Whole
  <2>4. m < n \/ n < m
    BY <1>1
  <2>5. k = l \/ k < l \/ l < k
    OBVIOUS
  <2> QED
    BY <2>1, <2>2, <2>3, <2>4, <2>5 DEF UnsignedTextLess
<1> QED
  BY <1>1, WholeEuros DEF TextLess, Decimals

(* Both orders: TextLess finds the place where CharLess decides, and       *)
(* conversely, since of two values one has the lesser text.                *)
LEMMA OrdersAgree ==
  ASSUME NEW a \in Decimals, NEW b \in Decimals
  PROVE  TextLess(a, b) <=> CharLess(Text(a), Text(b))
<1>1. \A x, y \in Decimals : TextLess(x, y) => CharLess(Text(x), Text(y))
  BY TextOrder, TextIsSeq, CharLessAt
<1>2. CharLess(Text(a), Text(b)) => TextLess(a, b)
  BY <1>1, TextLessTotal, TextIsSeq, CharLessOneWay
<1> QED
  BY <1>1, <1>2
=============================================================================
