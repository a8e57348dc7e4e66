------------------------- MODULE AuctionWinnerProofs --------------------------
(***************************************************************************)
(* The circuit picks the winner the rules of a Vickrey auction name, for   *)
(* every book of bids and every number of slots; and the facts about sums  *)
(* and about a running maximum that this and other proofs rest on.         *)
(*                                                                         *)
(* Induction over Nat is needed once, to show that a recursion defines a   *)
(* function.  It is stated for a set instead of a predicate and reduced to *)
(* the well-foundedness of strict inclusion between finite sets.           *)
(***************************************************************************)
EXTENDS AuctionWinner, Sums, FiniteSetTheorems, TLAPS

-----------------------------------------------------------------------------
(* SumUpTo: a sum is an integer, an empty sum is 0, a new last term adds   *)
(* itself, and changing one term moves the sum by the change.              *)

\* A set with 0 that is closed under successor holds every natural number.
LEMMA SetInduction ==
    ASSUME NEW T, 0 \in T, \A n \in Nat : n \in T => n + 1 \in T
    PROVE  Nat \subseteq T
<1> DEFINE Bad == {n \in Nat : n \notin T}
           R == StrictSubsetOrdering(Nat)
           F == FiniteSubsetsOf(Nat)
           Segments == {1..n : n \in Bad}
<1>1. SUFFICES ASSUME Bad # {} PROVE FALSE
    OBVIOUS
<1>2. Segments \subseteq F /\ Segments # {}
    <2>1. \A n \in Nat : IsFiniteSet(1..n) /\ 1..n \subseteq Nat
        BY FS_Interval
    <2> QED BY <1>1, <2>1 DEF FiniteSubsetsOf
<1>3. PICK X \in Segments : \A Y \in Segments : <<Y, X>> \notin R
    <2>1. IsWellFoundedOn(R, F)
        BY FS_StrictSubsetOrderingWellFounded
    <2> HIDE DEF Segments, R, F
    <2> QED BY <1>2, <2>1, WFMin
<1>4. PICK m \in Bad : X = 1..m
    OBVIOUS
<1>5. m \in Nat /\ m # 0
    OBVIOUS
<1>6. m - 1 \in Nat /\ m - 1 \notin Bad
    <2>1. m - 1 \in Nat
        BY <1>5
    <2>2. m \in 1..m /\ m \notin 1..(m - 1) /\ 1..(m - 1) \subseteq 1..m
        BY <1>5
    <2>3. <<1..(m - 1), 1..m>> \in R
        BY <2>2, <1>5 DEF StrictSubsetOrdering
    <2> QED BY <2>1, <2>3, <1>3, <1>4
<1> QED BY <1>5, <1>6

-----------------------------------------------------------------------------
\* upTo satisfies the recursion of SumUpTo.
Solves(term, n, upTo) ==
    upTo = [i \in 0..n |-> IF i = 0 THEN 0 ELSE upTo[i - 1] + term[i]]

LEMMA SolutionExists ==
    ASSUME NEW n \in Nat, NEW term, \A i \in 1..n : term[i] \in Int
    PROVE  \E u \in [0..n -> Int] : Solves(term, n, u)
<1> DEFINE T == {k \in Nat : k <= n => \E u \in [0..k -> Int] : Solves(term, k, u)}
<1>1. 0 \in T
    <2> DEFINE u == [i \in 0..0 |-> 0]
    <2>1. u \in [0..0 -> Int] /\ Solves(term, 0, u)
        BY DEF Solves
    <2> QED BY <2>1
<1>2. ASSUME NEW k \in Nat, k \in T PROVE k + 1 \in T
    <2>1. SUFFICES ASSUME k + 1 <= n
                   PROVE  \E v \in [0..(k + 1) -> Int] : Solves(term, k + 1, v)
        OBVIOUS
    <2>2. PICK u \in [0..k -> Int] : Solves(term, k, u)
        BY <1>2, <2>1
    <2> DEFINE v == [i \in 0..(k + 1) |-> IF i = k + 1 THEN u[k] + term[k + 1] ELSE u[i]]
    <2>3. v \in [0..(k + 1) -> Int]
        BY <2>1
    <2>4. \A i \in 0..(k + 1) : v[i] = IF i = 0 THEN 0 ELSE v[i - 1] + term[i]
        <3>1. \A i \in 0..k : u[i] = IF i = 0 THEN 0 ELSE u[i - 1] + term[i]
            BY <2>2 DEF Solves
        <3> QED BY <3>1
    <2>5. Solves(term, k + 1, v)
        BY <2>3, <2>4 DEF Solves
    <2> QED BY <2>3, <2>5
<1>3. Nat \subseteq T
    <2> HIDE DEF T
    <2> QED BY <1>1, <1>2, SetInduction
<1> QED BY <1>3

LEMMA SolutionUnique ==
    ASSUME NEW n \in Nat, NEW term, NEW u, NEW v, Solves(term, n, u), Solves(term, n, v)
    PROVE  u = v
<1> DEFINE T == {k \in Nat : k <= n => u[k] = v[k]}
<1>1. 0 \in T
    BY DEF Solves
<1>2. ASSUME NEW k \in Nat, k \in T PROVE k + 1 \in T
    BY <1>2 DEF Solves
<1>3. Nat \subseteq T
    <2> HIDE DEF T
    <2> QED BY <1>1, <1>2, SetInduction
<1>4. \A k \in 0..n : u[k] = v[k]
    BY <1>3
<1> QED BY <1>4 DEF Solves

\* Any solution of the recursion ends in the sum.
LEMMA SumOfSolution ==
    ASSUME NEW n \in Nat, NEW term, NEW u, Solves(term, n, u)
    PROVE  SumUpTo(term, n) = u[n]
<1> DEFINE w == CHOOSE f : Solves(term, n, f)
<1>1. Solves(term, n, w)
    OBVIOUS
<1>2. w = u
    <2> HIDE DEF w
    <2> QED BY <1>1, SolutionUnique
<1>3. SumUpTo(term, n) = w[n]
    BY DEF SumUpTo, Solves
<1> QED BY <1>2, <1>3

-----------------------------------------------------------------------------
\* A sum of integers is an integer.
LEMMA SumType ==
    ASSUME NEW n \in Nat, NEW term, \A i \in 1..n : term[i] \in Int
    PROVE  SumUpTo(term, n) \in Int
<1>1. PICK u \in [0..n -> Int] : Solves(term, n, u)
    BY SolutionExists
<1>2. SumUpTo(term, n) = u[n]
    BY <1>1, SumOfSolution
<1> QED BY <1>2

\* The empty sum.
LEMMA SumEmpty ==
    ASSUME NEW term
    PROVE  SumUpTo(term, 0) = 0
<1> DEFINE u == [i \in 0..0 |-> 0]
<1>1. Solves(term, 0, u)
    BY DEF Solves
<1>2. SumUpTo(term, 0) = u[0]
    BY <1>1, SumOfSolution
<1> QED BY <1>2

\* One more term adds itself.
LEMMA SumExtend ==
    ASSUME NEW n \in Nat, NEW old, NEW new,
           \A i \in 1..n : old[i] \in Int /\ new[i] = old[i],
           new[n + 1] \in Int
    PROVE  SumUpTo(new, n + 1) = SumUpTo(old, n) + new[n + 1]
<1>1. PICK u \in [0..n -> Int] : Solves(old, n, u)
    BY SolutionExists
<1> DEFINE v == [i \in 0..(n + 1) |-> IF i = n + 1 THEN u[n] + new[n + 1] ELSE u[i]]
<1>2. \A i \in 0..(n + 1) : v[i] = IF i = 0 THEN 0 ELSE v[i - 1] + new[i]
    <2>1. \A i \in 0..n : u[i] = IF i = 0 THEN 0 ELSE u[i - 1] + old[i]
        BY <1>1 DEF Solves
    <2> QED BY <2>1
<1>3. Solves(new, n + 1, v)
    BY <1>2 DEF Solves
<1>4. SumUpTo(new, n + 1) = v[n + 1]
    <2> HIDE DEF v
    <2>1. n + 1 \in Nat OBVIOUS
    <2> QED BY <2>1, <1>3, SumOfSolution
<1>5. SumUpTo(old, n) = u[n]
    BY <1>1, SumOfSolution
<1> QED BY <1>4, <1>5

\* Changing one term moves the sum by the change.
LEMMA SumUpdate ==
    ASSUME NEW n \in Nat, NEW old, NEW new, NEW k \in 1..n,
           \A i \in 1..n : old[i] \in Int /\ new[i] \in Int,
           \A i \in 1..n : i # k => new[i] = old[i]
    PROVE  SumUpTo(new, n) = SumUpTo(old, n) + (new[k] - old[k])
<1>1. PICK u \in [0..n -> Int] : Solves(old, n, u)
    BY SolutionExists
<1> DEFINE v == [i \in 0..n |-> IF i >= k THEN u[i] + (new[k] - old[k]) ELSE u[i]]
<1>2. \A i \in 0..n : v[i] = IF i = 0 THEN 0 ELSE v[i - 1] + new[i]
    <2>1. \A i \in 0..n : u[i] = IF i = 0 THEN 0 ELSE u[i - 1] + old[i]
        BY <1>1 DEF Solves
    <2>2. TAKE i \in 0..n
    <2>3. CASE i = 0
        BY <2>1, <2>3
    <2>4. CASE i # 0 /\ i < k
        BY <2>1, <2>4
    <2>5. CASE i = k
        <3>1. v[k] = u[k] + (new[k] - old[k]) /\ v[k - 1] = u[k - 1]
            OBVIOUS
        <3>2. u[k] = u[k - 1] + old[k]
            BY <2>1
        <3>3. old[k] \in Int /\ new[k] \in Int /\ u[k] \in Int /\ u[k - 1] \in Int
            OBVIOUS
        <3>4. v[k] = v[k - 1] + new[k]
            <4> HIDE DEF v
            <4> QED BY <3>1, <3>2, <3>3
        <3> QED BY <2>5, <3>4
    <2>6. CASE i > k
        <3>1. v[i] = u[i] + (new[k] - old[k]) /\ v[i - 1] = u[i - 1] + (new[k] - old[k])
            BY <2>6
        <3>2. u[i] = u[i - 1] + old[i] /\ new[i] = old[i]
            BY <2>1, <2>6
        <3>3. /\ old[k] \in Int /\ new[k] \in Int /\ old[i] \in Int
              /\ u[i] \in Int /\ u[i - 1] \in Int
            BY <2>6
        <3>4. v[i] = v[i - 1] + new[i]
            <4> HIDE DEF v
            <4> QED BY <3>1, <3>2, <3>3
        <3> QED BY <2>6, <3>4
    <2> QED BY <2>3, <2>4, <2>5, <2>6
<1>3. Solves(new, n, v)
    BY <1>2 DEF Solves
<1>4. SumUpTo(new, n) = v[n]
    <2> HIDE DEF v
    <2> QED BY <1>3, SumOfSolution
<1>5. SumUpTo(old, n) = u[n]
    BY <1>1, SumOfSolution
<1> QED BY <1>4, <1>5

\* Sums of equal terms are equal.
LEMMA SumSame ==
    ASSUME NEW n \in Nat, NEW old, NEW new,
           \A i \in 1..n : old[i] \in Int /\ new[i] = old[i]
    PROVE  SumUpTo(new, n) = SumUpTo(old, n)
<1>1. PICK u \in [0..n -> Int] : Solves(old, n, u)
    BY SolutionExists
<1>2. Solves(new, n, u)
    BY <1>1 DEF Solves
<1> QED BY <1>1, <1>2, SumOfSolution

-----------------------------------------------------------------------------
(* The circuit's fold over the slots is a maximum.                         *)

\* running satisfies the recursion of RunningSecondMax.
Folds(other, running) ==
    running = [i \in Slots |->
                  IF i = 1 THEN other[1]
                  ELSE IF running[i - 1] >= other[i] THEN running[i - 1] ELSE other[i]]

\* m is the largest of the first k terms.
IsMaxUpTo(other, k, m) ==
    /\ \E i \in 1..k : other[i] = m
    /\ \A i \in 1..k : other[i] <= m

\* Whatever satisfies the recursion holds the maximum of each prefix.
LEMMA FoldHoldsMaximum ==
    ASSUME NEW other, \A i \in Slots : other[i] \in Int,
           NEW running, Folds(other, running)
    PROVE  \A k \in Slots : IsMaxUpTo(other, k, running[k])
<1> DEFINE T == {k \in Nat : k + 1 \in Slots => IsMaxUpTo(other, k + 1, running[k + 1])}
<1>1. MaxBidSlots \in Nat /\ Slots = 1..MaxBidSlots
    BY SlotsAssumption DEF Slots
<1>2. 0 \in T
    <2>1. CASE 1 \in Slots
        BY <2>1 DEF Folds, IsMaxUpTo
    <2> QED BY <2>1
<1>3. ASSUME NEW k \in Nat, k \in T PROVE k + 1 \in T
    <2>1. SUFFICES ASSUME k + 2 \in Slots PROVE IsMaxUpTo(other, k + 2, running[k + 2])
        OBVIOUS
    <2>2. k + 1 \in Slots /\ IsMaxUpTo(other, k + 1, running[k + 1])
        BY <1>1, <1>3, <2>1
    <2>3. running[k + 2] = IF running[k + 1] >= other[k + 2] THEN running[k + 1]
                           ELSE other[k + 2]
        BY <1>1, <2>1 DEF Folds
    <2>4. other[k + 2] \in Int /\ running[k + 1] \in Int
        BY <2>1, <2>2, <1>1 DEF IsMaxUpTo
    <2>5. \A i \in 1..(k + 2) : i \in 1..(k + 1) \/ i = k + 2
        OBVIOUS
    <2>6. \A i \in 1..(k + 1) : other[i] \in Int /\ i \in 1..(k + 2)
        BY <1>1, <2>1
    <2> QED BY <2>2, <2>3, <2>4, <2>5, <2>6 DEF IsMaxUpTo
<1>4. Nat \subseteq T
    <2> HIDE DEF T
    <2> QED BY <1>2, <1>3, SetInduction
<1>5. TAKE k \in Slots
<1>6. k - 1 \in Nat /\ (k - 1) + 1 = k
    BY <1>1
<1> QED BY <1>4, <1>6

LEMMA FoldExists ==
    ASSUME NEW other
    PROVE  \E running : Folds(other, running)
<1> DEFINE Upto(k, r) == r = [i \in 1..k |->
                  IF i = 1 THEN other[1]
                  ELSE IF r[i - 1] >= other[i] THEN r[i - 1] ELSE other[i]]
           T == {k \in Nat : \E r : Upto(k, r)}
<1>1. 0 \in T
    <2> DEFINE r == [i \in 1..0 |-> 0]
    <2>1. Upto(0, r)
        OBVIOUS
    <2> QED BY <2>1
<1>2. ASSUME NEW k \in Nat, k \in T PROVE k + 1 \in T
    <2>1. PICK r : Upto(k, r)
        BY <1>2
    <2> DEFINE last == IF k = 0 THEN other[1]
                       ELSE IF r[k] >= other[k + 1] THEN r[k] ELSE other[k + 1]
               s == [i \in 1..(k + 1) |-> IF i = k + 1 THEN last ELSE r[i]]
    <2>2. \A i \in 1..(k + 1) :
            s[i] = IF i = 1 THEN other[1]
                   ELSE IF s[i - 1] >= other[i] THEN s[i - 1] ELSE other[i]
        <3> TAKE i \in 1..(k + 1)
        <3>1. CASE i = k + 1
            BY <3>1
        <3>2. CASE i # k + 1
            <4>1. i \in 1..k /\ s[i] = r[i]
                BY <3>2
            <4>2. r[i] = IF i = 1 THEN other[1]
                         ELSE IF r[i - 1] >= other[i] THEN r[i - 1] ELSE other[i]
                BY <2>1, <4>1
            <4>3. i # 1 => s[i - 1] = r[i - 1]
                BY <4>1
            <4> QED BY <4>1, <4>2, <4>3
        <3> QED BY <3>1, <3>2
    <2>3. Upto(k + 1, s)
        <3>1. s = [i \in 1..(k + 1) |-> s[i]]
            OBVIOUS
        <3> HIDE DEF s
        <3> QED BY <2>2, <3>1
    <2> HIDE DEF Upto
    <2> QED BY <2>3
<1>3. Nat \subseteq T
    <2> HIDE DEF T
    <2> QED BY <1>1, <1>2, SetInduction
<1> QED BY <1>3, SlotsAssumption DEF Slots, Folds

\* What the circuit compares the claimed price with is the highest of the
\* prices it is given.
LEMMA RunningSecondMaxIsMax ==
    ASSUME NEW other, \A i \in Slots : other[i] \in Int
    PROVE  /\ \E i \in Slots : other[i] = RunningSecondMax(other)
           /\ \A i \in Slots : other[i] <= RunningSecondMax(other)
<1> DEFINE running == CHOOSE r : Folds(other, r)
<1>1. Folds(other, running)
    BY FoldExists
<1>2. RunningSecondMax(other) = running[MaxBidSlots]
    BY DEF RunningSecondMax, Folds
<1> HIDE DEF running
<1>3. MaxBidSlots \in Slots
    BY SlotsAssumption DEF Slots
<1>4. IsMaxUpTo(other, MaxBidSlots, running[MaxBidSlots])
    BY <1>1, <1>3, FoldHoldsMaximum
<1> QED BY <1>2, <1>4 DEF IsMaxUpTo, Slots

\* The winner the circuit accepts, and no other slot, is the lowest one that
\* holds the highest price.
LEMMA WinnerIsVickrey ==
    ASSUME NEW price, \A i \in Slots : price[i] \in Nat, NEW w \in Slots
    PROVE  HoldsMaximum(price, w) <=> IsVickreyWinner(price, w)
<1> DEFINE highest == RunningSecondMax(price)
           prices == {price[i] : i \in Slots}
<1>1. \A i \in Slots : price[i] \in Int /\ i \in Nat
    BY SlotsAssumption DEF Slots
<1>2. highest \in prices /\ \A i \in Slots : price[i] <= highest
    BY <1>1, RunningSecondMaxIsMax
<1>3. \A p \in prices : (\A i \in Slots : price[i] <= p) => p = highest
    <2> HIDE DEF highest
    <2> QED BY <1>1, <1>2
<1>4. HighestPrice(price) = highest
    <2>1. HighestPrice(price) \in prices /\ \A i \in Slots : price[i] <= HighestPrice(price)
        BY <1>2 DEF HighestPrice
    <2> HIDE DEF highest, prices
    <2> QED BY <1>3, <2>1
<1> HIDE DEF highest
<1>5. ASSUME HoldsMaximum(price, w) PROVE IsVickreyWinner(price, w)
    <2>1. price[w] = highest
        BY <1>3, <1>5 DEF HoldsMaximum
    <2>2. \A i \in Slots : price[i] = highest => w <= i
        BY <1>1, <1>5, <2>1 DEF HoldsMaximum
    <2> QED BY <1>4, <2>1, <2>2 DEF IsVickreyWinner
<1>6. ASSUME IsVickreyWinner(price, w) PROVE HoldsMaximum(price, w)
    <2>1. price[w] = highest /\ \A i \in Slots : price[i] = highest => w <= i
        BY <1>4, <1>6 DEF IsVickreyWinner
    <2> QED BY <1>1, <1>2, <2>1 DEF HoldsMaximum
<1> QED BY <1>5, <1>6

\* The price the circuit accepts, and no other, is the best rival price.
LEMMA PriceIsClearing ==
    ASSUME NEW price, \A i \in Slots : price[i] \in Nat, NEW w \in Slots, NEW p \in Int
    PROVE  p = RunningSecondMax(OtherPrices(price, w)) <=> IsClearingPrice(price, w, p)
<1> DEFINE other == OtherPrices(price, w)
           best == RunningSecondMax(other)
<1>1. /\ \A i \in Slots : other[i] \in Nat
      /\ other[w] = 0
      /\ \A i \in Slots \ {w} : other[i] = price[i]
    BY DEF OtherPrices
<1> HIDE DEF other
<1>2. /\ \E i \in Slots : other[i] = best
      /\ \A i \in Slots : other[i] <= best
    BY <1>1, RunningSecondMaxIsMax
<1> HIDE DEF best
<1>3. best \in Nat /\ IsClearingPrice(price, w, best)
    BY <1>1, <1>2 DEF IsClearingPrice
<1>4. ASSUME IsClearingPrice(price, w, p) PROVE p = best
    <2>1. p >= 0 /\ best >= p
        BY <1>1, <1>2, <1>3, <1>4 DEF IsClearingPrice
    <2>2. best = 0 \/ best <= p
        BY <1>1, <1>2, <1>4 DEF IsClearingPrice
    <2> QED BY <1>3, <2>1, <2>2
<1> QED BY <1>3, <1>4 DEF best, other

\* Slot w would win if there were only the first k slots.
HoldsBelow(price, w, k) ==
    \A i \in 1..k : /\ price[w] >= price[i]
                    /\ i < w => price[w] > price[i]

\* Every vector of prices has a winner, and every slot a best rival price.
LEMMA OutcomeExists ==
    ASSUME NEW price, \A i \in Slots : price[i] \in Nat
    PROVE  /\ \E w \in Slots : IsVickreyWinner(price, w)
           /\ \A w \in Slots : \E p \in Nat : IsClearingPrice(price, w, p)
<1> DEFINE T == {k \in Nat : k + 1 \in Slots => \E w \in 1..(k + 1) : HoldsBelow(price, w, k + 1)}
<1>1. MaxBidSlots \in Nat \ {0} /\ Slots = 1..MaxBidSlots
    BY SlotsAssumption DEF Slots
<1>2. 0 \in T
    BY <1>1 DEF HoldsBelow
<1>3. ASSUME NEW k \in Nat, k \in T PROVE k + 1 \in T
    <2>1. SUFFICES ASSUME k + 2 \in Slots PROVE \E w \in 1..(k + 2) : HoldsBelow(price, w, k + 2)
        OBVIOUS
    <2>2. PICK v \in 1..(k + 1) : HoldsBelow(price, v, k + 1)
        BY <1>1, <1>3, <2>1
    <2>3. \A i \in 1..(k + 2) : price[i] \in Nat /\ (i \in 1..(k + 1) \/ i = k + 2)
        BY <1>1, <2>1
    <2>4. v \in 1..(k + 2) /\ k + 2 \in 1..(k + 2)
        OBVIOUS
    <2>5. CASE price[k + 2] > price[v]
        <3>1. HoldsBelow(price, k + 2, k + 2)
            <4> SUFFICES ASSUME NEW i \in 1..(k + 2)
                         PROVE  /\ price[k + 2] >= price[i]
                                /\ i < k + 2 => price[k + 2] > price[i]
                BY DEF HoldsBelow
            <4>1. CASE i \in 1..(k + 1)
                <5>1. price[v] \in Nat /\ price[i] \in Nat /\ price[k + 2] \in Nat
                    BY <2>3, <2>4
                <5>2. price[v] >= price[i]
                    BY <2>2, <4>1, <5>1 DEF HoldsBelow
                <5> QED BY <5>1, <5>2, <2>5
            <4>2. CASE i = k + 2
                BY <4>2, <2>3, <2>4
            <4> QED BY <2>3, <4>1, <4>2
        <3> QED BY <2>4, <3>1
    <2>6. CASE ~(price[k + 2] > price[v])
        <3>1. HoldsBelow(price, v, k + 2)
            BY <2>2, <2>3, <2>4, <2>6 DEF HoldsBelow
        <3> QED BY <2>4, <3>1
    <2> QED BY <2>5, <2>6
<1>4. MaxBidSlots - 1 \in Nat /\ (MaxBidSlots - 1) + 1 = MaxBidSlots
    BY <1>1
<1>5. MaxBidSlots - 1 \in T
    <2>1. Nat \subseteq T
        <3> HIDE DEF T
        <3> QED BY <1>2, <1>3, SetInduction
    <2> QED BY <1>4, <2>1
<1>6. PICK w \in Slots : HoldsBelow(price, w, MaxBidSlots)
    BY <1>1, <1>4, <1>5
<1>7. HoldsMaximum(price, w)
    BY <1>1, <1>6 DEF HoldsBelow, HoldsMaximum
<1>8. IsVickreyWinner(price, w)
    BY <1>7, WinnerIsVickrey
<1>9. ASSUME NEW v \in Slots PROVE \E p \in Nat : IsClearingPrice(price, v, p)
    <2> DEFINE best == RunningSecondMax(OtherPrices(price, v))
    <2>1. \A i \in Slots : OtherPrices(price, v)[i] \in Nat
        BY DEF OtherPrices
    <2>2. best \in Nat
        BY <2>1, RunningSecondMaxIsMax
    <2>3. IsClearingPrice(price, v, best)
        <3>1. best \in Int /\ best = RunningSecondMax(OtherPrices(price, v))
            BY <2>2
        <3> HIDE DEF best
        <3> QED BY <3>1, PriceIsClearing
    <2> QED BY <2>2, <2>3
<1> QED BY <1>8, <1>9

\* The circuit is the second-price rule: for every number of slots and every
\* vector of prices in range, its selector and fold constraints hold of exactly
\* the lowest slot with the highest price and of the best price of the others.
THEOREM CircuitIsVickrey ==
    ASSUME NEW pub, NEW price, NEW salt, pub.winningPrice \in Int
    PROVE  WinnerStatement(pub, price, salt) <=>
              /\ \A i \in Slots : price[i] \in 0..U64Max
              /\ BindsCommitments(pub, price, salt)
              /\ IsVickreyWinner(price, pub.winnerIndex)
              /\ IsClearingPrice(price, pub.winnerIndex, pub.winningPrice)
              /\ pub.winningPrice # 0
              /\ pub.winnerAddrHash \in pub.whitelistRoot
<1> SUFFICES ASSUME \A i \in Slots : price[i] \in 0..U64Max, pub.winnerIndex \in Slots
             PROVE  /\ HoldsMaximum(price, pub.winnerIndex)
                        <=> IsVickreyWinner(price, pub.winnerIndex)
                    /\ pub.winningPrice = RunningSecondMax(OtherPrices(price, pub.winnerIndex))
                        <=> IsClearingPrice(price, pub.winnerIndex, pub.winningPrice)
    BY DEF WinnerStatement, IsVickreyWinner
<1>1. \A i \in Slots : price[i] \in Nat
    BY U64Assumption
<1> QED BY <1>1, WinnerIsVickrey, PriceIsClearing
=============================================================================
