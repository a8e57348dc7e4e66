-------------------------- MODULE AuctionPagesProofs --------------------------
(***************************************************************************)
(* The auction list, for any auctions, filters, sorts, page sizes and      *)
(* steps of the list and its index: a walk over the pages that nothing     *)
(* disturbed shows every auction of the view once and in the view's order, *)
(* and the path over the chain shows the same auctions the index does.     *)
(*                                                                         *)
(* The arguments: a finite set under a strict total order has one          *)
(* arrangement, so two paths that order the same set show the same list;   *)
(* and the cursor of a page is the key of its last row, so the next page   *)
(* begins right after it.                                                  *)
(***************************************************************************)
EXTENDS AuctionPages, AuctionWinnerProofs

-----------------------------------------------------------------------------
(* Arrangements: a finite set under a strict total order has exactly one   *)
(* sequence that runs through it in that order.                            *)

StrictOrderOn(R, S) ==
    /\ \A x \in S : <<x, x>> \notin R
    /\ \A x, y, z \in S : <<x, y>> \in R /\ <<y, z>> \in R => <<x, z>> \in R
    /\ \A x, y \in S : x # y => <<x, y>> \in R \/ <<y, x>> \in R

InOrder(s, R) == \A m, n \in DOMAIN s : m < n => <<s[m], s[n]>> \in R

\* s runs through all of S in the order R, in n places.
RunsThrough(s, n, S, R) ==
    /\ s \in [1..n -> S] /\ InOrder(s, R)
    /\ \A x \in S : \E i \in 1..n : s[i] = x

\* A finite set that is not empty has a first element.
LEMMA FirstInOrder ==
    ASSUME NEW S, IsFiniteSet(S), S # {}, NEW R, StrictOrderOn(R, S)
    PROVE  \E x \in S : \A y \in S \ {x} : <<x, y>> \in R
<1> DEFINE HasFirst(U) == \E x \in U : \A y \in U \ {x} : <<x, y>> \in R
           T == {k \in Nat : \A U \in SUBSET S :
                                IsFiniteSet(U) /\ Cardinality(U) = k + 1 => HasFirst(U)}
<1>1. 0 \in T
  <2>1. ASSUME NEW U \in SUBSET S, IsFiniteSet(U), Cardinality(U) = 0 + 1 PROVE HasFirst(U)
    <3>0. Cardinality(U) = 1
      BY <2>1
    <3>1. PICK x : U = {x}
      BY <2>1, <3>0, FS_Singleton
    <3>. QED  BY <3>1
  <2>. QED  BY <2>1
<1>2. ASSUME NEW k \in Nat, k \in T PROVE k + 1 \in T
  <2>1. ASSUME NEW U \in SUBSET S, IsFiniteSet(U), Cardinality(U) = (k + 1) + 1
        PROVE  HasFirst(U)
    <3>1. PICK u : u \in U
      <4>1. U # {}
        BY <2>1, FS_EmptySet
      <4>. QED  BY <4>1
    <3>2. IsFiniteSet(U \ {u}) /\ Cardinality(U \ {u}) = k + 1
      BY <2>1, <3>1, FS_RemoveElement
    <3>3. PICK x \in U \ {u} : \A y \in (U \ {u}) \ {x} : <<x, y>> \in R
      BY <1>2, <3>2
    <3>4. CASE <<x, u>> \in R
      BY <3>3, <3>4
    <3>5. CASE <<x, u>> \notin R
      <4>1. <<u, x>> \in R
        BY <3>1, <3>3, <3>5 DEF StrictOrderOn
      <4>2. \A y \in U \ {u} : <<u, y>> \in R
        BY <3>1, <3>3, <4>1 DEF StrictOrderOn
      <4>. QED  BY <3>1, <4>2
    <3>. QED  BY <3>4, <3>5
  <2>. QED  BY <2>1
<1>3. Nat \subseteq T
  <2>. HIDE DEF T
  <2>. QED  BY <1>1, <1>2, SetInduction
<1>4. Cardinality(S) \in Nat /\ Cardinality(S) # 0
  BY FS_CardinalityType, FS_EmptySet
<1>5. Cardinality(S) - 1 \in T /\ (Cardinality(S) - 1) + 1 = Cardinality(S)
  BY <1>3, <1>4
<1>. QED  BY <1>5

LEMMA ArrangementExists ==
    ASSUME NEW S, IsFiniteSet(S), NEW R, StrictOrderOn(R, S)
    PROVE  \E s \in [1..Cardinality(S) -> S] : InOrder(s, R)
<1> DEFINE T == {k \in Nat : \A U \in SUBSET S :
                                IsFiniteSet(U) /\ Cardinality(U) = k =>
                                    \E s \in [1..k -> U] : InOrder(s, R)}
<1>1. 0 \in T
  <2>1. ASSUME NEW U \in SUBSET S PROVE \E s \in [1..0 -> U] : InOrder(s, R)
    <3> DEFINE e == [i \in 1..0 |-> 0]
    <3>0. 1..0 = {}
      OBVIOUS
    <3>1. e \in [1..0 -> U] /\ InOrder(e, R)
      BY <3>0 DEF InOrder
    <3>. QED  BY <3>1
  <2>. QED  BY <2>1
<1>2. ASSUME NEW k \in Nat, k \in T PROVE k + 1 \in T
  <2>1. ASSUME NEW U \in SUBSET S, IsFiniteSet(U), Cardinality(U) = k + 1
        PROVE  \E s \in [1..(k + 1) -> U] : InOrder(s, R)
    <3>1. U # {} /\ StrictOrderOn(R, U)
      <4>1. U # {}
        <5>1. k + 1 # 0
          OBVIOUS
        <5>. QED  BY <2>1, <5>1, FS_EmptySet
      <4>2. StrictOrderOn(R, U)
        BY DEF StrictOrderOn
      <4>. QED  BY <4>1, <4>2
    <3>2. PICK x \in U : \A y \in U \ {x} : <<x, y>> \in R
      BY <2>1, <3>1, FirstInOrder
    <3>3. IsFiniteSet(U \ {x}) /\ Cardinality(U \ {x}) = k
      <4>1. Cardinality(U \ {x}) = Cardinality(U) - 1 /\ IsFiniteSet(U \ {x})
        BY <2>1, FS_RemoveElement
      <4>. QED  BY <2>1, <4>1
    <3>4. PICK s \in [1..k -> U \ {x}] : InOrder(s, R)
      BY <1>2, <3>3
    <3> DEFINE t == [i \in 1..(k + 1) |-> IF i = 1 THEN x ELSE s[i - 1]]
    <3>5. t \in [1..(k + 1) -> U]
      OBVIOUS
    <3>6. ASSUME NEW m \in 1..(k + 1), NEW n \in 1..(k + 1), m < n PROVE <<t[m], t[n]>> \in R
      <4>1. n - 1 \in 1..k /\ t[n] = s[n - 1] /\ s[n - 1] \in U \ {x}
        BY <3>6
      <4>2. CASE m = 1
        BY <3>2, <4>1, <4>2
      <4>3. CASE m # 1
        <5>1. m - 1 \in 1..k /\ t[m] = s[m - 1] /\ m - 1 < n - 1
          BY <3>6, <4>3
        <5>. QED  BY <3>4, <4>1, <5>1 DEF InOrder
      <4>. QED  BY <4>2, <4>3
    <3>7. InOrder(t, R)
      BY <3>5, <3>6 DEF InOrder
    <3>. QED  BY <3>5, <3>7
  <2>. QED  BY <2>1
<1>3. Nat \subseteq T
  <2>. HIDE DEF T
  <2>. QED  BY <1>1, <1>2, SetInduction
<1>4. Cardinality(S) \in T
  BY <1>3, FS_CardinalityType
<1>. QED  BY <1>4

\* Of as many places as there are elements none is left out.
LEMMA ArrangementIsWhole ==
    ASSUME NEW S, IsFiniteSet(S), NEW R, StrictOrderOn(R, S),
           NEW s \in [1..Cardinality(S) -> S], InOrder(s, R)
    PROVE  \A x \in S : \E n \in DOMAIN s : s[n] = x
<1>1. Cardinality(S) \in Nat
  BY FS_CardinalityType
<1>2. ASSUME NEW m \in 1..Cardinality(S), NEW n \in 1..Cardinality(S), s[m] = s[n]
      PROVE  m = n
  <2>1. m \in Int /\ n \in Int
    BY <1>1
  <2>2. s[m] \in S /\ <<s[m], s[m]>> \notin R
    BY DEF StrictOrderOn
  <2>3. m < n => <<s[m], s[n]>> \in R
    BY DEF InOrder
  <2>4. n < m => <<s[n], s[m]>> \in R
    BY DEF InOrder
  <2>. QED  BY <1>2, <2>1, <2>2, <2>3, <2>4
<1>3. s \in Injection(1..Cardinality(S), S)
  BY <1>2 DEF Injection, IsInjective
<1>4. IsFiniteSet(1..Cardinality(S)) /\ Cardinality(1..Cardinality(S)) = Cardinality(S)
  BY <1>1, FS_Interval
<1>5. s \in Surjection(1..Cardinality(S), S)
  BY <1>3, <1>4, FS_Injection
<1>. QED  BY <1>5 DEF Surjection

LEMMA SameSoFar ==
    ASSUME NEW S, NEW R, StrictOrderOn(R, S), NEW a \in Nat, NEW b \in Nat,
           NEW s, RunsThrough(s, a, S, R), NEW t, RunsThrough(t, b, S, R)
    PROVE  \A k \in 1..a : k \in 1..b /\ s[k] = t[k]
<1> DEFINE T == {k \in Nat : \A i \in 1..k : i <= a => i <= b /\ s[i] = t[i]}
<1>0. /\ s \in [1..a -> S] /\ InOrder(s, R) /\ \A x \in S : \E i \in 1..a : s[i] = x
      /\ t \in [1..b -> S] /\ InOrder(t, R) /\ \A x \in S : \E i \in 1..b : t[i] = x
  BY DEF RunsThrough
<1>1. 0 \in T
  OBVIOUS
<1>2. ASSUME NEW k \in Nat, k \in T PROVE k + 1 \in T
  <2>1. SUFFICES ASSUME k + 1 <= a PROVE k + 1 <= b /\ s[k + 1] = t[k + 1]
    <3>1. \A i \in 1..(k + 1) : i \in 1..k \/ i = k + 1
      OBVIOUS
    <3>. QED  BY <1>2, <3>1
  <2>2. \A i \in 1..k : i \in 1..a /\ i \in 1..b /\ s[i] = t[i]
    BY <1>2, <2>1
  <2>3. k + 1 \in 1..a
    BY <2>1
  <2>4. PICK j \in 1..b : t[j] = s[k + 1]
    BY <1>0, <2>3
  <2>5. ~(j \in 1..k)
    <3>1. \A i \in 1..k : i < k + 1
      OBVIOUS
    <3>2. \A i \in 1..k : s[i] # s[k + 1]
      BY <1>0, <2>2, <2>3, <3>1 DEF InOrder, StrictOrderOn
    <3>. QED  BY <2>2, <2>4, <3>2
  <2>6. k + 1 \in 1..b
    BY <2>5
  <2>7. j = k + 1
    <3>1. SUFFICES ASSUME j > k + 1 PROVE FALSE
      BY <2>5
    <3>2. <<t[k + 1], t[j]>> \in R
      BY <1>0, <2>6, <3>1 DEF InOrder
    <3>3. PICK i \in 1..a : s[i] = t[k + 1]
      BY <1>0, <2>6
    <3>4. ~(i \in 1..k)
      <4>1. \A l \in 1..k : l < k + 1
        OBVIOUS
      <4>2. \A l \in 1..k : t[l] # t[k + 1]
        BY <1>0, <2>2, <2>6, <4>1 DEF InOrder, StrictOrderOn
      <4>. QED  BY <2>2, <3>3, <4>2
    <3>5. i # k + 1
      BY <1>0, <2>3, <2>4, <3>2, <3>3 DEF StrictOrderOn
    <3>6. k + 1 < i
      BY <3>4, <3>5
    <3>7. <<s[k + 1], s[i]>> \in R
      BY <1>0, <2>3, <3>6 DEF InOrder
    <3>8. s[k + 1] \in S /\ t[k + 1] \in S
      BY <1>0, <2>3, <2>6
    <3>9. <<t[k + 1], s[k + 1]>> \in R /\ <<s[k + 1], t[k + 1]>> \in R
      BY <2>4, <3>2, <3>3, <3>7
    <3>10. PICK u \in S, v \in S : <<u, v>> \in R /\ <<v, u>> \in R
      BY <3>8, <3>9
    <3>11. <<u, u>> \notin R
      BY DEF StrictOrderOn
    <3>. QED  BY Zenon, <3>10, <3>11 DEF StrictOrderOn
  <2>. QED  BY <2>4, <2>6, <2>7
<1>3. Nat \subseteq T
  <2>. HIDE DEF T
  <2>. QED  BY <1>1, <1>2, SetInduction
<1>4. \A k \in 1..a : k \in Nat /\ k \in 1..k /\ k <= a
  OBVIOUS
<1>5. ASSUME NEW k \in 1..a PROVE k <= b /\ s[k] = t[k]
  BY <1>3, <1>4
<1>. QED  BY <1>4, <1>5

\* Two ways through the same set in the same order are one.
LEMMA ArrangementIsUnique ==
    ASSUME NEW S, NEW R, StrictOrderOn(R, S), NEW a \in Nat, NEW b \in Nat,
           NEW s, RunsThrough(s, a, S, R), NEW t, RunsThrough(t, b, S, R)
    PROVE  s = t
<1>1. \A k \in 1..a : k \in 1..b /\ s[k] = t[k]
  BY SameSoFar
<1>2. \A k \in 1..b : k \in 1..a
  BY SameSoFar
<1>3. 1..a = 1..b
  BY <1>1, <1>2
<1>. QED  BY <1>1, <1>3 DEF RunsThrough

-----------------------------------------------------------------------------
(* The order of the rows: by their keys, which no two rows share.          *)

RowType == [status : Statuses, deadline : Deadlines, filled : 0..MaxRowBids, mine : BOOLEAN]

RowsOK ==
    /\ IsFiniteSet(DOMAIN rows) /\ DOMAIN rows = 1..Cardinality(DOMAIN rows)
    /\ Len(symbol) = Cardinality(DOMAIN rows)
    /\ \E S : symbol \in Seq(S)
    /\ \A id \in DOMAIN rows : rows[id] \in RowType /\ (rows[id].mine => rows[id].filled > 0)

LEMMA RowFacts ==
    ASSUME RowsOK
    PROVE  /\ Cardinality(DOMAIN rows) \in Nat
           /\ DOMAIN rows \subseteq Nat
           /\ \A id \in DOMAIN rows : rows[id].filled \in Nat /\ rows[id].deadline \in Nat
                                      /\ rows[id].deadline < OPEN_RANK_MULTIPLIER
<1>1. Cardinality(DOMAIN rows) \in Nat
  BY FS_CardinalityType DEF RowsOK
<1>2. DOMAIN rows \subseteq Nat
  BY <1>1 DEF RowsOK
<1>3. ASSUME NEW id \in DOMAIN rows
      PROVE  rows[id].filled \in Nat /\ rows[id].deadline \in Nat
             /\ rows[id].deadline < OPEN_RANK_MULTIPLIER
  <2>1. rows[id] \in RowType
    BY DEF RowsOK
  <2>2. rows[id].filled \in 0..MaxRowBids /\ rows[id].deadline \in Deadlines
    BY <2>1 DEF RowType
  <2>3. rows[id].deadline \in 0..(OPEN_RANK_MULTIPLIER - 1)
    BY <2>2, ListAssumption
  <2>4. rows[id].filled \in Nat
    BY <2>2, ListAssumption
  <2>5. PICK d \in Int : d = rows[id].deadline /\ d \in 0..(OPEN_RANK_MULTIPLIER - 1)
    BY <2>3
  <2>6. d \in Nat /\ d < OPEN_RANK_MULTIPLIER
    BY <2>5, ListAssumption
  <2>. QED  BY <2>4, <2>5, <2>6
<1>. QED  BY <1>1, <1>2, <1>3

\* The key k stands before the key l.
KeyBefore(k, l, sort) ==
    IF sort = "closing" THEN k[1] < l[1] \/ (k[1] = l[1] /\ k[2] < l[2])
                        ELSE k[1] > l[1] \/ (k[1] = l[1] /\ k[2] > l[2])

IsKey(k, sort) ==
    \E a, b \in Int : k = <<a, b>> /\ (sort = "newest" => a = b)

LEMMA KeysAreOrdered ==
    ASSUME NEW sort, NEW k, IsKey(k, sort), NEW l, IsKey(l, sort), NEW m, IsKey(m, sort)
    PROVE  /\ ~KeyBefore(k, k, sort)
           /\ KeyBefore(k, l, sort) /\ KeyBefore(l, m, sort) => KeyBefore(k, m, sort)
           /\ ~KeyBefore(k, l, sort) /\ KeyBefore(k, m, sort) => KeyBefore(l, m, sort)
           /\ k[2] # l[2] => KeyBefore(k, l, sort) \/ KeyBefore(l, k, sort)
<1>1. PICK a \in Int, b \in Int : k = <<a, b>>
  BY DEF IsKey
<1>2. PICK c \in Int, d \in Int : l = <<c, d>>
  BY DEF IsKey
<1>3. PICK e \in Int, f \in Int : m = <<e, f>>
  BY DEF IsKey
<1>4. /\ k[1] = a /\ k[2] = b /\ l[1] = c /\ l[2] = d /\ m[1] = e /\ m[2] = f
  BY <1>1, <1>2, <1>3
<1>. QED  BY <1>4 DEF KeyBefore

LEMMA KeyFacts ==
    ASSUME RowsOK, NEW id \in DOMAIN rows, NEW sort \in Sorts
    PROVE  /\ IsKey(Key(id, sort), sort) /\ Key(id, sort)[2] = id /\ Key(id, sort) # NoCursor
           /\ Key(id, sort)[1] = sortValueOf(id, sort)
<1>1. /\ id \in Int /\ rows[id].filled \in Int /\ rows[id].deadline \in Int
      /\ OPEN_RANK_MULTIPLIER \in Int
  BY RowFacts, ListAssumption
<1>2. OpenRank(rows[id]) * OPEN_RANK_MULTIPLIER + rows[id].deadline \in Int
  <2>1. OpenRank(rows[id]) \in {0, 1}
    BY DEF OpenRank
  <2>2. OpenRank(rows[id]) * OPEN_RANK_MULTIPLIER \in Int
    BY <1>1, <2>1
  <2>. QED  BY <1>1, <2>2
<1>3. sortValueOf(id, sort) \in Int /\ (sort = "newest" => sortValueOf(id, sort) = id)
  BY <1>1, <1>2 DEF sortValueOf, Sorts
<1>4. Key(id, sort) = <<sortValueOf(id, sort), id>>
  BY DEF Key
<1>. QED  BY <1>1, <1>3, <1>4 DEF IsKey, NoCursor

LEMMA OrderIsByKey ==
    ASSUME RowsOK, NEW sort \in Sorts, NEW i \in DOMAIN rows
    PROVE  /\ \A j \in DOMAIN rows :
                 OrderedBefore(i, j, sort) <=> KeyBefore(Key(i, sort), Key(j, sort), sort)
           /\ \A c : IsKey(c, sort) =>
                 (CursorClause(i, c, sort) <=> KeyBefore(c, Key(i, sort), sort))
<1>1. ASSUME NEW j \in DOMAIN rows
      PROVE  OrderedBefore(i, j, sort) <=> KeyBefore(Key(i, sort), Key(j, sort), sort)
  <2>1. Key(i, sort)[2] = i /\ Key(j, sort)[2] = j
    BY KeyFacts
  <2>. QED  BY <2>1 DEF OrderedBefore, KeyBefore
<1>2. ASSUME NEW c, IsKey(c, sort)
      PROVE  CursorClause(i, c, sort) <=> KeyBefore(c, Key(i, sort), sort)
  <2>1. PICK a \in Int, b \in Int : c = <<a, b>> /\ (sort = "newest" => a = b)
    BY <1>2 DEF IsKey
  <2>2. c[1] = a /\ c[2] = b
    BY <2>1
  <2>3. Key(i, sort)[2] = i /\ i \in Int
    BY KeyFacts, RowFacts
  <2>4. PICK d \in Int : Key(i, sort)[1] = d /\ (sort = "newest" => d = i)
    <3>1. PICK x \in Int, y \in Int : Key(i, sort) = <<x, y>> /\ (sort = "newest" => x = y)
      BY KeyFacts DEF IsKey
    <3>. QED  BY <2>3, <3>1
  <2>5. CASE sort = "newest"
    BY <2>1, <2>2, <2>3, <2>4, <2>5 DEF CursorClause, KeyBefore
  <2>6. CASE sort = "bids"
    BY <2>1, <2>2, <2>3, <2>4, <2>6 DEF CursorClause, KeyBefore
  <2>7. CASE sort = "closing"
    BY <2>1, <2>2, <2>3, <2>4, <2>7 DEF CursorClause, KeyBefore
  <2>. QED  BY <2>5, <2>6, <2>7 DEF Sorts
<1>. QED  BY <1>1, <1>2

\* The order as a set of pairs.
RowOrder(sort) == {p \in (DOMAIN rows) \X (DOMAIN rows) : OrderedBefore(p[1], p[2], sort)}

LEMMA RowsAreOrdered ==
    ASSUME RowsOK, NEW sort \in Sorts, NEW S \in SUBSET DOMAIN rows
    PROVE  StrictOrderOn(RowOrder(sort), S)
<1>1. \A i, j \in S : <<i, j>> \in RowOrder(sort) <=> KeyBefore(Key(i, sort), Key(j, sort), sort)
  BY OrderIsByKey DEF RowOrder
<1>2. \A i \in S : IsKey(Key(i, sort), sort) /\ Key(i, sort)[2] = i
  BY KeyFacts
<1>3. \A i \in S : <<i, i>> \notin RowOrder(sort)
  BY <1>1, <1>2, KeysAreOrdered
<1>4. ASSUME NEW i \in S, NEW j \in S, NEW k \in S,
             <<i, j>> \in RowOrder(sort), <<j, k>> \in RowOrder(sort)
      PROVE  <<i, k>> \in RowOrder(sort)
  BY <1>1, <1>2, <1>4, KeysAreOrdered
<1>5. ASSUME NEW i \in S, NEW j \in S, i # j
      PROVE  <<i, j>> \in RowOrder(sort) \/ <<j, i>> \in RowOrder(sort)
  BY <1>1, <1>2, <1>5, KeysAreOrdered
<1>. QED  BY <1>3, <1>4, <1>5 DEF StrictOrderOn

\* What ORDER BY returns.
LEMMA OrderedFacts ==
    ASSUME RowsOK, NEW sort \in Sorts, NEW S \in SUBSET DOMAIN rows
    PROVE  /\ Cardinality(S) \in Nat
           /\ Ordered(S, sort) \in [1..Cardinality(S) -> S]
           /\ \A m, n \in 1..Cardinality(S) :
                 m < n => OrderedBefore(Ordered(S, sort)[m], Ordered(S, sort)[n], sort)
           /\ \A id \in S : \E n \in 1..Cardinality(S) : Ordered(S, sort)[n] = id
<1>1. IsFiniteSet(S) /\ Cardinality(S) \in Nat
  BY FS_Subset, FS_CardinalityType DEF RowsOK
<1> DEFINE R == RowOrder(sort)
           s == Ordered(S, sort)
<1>2. StrictOrderOn(R, S)
  BY RowsAreOrdered
<1>3. \A i, j \in S : <<i, j>> \in R <=> OrderedBefore(i, j, sort)
  BY DEF RowOrder
<1>. HIDE DEF R
<1>4. \E f \in [1..Cardinality(S) -> S] : InOrder(f, R)
  BY <1>1, <1>2, ArrangementExists
<1>5. \E f \in [1..Cardinality(S) -> S] :
         \A m, n \in DOMAIN f : m < n => OrderedBefore(f[m], f[n], sort)
  BY <1>3, <1>4 DEF InOrder
<1>6. /\ s \in [1..Cardinality(S) -> S]
      /\ \A m, n \in DOMAIN s : m < n => OrderedBefore(s[m], s[n], sort)
  BY <1>5 DEF Ordered
<1>. HIDE DEF s
<1>7. InOrder(s, R)
  BY <1>3, <1>6 DEF InOrder
<1>8. \A x \in S : \E n \in DOMAIN s : s[n] = x
  BY <1>1, <1>2, <1>6, <1>7, ArrangementIsWhole
<1>. QED  BY <1>1, <1>6, <1>8 DEF s

\* The rows a query finds.
Found(v, c) ==
    {id \in DOMAIN rows : Selected(rows[id], v) /\ (c = NoCursor \/ CursorClause(id, c, v.sort))}

\* A page is the beginning of what was found, in order; what it leaves out comes
\* after the row its cursor was made of.
LEMMA QueryFacts ==
    ASSUME RowsOK, NEW v \in ListViews, NEW c
    PROVE  LET got == query(v, c)
               page == got.page
           IN  /\ page \in Seq(Found(v, c))
               /\ \A m, n \in DOMAIN page : m < n => OrderedBefore(page[m], page[n], v.sort)
               /\ got.next = NoCursor =>
                      \A id \in Found(v, c) : \E m \in DOMAIN page : page[m] = id
               /\ got.next # NoCursor =>
                      \E last \in Found(v, c) :
                          /\ got.next = Key(last, v.sort)
                          /\ \A m \in DOMAIN page :
                                page[m] = last \/ OrderedBefore(page[m], last, v.sort)
                          /\ \A id \in Found(v, c) :
                                \/ \E m \in DOMAIN page : page[m] = id
                                \/ OrderedBefore(last, id, v.sort)
<1> DEFINE found == Found(v, c)
           ordered == Ordered(found, v.sort)
           size == Cardinality(found)
           more == Len(ordered) > PAGE_LIMIT
           page == IF more THEN SubSeq(ordered, 1, PAGE_LIMIT) ELSE ordered
           next == IF more THEN Key(Last(page), v.sort) ELSE NoCursor
<1>1. query(v, c) = [page |-> page, next |-> next]
  BY DEF query, Found
<1>2. query(v, c).page = page /\ query(v, c).next = next
  BY <1>1
<1>3. v.sort \in Sorts /\ found \in SUBSET DOMAIN rows
  BY DEF ListViews, Found
<1>. HIDE DEF found
<1>4. /\ size \in Nat /\ ordered \in [1..size -> found]
      /\ \A m, n \in 1..size : m < n => OrderedBefore(ordered[m], ordered[n], v.sort)
      /\ \A id \in found : \E n \in 1..size : ordered[n] = id
  BY <1>3, OrderedFacts
<1>. HIDE DEF size, ordered
<1>5. ordered \in Seq(found) /\ Len(ordered) = size /\ DOMAIN ordered = 1..size
  BY <1>4
<1>6. CASE ~more
  <2>1. page = ordered /\ next = NoCursor
    BY <1>6
  <2>. HIDE DEF page, next, more
  <2>. QED  BY <1>2, <1>4, <1>5, <2>1 DEF found
<1>7. CASE more
  <2>1. PAGE_LIMIT \in Nat \ {0} /\ PAGE_LIMIT < size
    BY <1>4, <1>5, <1>7, ListAssumption
  <2>2. page = SubSeq(ordered, 1, PAGE_LIMIT)
    BY <1>7
  <2>3. /\ page \in Seq(found) /\ Len(page) = PAGE_LIMIT /\ DOMAIN page = 1..PAGE_LIMIT
        /\ \A m \in 1..PAGE_LIMIT : page[m] = ordered[m]
    <3>. HIDE DEF page
    <3>. QED  BY <1>5, <2>1, <2>2
  <2> DEFINE last == ordered[PAGE_LIMIT]
  <2>4. last \in found /\ Last(page) = last
    <3>. HIDE DEF page
    <3>. QED  BY <1>4, <2>1, <2>3 DEF Last
  <2>5. next = Key(last, v.sort) /\ next # NoCursor
    <3>1. next = Key(last, v.sort)
      BY <1>7, <2>4
    <3>. HIDE DEF next, last
    <3>. QED  BY <1>3, <2>4, <3>1, KeyFacts
  <2>. HIDE DEF page, next
  <2>6. \A m \in DOMAIN page : page[m] = last \/ OrderedBefore(page[m], last, v.sort)
    <3>1. ASSUME NEW m \in 1..PAGE_LIMIT, m # PAGE_LIMIT
          PROVE  OrderedBefore(ordered[m], last, v.sort)
      <4>1. m \in 1..size /\ PAGE_LIMIT \in 1..size /\ m < PAGE_LIMIT
        BY <1>4, <2>1, <3>1
      <4>. QED  BY <1>4, <4>1
    <3>. QED  BY <2>3, <3>1
  <2>7. ASSUME NEW id \in found
        PROVE  (\E m \in DOMAIN page : page[m] = id) \/ OrderedBefore(last, id, v.sort)
    <3>1. PICK n \in 1..size : ordered[n] = id
      BY <1>4
    <3>2. CASE n \in 1..PAGE_LIMIT
      BY <2>3, <3>1, <3>2
    <3>3. CASE n \notin 1..PAGE_LIMIT
      <4>1. PAGE_LIMIT \in 1..size /\ PAGE_LIMIT < n
        BY <1>4, <2>1, <3>3
      <4>. QED  BY <1>4, <3>1, <4>1
    <3>. QED  BY <3>2, <3>3
  <2>8. ASSUME NEW m \in DOMAIN page, NEW n \in DOMAIN page, m < n
        PROVE  OrderedBefore(page[m], page[n], v.sort)
    <3>1. m \in 1..PAGE_LIMIT /\ n \in 1..PAGE_LIMIT /\ m \in 1..size /\ n \in 1..size
      BY <1>4, <2>1, <2>3
    <3>. QED  BY <1>4, <2>3, <2>8, <3>1
  <2>9. page \in Seq(found)
    BY <2>3
  <2>. HIDE DEF last
  <2>. QED  BY <1>2, <2>4, <2>5, <2>6, <2>7, <2>8, <2>9 DEF found
<1>. QED  BY <1>6, <1>7

-----------------------------------------------------------------------------
(* The inductive invariant of a walk: the steady rows on the pages belong  *)
(* there and are in order; none of them comes after the cursor, and every  *)
(* steady row of the list up to the cursor is on a page.                   *)

PagesInv ==
    /\ view \in ListViews /\ pages \in Seq(DOMAIN rows) /\ touched \subseteq DOMAIN rows

\* Until there is a cursor, nothing has been brought.
CursorInv ==
    /\ hasMore \in BOOLEAN /\ (hasMore \/ cursor = NoCursor)
    /\ cursor # NoCursor => IsKey(cursor, view.sort)
    /\ hasMore /\ cursor = NoCursor => pages = <<>>

\* What did not change since the walk began is on the pages as it was selected,
\* and in the order of the view.
ListedInv ==
    /\ \A m \in DOMAIN pages : pages[m] \in Steady => Selected(rows[pages[m]], view)
    /\ \A m, n \in DOMAIN pages :
          m < n /\ pages[m] \in Steady /\ pages[n] \in Steady =>
              OrderedBefore(pages[m], pages[n], view.sort)

IsListed(id) == \E m \in DOMAIN pages : pages[m] = id

\* The cursor is the boundary: of what did not change, nothing on the pages lies
\* past it, and everything that does not is on the pages; at the end, everything is.
CompleteInv ==
    /\ cursor # NoCursor =>
          /\ \A m \in DOMAIN pages :
                pages[m] \in Steady => ~CursorClause(pages[m], cursor, view.sort)
          /\ \A id \in Steady :
                Selected(rows[id], view) /\ ~CursorClause(id, cursor, view.sort) => IsListed(id)
    /\ ~hasMore => \A id \in Steady : Selected(rows[id], view) => IsListed(id)

ListInv == RowsOK /\ PagesInv /\ CursorInv /\ ListedInv /\ CompleteInv

LEMMA ListInitial == ListInit => ListInv
<1>. SUFFICES ASSUME ListInit PROVE ListInv
  OBVIOUS
<1>1. DOMAIN rows = {} /\ pages = <<>> /\ cursor = NoCursor /\ hasMore = TRUE /\ touched = {}
      /\ symbol = <<>> /\ view \in ListViews
  BY DEF ListInit
<1>2. RowsOK
  <2>1. IsFiniteSet(DOMAIN rows) /\ Cardinality(DOMAIN rows) = 0
    BY <1>1, FS_EmptySet
  <2>2. 1..0 = {} /\ symbol \in Seq({}) /\ Len(symbol) = 0
    BY <1>1
  <2>. QED  BY <1>1, <2>1, <2>2 DEF RowsOK
<1>3. PagesInv /\ CursorInv /\ ListedInv
  <2>1. pages \in Seq(DOMAIN rows) /\ DOMAIN pages = {}
    BY <1>1
  <2>. QED  BY <1>1, <2>1 DEF PagesInv, CursorInv, ListedInv
<1>4. CompleteInv
  BY <1>1 DEF CompleteInv
<1>. QED  BY <1>2, <1>3, <1>4 DEF ListInv

LEMMA RefetchListKeeps == ListInv /\ RefetchList => ListInv'
<1>. SUFFICES ASSUME ListInv, RefetchList PROVE ListInv'
  OBVIOUS
<1>1. /\ pages' = <<>> /\ cursor' = NoCursor /\ hasMore' = TRUE /\ touched' = {}
      /\ UNCHANGED <<rows, symbol, view, changes>>
  BY DEF RefetchList
<1>2. RowsOK'
  BY <1>1 DEF ListInv, RowsOK
<1>3. PagesInv' /\ CursorInv' /\ ListedInv'
  <2>1. pages' \in Seq((DOMAIN rows)') /\ DOMAIN pages' = {}
    BY <1>1
  <2>. QED  BY <1>1, <2>1 DEF ListInv, PagesInv, CursorInv, ListedInv
<1>4. CompleteInv'
  BY <1>1 DEF CompleteInv
<1>. QED  BY <1>2, <1>3, <1>4 DEF ListInv

\* A cursor is the key of a row, and everything past it comes later than
\* everything up to it.
LEMMA PastTheCursor ==
    ASSUME RowsOK, NEW sort \in Sorts, NEW c, IsKey(c, sort),
           NEW i \in DOMAIN rows, ~CursorClause(i, c, sort),
           NEW j \in DOMAIN rows, CursorClause(j, c, sort)
    PROVE  OrderedBefore(i, j, sort)
<1>1. ~KeyBefore(c, Key(i, sort), sort) /\ KeyBefore(c, Key(j, sort), sort)
  BY OrderIsByKey
<1>2. IsKey(Key(i, sort), sort) /\ IsKey(Key(j, sort), sort)
  BY KeyFacts
<1>3. KeyBefore(Key(i, sort), Key(j, sort), sort)
  BY <1>1, <1>2, KeysAreOrdered
<1>. QED  BY <1>3, OrderIsByKey

\* The key of a row as the cursor: the rows it comes before, and those it does not.
LEMMA CursorOfRow ==
    ASSUME RowsOK, NEW sort \in Sorts, NEW last \in DOMAIN rows, NEW i \in DOMAIN rows
    PROVE  /\ CursorClause(i, Key(last, sort), sort) <=> OrderedBefore(last, i, sort)
           /\ i = last \/ OrderedBefore(i, last, sort) =>
                 ~CursorClause(i, Key(last, sort), sort)
<1>1. IsKey(Key(i, sort), sort) /\ IsKey(Key(last, sort), sort)
  BY KeyFacts
<1>2. CursorClause(i, Key(last, sort), sort) <=> KeyBefore(Key(last, sort), Key(i, sort), sort)
  BY <1>1, OrderIsByKey
<1>3. OrderedBefore(last, i, sort) <=> KeyBefore(Key(last, sort), Key(i, sort), sort)
  BY OrderIsByKey
<1>4. OrderedBefore(i, last, sort) <=> KeyBefore(Key(i, sort), Key(last, sort), sort)
  BY OrderIsByKey
<1>5. /\ ~KeyBefore(Key(last, sort), Key(last, sort), sort)
      /\ KeyBefore(Key(i, sort), Key(last, sort), sort)
            => ~KeyBefore(Key(last, sort), Key(i, sort), sort)
  BY <1>1, KeysAreOrdered
<1>. QED  BY <1>2, <1>3, <1>4, <1>5

LEMMA FetchNextPageKeeps == ListInv /\ FetchNextPage => ListInv'
<1>. SUFFICES ASSUME ListInv, FetchNextPage PROVE ListInv'
  OBVIOUS
<1>1. PICK got : got = query(view, cursor)
  OBVIOUS
<1>2. /\ hasMore /\ pages' = pages \o got.page /\ cursor' = got.next
      /\ hasMore' = (got.next # NoCursor)
      /\ UNCHANGED <<rows, symbol, view, touched, changes>>
  BY <1>1 DEF FetchNextPage
<1>3. RowsOK /\ view \in ListViews /\ view.sort \in Sorts /\ pages \in Seq(DOMAIN rows)
      /\ touched \subseteq DOMAIN rows
  BY DEF ListInv, PagesInv, ListViews
<1>4. PICK page : page = got.page
  OBVIOUS
<1>5. /\ page \in Seq(Found(view, cursor))
      /\ \A m, n \in DOMAIN page : m < n => OrderedBefore(page[m], page[n], view.sort)
      /\ got.next = NoCursor =>
             \A id \in Found(view, cursor) : \E m \in DOMAIN page : page[m] = id
      /\ got.next # NoCursor =>
             \E last \in Found(view, cursor) :
                 /\ got.next = Key(last, view.sort)
                 /\ \A m \in DOMAIN page :
                       page[m] = last \/ OrderedBefore(page[m], last, view.sort)
                 /\ \A id \in Found(view, cursor) :
                       \/ \E m \in DOMAIN page : page[m] = id
                       \/ OrderedBefore(last, id, view.sort)
  BY <1>1, <1>3, <1>4, QueryFacts
<1>6. /\ Found(view, cursor) \subseteq DOMAIN rows
      /\ \A id \in Found(view, cursor) : /\ Selected(rows[id], view)
                                         /\ cursor # NoCursor => CursorClause(id, cursor, view.sort)
  BY DEF Found
<1>7. PICK a \in Nat, b \in Nat : a = Len(pages) /\ b = Len(page)
  BY <1>3, <1>5
<1>8. /\ DOMAIN pages = 1..a /\ DOMAIN page = 1..b /\ DOMAIN pages' = 1..(a + b)
      /\ pages' \in Seq(DOMAIN rows)
      /\ \A m \in 1..a : pages'[m] = pages[m]
      /\ \A m \in 1..b : pages'[a + m] = page[m]
      /\ \A m \in 1..(a + b) : m \in 1..a \/ (m - a \in 1..b /\ pages'[m] = page[m - a])
  <2>1. page \in Seq(DOMAIN rows)
    BY <1>5, <1>6
  <2>2. DOMAIN pages = 1..a /\ DOMAIN page = 1..b
    BY <1>3, <1>5, <1>7
  <2>3. pages' \in Seq(DOMAIN rows) /\ Len(pages') = a + b
    BY <1>2, <1>3, <1>4, <1>7, <2>1
  <2>4. \A m \in 1..a : pages'[m] = pages[m]
    BY <1>2, <1>3, <1>4, <1>7, <2>1
  <2>5. ASSUME NEW m \in 1..(a + b), m \notin 1..a PROVE m - a \in 1..b /\ pages'[m] = page[m - a]
    BY <1>2, <1>3, <1>4, <1>7, <2>1, <2>5
  <2>6. ASSUME NEW m \in 1..b PROVE pages'[a + m] = page[m]
    <3>1. a + m \in 1..(a + b) /\ a + m \notin 1..a /\ (a + m) - a = m
      OBVIOUS
    <3>. QED  BY <2>5, <3>1
  <2>7. DOMAIN pages' = 1..(a + b)
    BY <2>3
  <2>. QED  BY <2>2, <2>3, <2>4, <2>5, <2>6, <2>7
<1>9. /\ \A m \in 1..a : pages[m] \in DOMAIN rows
      /\ \A m \in 1..b : page[m] \in Found(view, cursor)
  BY <1>3, <1>5, <1>8
<1>10. Steady' = Steady /\ (DOMAIN rows)' = DOMAIN rows
  BY <1>2 DEF Steady
<1>11. \A m \in 1..a : pages[m] \in Steady =>
          /\ Selected(rows[pages[m]], view)
          /\ cursor # NoCursor => ~CursorClause(pages[m], cursor, view.sort)
  BY <1>8 DEF ListInv, ListedInv, CompleteInv
<1>12. cursor = NoCursor => a = 0
  <2>1. cursor = NoCursor => pages = <<>>
    BY <1>2 DEF ListInv, CursorInv
  <2>. QED  BY <1>7, <2>1
<1>12b. /\ \A i, j, sort : OrderedBefore(i, j, sort)' <=> OrderedBefore(i, j, sort)
       /\ \A i, c, sort : CursorClause(i, c, sort)' <=> CursorClause(i, c, sort)
  BY <1>2 DEF OrderedBefore, CursorClause, Key, sortValueOf
\* What was on the pages comes before what the page brings.
<1>13. ASSUME NEW m \in 1..a, pages[m] \in Steady, NEW id \in Found(view, cursor)
       PROVE  OrderedBefore(pages[m], id, view.sort)
  <2>1. cursor # NoCursor
    BY <1>12
  <2>2. IsKey(cursor, view.sort)
    BY <2>1 DEF ListInv, CursorInv
  <2>3. ~CursorClause(pages[m], cursor, view.sort) /\ CursorClause(id, cursor, view.sort)
    BY <1>6, <1>11, <1>13, <2>1
  <2>4. pages[m] \in DOMAIN rows /\ id \in DOMAIN rows
    BY <1>6, <1>9
  <2>. QED  BY <1>3, <2>2, <2>3, <2>4, PastTheCursor
<1>14. RowsOK' /\ PagesInv'
  BY <1>2, <1>3, <1>8 DEF RowsOK, PagesInv
<1>15. CursorInv'
  <2>1. got.next # NoCursor => IsKey(got.next, view.sort)
    BY <1>3, <1>5, <1>6, KeyFacts
  <2>. QED  BY <1>2, <2>1 DEF CursorInv
<1>16. ListedInv'
  <2>1. ASSUME NEW m \in 1..(a + b), pages'[m] \in Steady
        PROVE  Selected(rows[pages'[m]], view)
    <3>1. CASE m \in 1..a
      BY <1>8, <1>11, <2>1, <3>1
    <3>2. CASE m \notin 1..a
      <4>1. m - a \in 1..b /\ pages'[m] = page[m - a]
        BY <1>8, <3>2
      <4>. QED  BY <1>6, <1>9, <4>1
    <3>. QED  BY <3>1, <3>2
  <2>2. ASSUME NEW m \in 1..(a + b), NEW n \in 1..(a + b), m < n,
               pages'[m] \in Steady, pages'[n] \in Steady
        PROVE  OrderedBefore(pages'[m], pages'[n], view.sort)
    <3>1. CASE n \in 1..a
      <4>1. m \in 1..a
        BY <2>2, <3>1
      <4>. QED  BY <1>8, <2>2, <3>1, <4>1 DEF ListInv, ListedInv
    <3>2. CASE m \in 1..a /\ n \notin 1..a
      <4>1. n - a \in 1..b /\ pages'[n] = page[n - a] /\ pages'[m] = pages[m]
        BY <1>8, <3>2
      <4>. QED  BY <1>9, <1>13, <2>2, <3>2, <4>1
    <3>3. CASE m \notin 1..a
      <4>1. m - a \in 1..b /\ pages'[m] = page[m - a]
        BY <1>8, <3>3
      <4>2. n \notin 1..a
        BY <2>2, <3>3
      <4>3. n - a \in 1..b /\ pages'[n] = page[n - a]
        BY <1>8, <4>2
      <4>4. m - a < n - a
        BY <2>2
      <4>. QED  BY <1>5, <1>8, <4>1, <4>3, <4>4
    <3>. QED  BY <3>1, <3>2, <3>3
  <2>3. /\ \A m \in DOMAIN pages' : pages'[m] \in Steady => Selected(rows[pages'[m]], view)
        /\ \A m, n \in DOMAIN pages' :
              m < n /\ pages'[m] \in Steady /\ pages'[n] \in Steady =>
                  OrderedBefore(pages'[m], pages'[n], view.sort)
    BY <1>8, <2>1, <2>2
  <2>. QED  BY <1>2, <1>10, <1>12b, <2>3 DEF ListedInv
<1>17. ASSUME NEW id \in DOMAIN rows,
              IsListed(id) \/ \E m \in 1..b : page[m] = id
       PROVE  \E m \in DOMAIN pages' : pages'[m] = id
  <2>1. CASE IsListed(id)
    <3>1. PICK m \in 1..a : pages[m] = id
      BY <1>8, <2>1 DEF IsListed
    <3>2. m \in 1..(a + b)
      OBVIOUS
    <3>. QED  BY <1>8, <3>1, <3>2
  <2>2. CASE \E m \in 1..b : page[m] = id
    <3>1. PICK m \in 1..b : page[m] = id
      BY <2>2
    <3>2. a + m \in 1..(a + b)
      OBVIOUS
    <3>. QED  BY <1>8, <3>1, <3>2
  <2>. QED  BY <1>17, <2>1, <2>2
\* A row of the list that was past the old cursor has been found now.
<1>18. ASSUME NEW id \in Steady, Selected(rows[id], view)
       PROVE  IsListed(id) \/ id \in Found(view, cursor)
  <2>1. id \in DOMAIN rows
    BY DEF Steady
  <2>2. CASE cursor = NoCursor
    BY <1>18, <2>1, <2>2 DEF Found
  <2>3. CASE cursor # NoCursor
    BY <1>18, <2>1, <2>3 DEF Found, ListInv, CompleteInv
  <2>. QED  BY <2>2, <2>3
<1>19. CompleteInv'
  <2>1. ASSUME got.next = NoCursor, NEW id \in Steady, Selected(rows[id], view)
        PROVE  \E m \in DOMAIN pages' : pages'[m] = id
    <3>1. id \in DOMAIN rows
      BY DEF Steady
    <3>. QED  BY <1>5, <1>8, <1>17, <1>18, <2>1, <3>1
  <2>2. ASSUME got.next # NoCursor
        PROVE  /\ \A m \in DOMAIN pages' :
                     pages'[m] \in Steady => ~CursorClause(pages'[m], got.next, view.sort)
               /\ \A id \in Steady :
                     Selected(rows[id], view) /\ ~CursorClause(id, got.next, view.sort) =>
                         \E m \in DOMAIN pages' : pages'[m] = id
    <3>1. PICK last \in Found(view, cursor) :
              /\ got.next = Key(last, view.sort)
              /\ \A m \in DOMAIN page :
                    page[m] = last \/ OrderedBefore(page[m], last, view.sort)
              /\ \A id \in Found(view, cursor) :
                    \/ \E m \in DOMAIN page : page[m] = id
                    \/ OrderedBefore(last, id, view.sort)
      BY <1>5, <2>2
    <3>2. last \in DOMAIN rows
      BY <1>6
    <3>3. ASSUME NEW m \in 1..(a + b), pages'[m] \in Steady
          PROVE  ~CursorClause(pages'[m], got.next, view.sort)
      <4>1. pages'[m] \in DOMAIN rows
        BY <3>3 DEF Steady
      <4>2. pages'[m] = last \/ OrderedBefore(pages'[m], last, view.sort)
        <5>1. CASE m \in 1..a
          BY <1>8, <1>13, <3>3, <5>1
        <5>2. CASE m \notin 1..a
          <6>1. m - a \in 1..b /\ pages'[m] = page[m - a]
            BY <1>8, <5>2
          <6>. QED  BY <1>8, <3>1, <6>1
        <5>. QED  BY <5>1, <5>2
      <4>. QED  BY <1>3, <3>1, <3>2, <4>1, <4>2, CursorOfRow
    <3>4. ASSUME NEW id \in Steady, Selected(rows[id], view),
                 ~CursorClause(id, got.next, view.sort)
          PROVE  \E m \in DOMAIN pages' : pages'[m] = id
      <4>1. id \in DOMAIN rows
        BY DEF Steady
      <4>2. ~OrderedBefore(last, id, view.sort)
        BY <1>3, <3>1, <3>2, <3>4, <4>1, CursorOfRow
      <4>3. IsListed(id) \/ \E m \in 1..b : page[m] = id
        BY <1>8, <1>18, <3>1, <3>4, <4>2
      <4>. QED  BY <1>17, <4>1, <4>3
    <3>. QED  BY <1>8, <3>3, <3>4
  <2>. QED  BY <1>2, <1>10, <1>12b, <2>1, <2>2 DEF CompleteInv, IsListed
<1>. QED  BY <1>14, <1>15, <1>16, <1>19 DEF ListInv

\* A row that changes, or is new, is no longer steady; the others stay as they are.
LEMMA ChangeFacts ==
    ASSUME RowsOK, touched \subseteq DOMAIN rows, NEW id, NEW row, Change(id, row)
    PROVE  /\ (DOMAIN rows)' = DOMAIN rows \cup {id} /\ touched' = touched \cup {id}
           /\ rows'[id] = row /\ \A i \in DOMAIN rows : i # id => rows'[i] = rows[i]
           /\ Steady' = Steady \ {id} /\ id \notin Steady'
           /\ UNCHANGED <<view, pages, cursor, hasMore>>
<1>1. /\ rows' = [i \in DOMAIN rows \cup {id} |-> IF i = id THEN row ELSE rows[i]]
      /\ touched' = touched \cup {id} /\ UNCHANGED <<view, pages, cursor, hasMore>>
  BY DEF Change
<1>2. (DOMAIN rows)' = DOMAIN rows \cup {id}
  BY <1>1
<1>3. Steady' = Steady \ {id}
  BY <1>1, <1>2 DEF Steady
<1>. QED  BY <1>1, <1>2, <1>3

LEMMA ChangeKeepsRows ==
    ASSUME RowsOK, touched \subseteq DOMAIN rows, NEW id, NEW row, Change(id, row),
           row \in RowType, row.mine => row.filled > 0,
           \/ id \in DOMAIN rows /\ UNCHANGED symbol
           \/ id = NextId /\ \E read : symbol' = Append(symbol, read)
    PROVE  RowsOK'
<1>1. /\ (DOMAIN rows)' = DOMAIN rows \cup {id}
      /\ rows'[id] = row /\ \A i \in DOMAIN rows : i # id => rows'[i] = rows[i]
  BY ChangeFacts
<1>2. \A i \in (DOMAIN rows)' : rows'[i] \in RowType /\ (rows'[i].mine => rows'[i].filled > 0)
  <2>1. ASSUME NEW i \in DOMAIN rows, i # id
        PROVE  rows'[i] \in RowType /\ (rows'[i].mine => rows'[i].filled > 0)
    <3>1. rows'[i] = rows[i]
      BY <1>1, <2>1
    <3>2. rows[i] \in RowType /\ (rows[i].mine => rows[i].filled > 0)
      BY DEF RowsOK
    <3>. QED  BY <3>1, <3>2
  <2>. QED  BY <1>1, <2>1
<1>3. PICK n \in Nat : n = Cardinality(DOMAIN rows)
  BY RowFacts
<1>4. IsFiniteSet(DOMAIN rows) /\ DOMAIN rows = 1..n /\ Len(symbol) = n
  BY <1>3 DEF RowsOK
<1>5. PICK S : symbol \in Seq(S)
  BY DEF RowsOK
<1>6. CASE id \in DOMAIN rows /\ UNCHANGED symbol
  <2>1. (DOMAIN rows)' = DOMAIN rows
    BY <1>1, <1>6
  <2>. QED  BY <1>2, <1>3, <1>4, <1>5, <1>6, <2>1 DEF RowsOK
<1>7. CASE id = NextId /\ \E read : symbol' = Append(symbol, read)
  <2>1. id = n + 1
    BY <1>3, <1>7 DEF NextId
  <2>2. (DOMAIN rows)' = 1..(n + 1)
    BY <1>1, <1>4, <2>1
  <2>3. IsFiniteSet(1..(n + 1)) /\ Cardinality(1..(n + 1)) = n + 1
    BY FS_Interval
  <2>4. PICK read : symbol' = Append(symbol, read)
    BY <1>7
  <2>5. symbol' \in Seq(S \cup {read}) /\ Len(symbol') = n + 1
    <3>1. symbol \in Seq(S \cup {read}) /\ read \in S \cup {read}
      BY <1>5
    <3>. QED  BY <1>4, <2>4, <3>1
  <2>. QED  BY <1>2, <2>2, <2>3, <2>5 DEF RowsOK
<1>. QED  BY <1>6, <1>7

LEMMA ChangeKeeps ==
    ASSUME ListInv, NEW id, NEW row, Change(id, row), RowsOK'
    PROVE  ListInv'
<1>1. /\ (DOMAIN rows)' = DOMAIN rows \cup {id} /\ touched' = touched \cup {id}
      /\ rows'[id] = row /\ \A i \in DOMAIN rows : i # id => rows'[i] = rows[i]
      /\ Steady' = Steady \ {id} /\ id \notin Steady'
      /\ UNCHANGED <<view, pages, cursor, hasMore>>
  BY ChangeFacts DEF ListInv, PagesInv
<1>2. \A i \in Steady' : i \in Steady /\ i \in DOMAIN rows /\ rows'[i] = rows[i]
  BY <1>1 DEF Steady
<1>3. PagesInv'
  <2>1. pages \in Seq(DOMAIN rows \cup {id})
    BY DEF ListInv, PagesInv
  <2>. QED  BY <1>1, <2>1 DEF ListInv, PagesInv
<1>4. CursorInv'
  BY <1>1 DEF ListInv, CursorInv
\* What is read of a steady row is what was read of it before.
<1>5. ASSUME NEW i \in Steady'
      PROVE  /\ \A v : Selected(rows[i], v)' <=> Selected(rows[i], v)
             /\ \A sort : sortValueOf(i, sort)' = sortValueOf(i, sort)
             /\ \A c, sort : CursorClause(i, c, sort)' <=> CursorClause(i, c, sort)
  <2>1. rows'[i] = rows[i]
    BY <1>2
  <2>2. \A v : Selected(rows[i], v)' <=> Selected(rows[i], v)
    BY <2>1 DEF Selected
  <2>3. \A sort : sortValueOf(i, sort)' = sortValueOf(i, sort)
    BY <2>1 DEF sortValueOf
  <2>4. \A sort : Key(i, sort)' = Key(i, sort)
    BY <2>3 DEF Key
  <2>5. \A c, sort : CursorClause(i, c, sort)' <=> CursorClause(i, c, sort)
    BY <2>4 DEF CursorClause
  <2>. QED  BY <2>2, <2>3, <2>5
<1>6. ASSUME NEW i \in Steady', NEW j \in Steady'
      PROVE  \A sort : OrderedBefore(i, j, sort)' <=> OrderedBefore(i, j, sort)
  <2>1. \A sort : Key(i, sort)' = Key(i, sort) /\ Key(j, sort)' = Key(j, sort)
    BY <1>5 DEF Key
  <2>. QED  BY <2>1 DEF OrderedBefore
<1>7. ListedInv'
  <2>1. ASSUME NEW m \in DOMAIN pages, pages[m] \in Steady'
        PROVE  Selected(rows[pages[m]], view)'
    <3>1. PICK i \in Steady' : i = pages[m]
      BY <2>1
    <3>2. Selected(rows[i], view)
      BY <1>2, <3>1 DEF ListInv, ListedInv
    <3>3. Selected(rows[i], view)'
      BY <1>1, <1>2, <3>2 DEF Selected
    <3>4. pages'[m] = i
      BY <1>1, <3>1
    <3>. QED  BY <3>3, <3>4
  <2>2. ASSUME NEW m \in DOMAIN pages, NEW n \in DOMAIN pages, m < n,
               pages[m] \in Steady', pages[n] \in Steady'
        PROVE  OrderedBefore(pages[m], pages[n], view.sort)'
    <3>1. PICK i \in Steady', j \in Steady' : i = pages[m] /\ j = pages[n]
      BY <2>2
    <3>2. PICK sort : sort = view.sort /\ sort = view'.sort
      BY <1>1
    <3>3. OrderedBefore(i, j, sort)
      BY <1>2, <2>2, <3>1, <3>2 DEF ListInv, ListedInv
    <3>4. OrderedBefore(i, j, sort)'
      BY <1>6, <3>3
    <3>5. pages'[m] = i /\ pages'[n] = j
      BY <1>1, <3>1
    <3>. QED  BY <3>2, <3>4, <3>5
  <2>. QED  BY <1>1, <2>1, <2>2 DEF ListedInv
<1>8. CompleteInv'
  <2>1. PICK sort : sort = view.sort /\ sort = view'.sort
    BY <1>1
  <2>2. PICK c : c = cursor /\ c = cursor'
    BY <1>1
  <2>3. \A i \in Steady' : /\ CursorClause(i, cursor, view.sort)' <=>
                                  CursorClause(i, cursor, view.sort)
                           /\ Selected(rows[i], view)' <=> Selected(rows[i], view)
                           /\ IsListed(i)' <=> IsListed(i)
    <3>. SUFFICES ASSUME NEW i \in Steady'
                  PROVE  /\ CursorClause(i, cursor, view.sort)' <=>
                                CursorClause(i, cursor, view.sort)
                         /\ Selected(rows[i], view)' <=> Selected(rows[i], view)
                         /\ IsListed(i)' <=> IsListed(i)
      OBVIOUS
    <3>1. CursorClause(i, c, sort)' <=> CursorClause(i, c, sort)
      BY <1>5
    <3>2. Selected(rows[i], view)' <=> Selected(rows[i], view)
      BY <1>1, <1>2 DEF Selected
    <3>3. IsListed(i)' <=> IsListed(i)
      BY <1>1 DEF IsListed
    <3>. QED  BY <2>1, <2>2, <3>1, <3>2, <3>3
  <2>4. ASSUME cursor # NoCursor, NEW m \in DOMAIN pages, pages[m] \in Steady'
        PROVE  ~CursorClause(pages[m], cursor, view.sort)'
    <3>1. PICK i \in Steady' : i = pages[m] /\ i = pages'[m]
      BY <1>1, <2>4
    <3>2. ~CursorClause(i, c, sort)
      BY <1>2, <2>1, <2>2, <2>4, <3>1 DEF ListInv, CompleteInv
    <3>3. ~CursorClause(i, c, sort)'
      BY <1>5, <3>2
    <3>. QED  BY <2>1, <2>2, <3>1, <3>3
  <2>5. ASSUME cursor # NoCursor, NEW i \in Steady', Selected(rows[i], view)',
               ~CursorClause(i, cursor, view.sort)'
        PROVE  IsListed(i)'
    BY <1>2, <2>3, <2>5 DEF ListInv, CompleteInv
  <2>6. ASSUME ~hasMore, NEW i \in Steady', Selected(rows[i], view)'
        PROVE  IsListed(i)'
    BY <1>2, <2>3, <2>6 DEF ListInv, CompleteInv
  <2>. QED  BY <1>1, <2>4, <2>5, <2>6 DEF CompleteInv
<1>. QED  BY <1>3, <1>4, <1>7, <1>8 DEF ListInv

LEMMA CreateRowKeeps == ListInv /\ CreateAuction => ListInv'
<1>. SUFFICES ASSUME ListInv, CreateAuction PROVE ListInv'
  OBVIOUS
<1>1. PICK d \in Deadlines : Change(NextId, NewRow(d))
  BY DEF CreateAuction
<1>2. \E read : symbol' = Append(symbol, read)
  BY DEF CreateAuction
<1>3. NewRow(d) \in RowType /\ ~NewRow(d).mine
  <2>1. 0 \in 0..MaxRowBids
    BY ListAssumption
  <2>. QED  BY <2>1 DEF NewRow, RowType, Statuses
<1>4. RowsOK /\ touched \subseteq DOMAIN rows
  BY DEF ListInv, PagesInv
<1>5. PICK n, row : n = NextId /\ row = NewRow(d)
  OBVIOUS
<1>6. Change(n, row) /\ row \in RowType /\ ~row.mine
  BY <1>1, <1>3, <1>5
<1>7. RowsOK'
  BY <1>2, <1>4, <1>5, <1>6, ChangeKeepsRows
<1>. QED  BY <1>6, <1>7, ChangeKeeps

LEMMA PlaceRowBidKeeps == \A id \in DOMAIN rows : ListInv /\ PlaceBid(id) => ListInv'
<1>. SUFFICES ASSUME NEW id \in DOMAIN rows, ListInv, PlaceBid(id) PROVE ListInv'
  OBVIOUS
<1>1. PICK mine \in {TRUE, rows[id].mine} :
          Change(id, [rows[id] EXCEPT !.filled = @ + 1, !.mine = mine])
  BY DEF PlaceBid
<1>2. rows[id].status = "Open" /\ rows[id].filled < MaxRowBids /\ UNCHANGED symbol
  BY DEF PlaceBid
<1>3. RowsOK /\ touched \subseteq DOMAIN rows
  BY DEF ListInv, PagesInv
<1>4. PICK row : row = [rows[id] EXCEPT !.filled = @ + 1, !.mine = mine]
  OBVIOUS
<1>5. row \in RowType /\ row.filled > 0
  <2>1. rows[id] \in RowType
    BY <1>3 DEF RowsOK
  <2>2. /\ rows[id].status \in Statuses /\ rows[id].deadline \in Deadlines
        /\ rows[id].filled \in 0..MaxRowBids /\ rows[id].mine \in BOOLEAN
    BY <2>1 DEF RowType
  <2>3. rows[id].filled + 1 \in 0..MaxRowBids /\ rows[id].filled + 1 > 0
    BY <1>2, <2>2, ListAssumption
  <2>4. row = [status |-> rows[id].status, deadline |-> rows[id].deadline,
               filled |-> rows[id].filled + 1, mine |-> mine]
    BY <1>4, <2>1 DEF RowType
  <2>5. mine \in BOOLEAN
    BY <2>2
  <2>. QED  BY <2>2, <2>3, <2>4, <2>5 DEF RowType
<1>6. Change(id, row)
  BY <1>1, <1>4
<1>7. RowsOK'
  BY <1>2, <1>3, <1>5, <1>6, ChangeKeepsRows
<1>. QED  BY <1>6, <1>7, ChangeKeeps

LEMMA CloseRowKeeps == \A id \in DOMAIN rows : ListInv /\ CloseRow(id) => ListInv'
<1>. SUFFICES ASSUME NEW id \in DOMAIN rows, ListInv, CloseRow(id) PROVE ListInv'
  OBVIOUS
<1>1. PICK status \in {"Settled", "Refunded"} : Change(id, [rows[id] EXCEPT !.status = status])
  BY DEF CloseRow
<1>2. UNCHANGED symbol
  BY DEF CloseRow
<1>3. RowsOK /\ touched \subseteq DOMAIN rows
  BY DEF ListInv, PagesInv
<1>4. PICK row : row = [rows[id] EXCEPT !.status = status]
  OBVIOUS
<1>5. row \in RowType /\ (row.mine => row.filled > 0)
  <2>1. rows[id] \in RowType /\ (rows[id].mine => rows[id].filled > 0)
    BY <1>3 DEF RowsOK
  <2>. QED  BY <1>4, <2>1 DEF RowType, Statuses
<1>6. Change(id, row)
  BY <1>1, <1>4
<1>7. RowsOK'
  BY <1>2, <1>3, <1>5, <1>6, ChangeKeepsRows
<1>. QED  BY <1>6, <1>7, ChangeKeeps

LEMMA ListInvHolds == ListSpec => []ListInv
<1>1. ListInit => ListInv
  BY ListInitial
<1>2. ListInv /\ [ListNext]_listVars => ListInv'
  <2>. SUFFICES ASSUME ListInv, [ListNext]_listVars PROVE ListInv'
    OBVIOUS
  <2>1. CASE UNCHANGED listVars
    <3>1. UNCHANGED <<rows, symbol, view, pages, cursor, hasMore, touched, changes>>
      BY <2>1 DEF listVars
    <3>2. RowsOK'
      BY <3>1 DEF ListInv, RowsOK
    <3>3. PagesInv' /\ CursorInv'
      BY <3>1 DEF ListInv, PagesInv, CursorInv
    <3>4. ListedInv' /\ CompleteInv'
      BY <3>1 DEF ListInv, ListedInv, CompleteInv, IsListed, Steady, Selected, OrderedBefore,
         CursorClause, Key, sortValueOf
    <3>. QED  BY <3>2, <3>3, <3>4 DEF ListInv
  <2>2. CASE ListNext
    BY <2>2, CreateRowKeeps, PlaceRowBidKeeps, CloseRowKeeps, FetchNextPageKeeps,
       RefetchListKeeps DEF ListNext
  <2>. QED  BY <2>1, <2>2
<1>. QED  BY <1>1, <1>2, PTL DEF ListSpec

-----------------------------------------------------------------------------
\* Type correctness of the list: the ids have no gap and the pages hold rows.
THEOREM ListTypeCorrect == ListSpec => []ListTypeOK
<1>1. ListInv => ListTypeOK
  <2>. SUFFICES ASSUME ListInv PROVE ListTypeOK
    OBVIOUS
  <2>1. \A id \in DOMAIN rows :
           rows[id] \in [status : Statuses, deadline : Deadlines, filled : 0..MaxRowBids,
                         mine : BOOLEAN]
           /\ (rows[id].mine => rows[id].filled > 0)
    BY DEF ListInv, RowsOK, RowType
  <2>2. ToSet(pages) \subseteq DOMAIN rows
    BY DEF ListInv, PagesInv, ToSet
  <2>3. DOMAIN rows = 1..Cardinality(DOMAIN rows) /\ Len(symbol) = Cardinality(DOMAIN rows)
    BY DEF ListInv, RowsOK
  <2>4. view \in ListViews /\ touched \subseteq DOMAIN rows /\ (hasMore \/ cursor = NoCursor)
    BY DEF ListInv, PagesInv, CursorInv
  <2>. QED  BY <2>1, <2>2, <2>3, <2>4 DEF ListTypeOK
<1>. QED  BY <1>1, ListInvHolds, PTL

\* The key order is what the sort promises.
LEMMA OrderKeepsThePromise ==
    ASSUME RowsOK, view \in ListViews, NEW i \in DOMAIN rows, NEW j \in DOMAIN rows,
           OrderedBefore(i, j, view.sort)
    PROVE  Promised(i, j)
<1>1. /\ i \in Int /\ rows[i].filled \in Int /\ rows[i].deadline \in Nat
      /\ rows[i].deadline < OPEN_RANK_MULTIPLIER
      /\ j \in Int /\ rows[j].filled \in Int /\ rows[j].deadline \in Nat
      /\ rows[j].deadline < OPEN_RANK_MULTIPLIER
  BY RowFacts
<1>2. view.sort \in Sorts
  BY DEF ListViews
<1>3. CASE view.sort = "newest"
  BY <1>1, <1>3 DEF Promised, OrderedBefore, Key, sortValueOf
<1>4. CASE view.sort = "bids"
  BY <1>1, <1>4 DEF Promised, OrderedBefore, Key, sortValueOf
<1>5. CASE view.sort = "closing"
  <2>1. PICK d \in Nat, e \in Nat, M \in Nat :
            d = rows[i].deadline /\ e = rows[j].deadline /\ M = OPEN_RANK_MULTIPLIER
            /\ d < M /\ e < M
    BY <1>1, ListAssumption
  <2>2. PICK a \in Int, b \in Int : a = sortValueOf(i, "closing") /\ b = sortValueOf(j, "closing")
                                    /\ a = (IF rows[i].status = "Open" THEN d ELSE M + d)
                                    /\ b = (IF rows[j].status = "Open" THEN e ELSE M + e)
    <3>1. sortValueOf(i, "closing") = IF rows[i].status = "Open" THEN d ELSE M + d
      BY <2>1 DEF sortValueOf, OpenRank
    <3>2. sortValueOf(j, "closing") = IF rows[j].status = "Open" THEN e ELSE M + e
      BY <2>1 DEF sortValueOf, OpenRank
    <3>. QED  BY <2>1, <3>1, <3>2
  <2>3. a <= b
    BY <1>5, <2>2 DEF OrderedBefore, Key
  <2>4. CASE rows[i].status = "Open" /\ rows[j].status = "Open"
    BY <1>5, <2>1, <2>2, <2>3, <2>4 DEF Promised
  <2>5. CASE ~(rows[i].status = "Open" /\ rows[j].status = "Open")
    <3>1. ~(rows[i].status # "Open" /\ rows[j].status = "Open")
      BY <2>1, <2>2, <2>3
    <3>. QED  BY <1>5, <2>5, <3>1 DEF Promised
  <2>. QED  BY <2>4, <2>5
<1>. QED  BY <1>2, <1>3, <1>4, <1>5 DEF Sorts

\* The keyset walk through the pages is faithful however the other rows change
\* between two pages: what did not change is listed, once, and in order.
THEOREM PagesAreFaithful == ListSpec => []WalksAreFaithful
<1>1. ListInv => WalksAreFaithful
  <2>. SUFFICES ASSUME ListInv PROVE WalksAreFaithful
    OBVIOUS
  <2>1. RowsOK /\ view \in ListViews /\ view.sort \in Sorts /\ pages \in Seq(DOMAIN rows)
    BY DEF ListInv, PagesInv, ListViews
  <2>2. DOMAIN pages = 1..Len(pages) /\ Len(pages) \in Nat
    BY <2>1
  <2>3. ASSUME ~hasMore, NEW id \in Steady
        PROVE  Times(id) = IF Selected(rows[id], view) THEN 1 ELSE 0
    <3> DEFINE Places == {n \in DOMAIN pages : pages[n] = id}
    <3>1. id \in DOMAIN rows
      BY DEF Steady
    <3>2. CASE Selected(rows[id], view)
      <4>1. PICK m \in DOMAIN pages : pages[m] = id
        BY <2>3, <3>2 DEF ListInv, CompleteInv, IsListed
      <4>2. ~OrderedBefore(id, id, view.sort)
        BY <2>1, <3>1, OrderIsByKey, KeyFacts, KeysAreOrdered
      <4>3. ASSUME NEW n \in DOMAIN pages, pages[n] = id PROVE n = m
        <5>1. ~(n < m) /\ ~(m < n)
          BY <2>3, <4>1, <4>2, <4>3 DEF ListInv, ListedInv
        <5>. QED  BY <2>2, <5>1
      <4>4. Places = {m}
        BY <4>1, <4>3
      <4>5. Cardinality(Places) = 1
        BY <4>4, FS_Singleton
      <4>. QED  BY <3>2, <4>5 DEF Times
    <3>3. CASE ~Selected(rows[id], view)
      <4>1. Places = {}
        BY <2>3, <3>3 DEF ListInv, ListedInv
      <4>2. Cardinality(Places) = 0
        BY <4>1, FS_EmptySet
      <4>. QED  BY <3>3, <4>2 DEF Times
    <3>. QED  BY <3>2, <3>3
  <2>4. ASSUME NEW m \in DOMAIN pages, NEW n \in DOMAIN pages, m < n,
               pages[m] \in Steady, pages[n] \in Steady
        PROVE  Promised(pages[m], pages[n])
    <3>1. OrderedBefore(pages[m], pages[n], view.sort)
      BY <2>4 DEF ListInv, ListedInv
    <3>2. pages[m] \in DOMAIN rows /\ pages[n] \in DOMAIN rows
      BY <2>4 DEF Steady
    <3>. QED  BY <2>1, <3>1, <3>2, OrderKeepsThePromise
  <2>5. WalkListsSteadyRowsOnce
    BY <2>3 DEF WalkListsSteadyRowsOnce
  <2>6. PagesKeepThePromisedOrder
    BY <2>4 DEF PagesKeepThePromisedOrder
  <2>. QED  BY <2>5, <2>6 DEF WalksAreFaithful
<1>. QED  BY <1>1, ListInvHolds, PTL

\* Every auction the chain reads would show is one the indexer's query selects,
\* on every tab, with a wallet or without.
LEMMA VisibleIsSelected ==
    ASSUME RowsOK, NEW v \in ListViews, NEW id \in Visible(v)
    PROVE  id \in DOMAIN rows /\ Selected(rows[id], v)
<1>1. id \in 1..MAX_AUCTION_PROBES /\ id \in 1..id /\ ~Ends(id)
  BY ListAssumption DEF Visible, listAuctions, Probed
<1>2. id \in DOMAIN rows
  BY <1>1 DEF Ends
<1>3. rows[id].status \in Statuses
  BY <1>2 DEF RowsOK, RowType
<1>4. matchesSegment(rows[id], v)
  BY DEF Visible
<1>5. v.segment \in Segments
  BY DEF ListViews
<1>6. Tone(rows[id]) \in {"open", "awaiting"} => rows[id].status = "Open"
  BY <1>3 DEF Tone, Statuses
<1>7. Tone(rows[id]) \in {"settled", "refunded"} => rows[id].status \in {"Settled", "Refunded"}
  BY <1>3 DEF Tone, Statuses
<1>8. rows[id].status \in SegmentStatus(v.segment)
  <2>1. CASE v.segment \in {"live", "closing", "awaiting"}
    BY <1>4, <1>6, <2>1 DEF matchesSegment, SegmentStatus
  <2>2. CASE v.segment = "settled"
    BY <1>4, <1>7, <2>2 DEF matchesSegment, SegmentStatus
  <2>3. CASE v.segment \in {"all", "yours"}
    BY <1>3, <2>3 DEF SegmentStatus
  <2>. QED  BY <1>5, <2>1, <2>2, <2>3 DEF Segments
<1>9. v.segment = "yours" => rows[id].mine
  BY <1>4 DEF matchesSegment
<1>. QED  BY <1>2, <1>8, <1>9 DEF Selected

\* Falling back to the chain adds no auction to any tab; and on the tabs and sorts
\* both paths define alike the two lists are the same, since with nothing changed
\* since the walk began both are the one arrangement of the same rows in the same
\* order.
THEOREM FallbackShowsTheSame == ListSpec => []BothPathsAgree
<1>1. ASSUME ListInv, ~hasMore, touched = {} PROVE Visible(view) \subseteq ToSet(pages)
  <2>. SUFFICES ASSUME NEW id \in Visible(view) PROVE id \in ToSet(pages)
    OBVIOUS
  <2>1. id \in DOMAIN rows /\ Selected(rows[id], view)
    BY <1>1, VisibleIsSelected DEF ListInv, PagesInv
  <2>2. IsListed(id)
    BY <1>1, <2>1 DEF ListInv, CompleteInv, Steady
  <2>. QED  BY <2>2 DEF IsListed, ToSet
<1>2. ASSUME ListInv, ~hasMore, touched = {}, MeantAlike(view), ToSet(symbol) \subseteq {"ok"},
             Cardinality(DOMAIN rows) <= MAX_AUCTION_PROBES
      PROVE  selectVisibleAuctions(view) = pages
  <2>. USE <1>2
  <2>1. /\ RowsOK /\ view \in ListViews /\ view.sort \in {"newest", "bids"}
        /\ view.sort \in Sorts /\ pages \in Seq(DOMAIN rows)
    BY DEF ListInv, PagesInv, ListViews, MeantAlike
  <2>2. Steady = DOMAIN rows
    BY DEF Steady
  <2> DEFINE S == {id \in DOMAIN rows : Selected(rows[id], view)}
             R == RowOrder(view.sort)
  <2>3. listAuctions = DOMAIN rows
    <3>1. PICK n \in Nat : n = Cardinality(DOMAIN rows) /\ DOMAIN rows = 1..n /\ Len(symbol) = n
                           /\ n <= MAX_AUCTION_PROBES
      BY <2>1, RowFacts DEF RowsOK
    <3>2. \A i \in 1..n : symbol[i] = "ok"
      <4>1. DOMAIN symbol = 1..n
        BY <2>1, <3>1 DEF RowsOK
      <4>. QED  BY <4>1 DEF ToSet
    <3>3. \A i \in 1..n : ~Ends(i)
      BY <3>1, <3>2 DEF Ends
    <3>4. ASSUME NEW id \in 1..n PROVE id \in Probed
      <4>1. id \in 1..MAX_AUCTION_PROBES /\ \A i \in 1..id : i \in 1..n
        BY <3>1, ListAssumption
      <4>. QED  BY <3>3, <4>1 DEF Probed
    <3>5. ASSUME NEW id \in Probed PROVE id \in 1..n
      <4>1. id \in 1..MAX_AUCTION_PROBES /\ id \in 1..id /\ ~Ends(id)
        BY ListAssumption DEF Probed
      <4>. QED  BY <3>1, <4>1 DEF Ends
    <3>. QED  BY <3>1, <3>4, <3>5 DEF listAuctions
  <2>4. Visible(view) = S
    <3>1. ASSUME NEW id \in DOMAIN rows
          PROVE  matchesSegment(rows[id], view) <=> Selected(rows[id], view)
      <4>1. rows[id].status \in Statuses /\ rows[id].mine \in BOOLEAN
        BY <2>1 DEF RowsOK, RowType
      <4>2. Tone(rows[id]) \in {"settled", "refunded"} <=> rows[id].status \in {"Settled", "Refunded"}
        BY <4>1 DEF Tone, Statuses
      <4>3. CASE view.segment = "all"
        BY <4>1, <4>3 DEF matchesSegment, Selected, SegmentStatus
      <4>4. CASE view.segment = "settled"
        BY <4>1, <4>2, <4>4 DEF matchesSegment, Selected, SegmentStatus
      <4>5. CASE view.segment = "yours" /\ view.connected
        BY <4>1, <4>5 DEF matchesSegment, Selected, SegmentStatus
      <4>. QED  BY <4>3, <4>4, <4>5 DEF MeantAlike
    <3>. QED  BY <2>3, <3>1 DEF Visible
  <2>5. \A i, j \in S : <<i, j>> \in R <=> compareForSort(i, j, view.sort)
    <3>. SUFFICES ASSUME NEW i \in S, NEW j \in S
                  PROVE  OrderedBefore(i, j, view.sort) <=> compareForSort(i, j, view.sort)
      BY DEF RowOrder
    <3>1. CASE view.sort = "newest"
      BY <2>1, <3>1, RowFacts DEF OrderedBefore, compareForSort, Key, sortValueOf
    <3>2. CASE view.sort = "bids"
      BY <2>1, <3>2, RowFacts DEF OrderedBefore, compareForSort, Key, sortValueOf
    <3>. QED  BY <2>1, <3>1, <3>2
  <2>6. StrictOrderOn(R, S) /\ IsFiniteSet(S) /\ Cardinality(S) \in Nat
    <3>1. S \in SUBSET DOMAIN rows
      OBVIOUS
    <3>. QED  BY <2>1, <3>1, RowsAreOrdered, FS_Subset, FS_CardinalityType DEF RowsOK
  <2> DEFINE shown == selectVisibleAuctions(view)
  <2>7. /\ shown \in [1..Cardinality(S) -> S] /\ InOrder(shown, R)
    <3>1. shown = CHOOSE s \in [1..Cardinality(S) -> S] :
                     \A m, n \in DOMAIN s : m < n => compareForSort(s[m], s[n], view.sort)
      BY <2>4 DEF selectVisibleAuctions
    <3>. HIDE DEF S, R, shown
    <3>2. \E s \in [1..Cardinality(S) -> S] : InOrder(s, R)
      BY <2>6, ArrangementExists
    <3>3. \E s \in [1..Cardinality(S) -> S] :
              \A m, n \in DOMAIN s : m < n => compareForSort(s[m], s[n], view.sort)
      BY <2>5, <3>2 DEF InOrder
    <3>4. /\ shown \in [1..Cardinality(S) -> S]
          /\ \A m, n \in DOMAIN shown : m < n => compareForSort(shown[m], shown[n], view.sort)
      BY <3>1, <3>3
    <3>. QED  BY <2>5, <3>4 DEF InOrder
  <2>8. RunsThrough(shown, Cardinality(S), S, R)
    <3>. HIDE DEF S, R, shown
    <3>1. \A x \in S : \E n \in DOMAIN shown : shown[n] = x
      BY <2>6, <2>7, ArrangementIsWhole
    <3>. QED  BY <2>7, <3>1 DEF RunsThrough
  <2>9. RunsThrough(pages, Len(pages), S, R)
    <3>1. DOMAIN pages = 1..Len(pages) /\ \A m \in DOMAIN pages : pages[m] \in DOMAIN rows
      BY <2>1
    <3>2. \A m \in DOMAIN pages : pages[m] \in S
      BY <2>2, <3>1 DEF ListInv, ListedInv
    <3>3. pages \in [1..Len(pages) -> S]
      BY <2>1, <3>1, <3>2
    <3>4. InOrder(pages, R)
      <4>1. ASSUME NEW m \in DOMAIN pages, NEW n \in DOMAIN pages, m < n
            PROVE  OrderedBefore(pages[m], pages[n], view.sort)
        BY <2>2, <3>1, <4>1 DEF ListInv, ListedInv
      <4>. QED  BY <3>1, <4>1 DEF InOrder, RowOrder
    <3>5. \A x \in S : \E n \in DOMAIN pages : pages[n] = x
      BY <2>2 DEF ListInv, CompleteInv, IsListed
    <3>. QED  BY <3>1, <3>3, <3>4, <3>5 DEF RunsThrough
  <2>10. Len(pages) \in Nat
    BY <2>1
  <2>. HIDE DEF S, R, shown
  <2>11. shown = pages
    BY <2>6, <2>8, <2>9, <2>10, ArrangementIsUnique
  <2>. QED  BY <2>11 DEF shown
<1>3. ListInv => BothPathsAgree
  BY <1>1, <1>2 DEF BothPathsAgree
<1>. QED  BY <1>3, ListInvHolds, PTL
=============================================================================
