------------------------- MODULE CommandLineProofs --------------------------
(***************************************************************************)
(* The command-line pipeline, for any number of auctions, terminals and    *)
(* fetches: what it hands to the circuit is provable, what comes out of an *)
(* undisturbed sitting settles, and nothing settles but the outcome of the *)
(* whole book.                                                             *)
(*                                                                         *)
(* The whitelist tree both pipelines build, for lists and trees of any     *)
(* size: a path the circuit accepts exists for every member, and for       *)
(* nobody else.                                                            *)
(***************************************************************************)
EXTENDS CommandLineProver, MerkleWhitelist, AuctionWinnerProofs

-----------------------------------------------------------------------------
(* The two passes of selectVickreyOutcome over the padded prices.          *)

\* best satisfies the recursion of WinnerIndex over the first n slots.
WinnerPass(price, n, best) ==
    best = [i \in 0..n |->
               IF i = 0 THEN [index |-> 0, price |-> -1]
               ELSE IF price[i] > best[i - 1].price THEN [index |-> i, price |-> price[i]]
               ELSE best[i - 1]]

LEMMA WinnerPassExists ==
    ASSUME NEW price, NEW n \in Nat
    PROVE  \E best : WinnerPass(price, n, best)
<1> DEFINE T == {k \in Nat : \E b : WinnerPass(price, k, b)}
<1>1. 0 \in T
  <2> DEFINE b == [i \in 0..0 |-> [index |-> 0, price |-> -1]]
  <2>1. WinnerPass(price, 0, b)
    BY DEF WinnerPass
  <2>. QED  BY <2>1
<1>2. ASSUME NEW k \in Nat, k \in T PROVE k + 1 \in T
  <2>1. PICK b : WinnerPass(price, k, b)
    BY <1>2
  <2> DEFINE next == IF price[k + 1] > b[k].price THEN [index |-> k + 1, price |-> price[k + 1]]
                     ELSE b[k]
             c == [i \in 0..(k + 1) |-> IF i = k + 1 THEN next ELSE b[i]]
  <2>2. ASSUME NEW i \in 0..(k + 1)
        PROVE  c[i] = IF i = 0 THEN [index |-> 0, price |-> -1]
                      ELSE IF price[i] > c[i - 1].price THEN [index |-> i, price |-> price[i]]
                      ELSE c[i - 1]
    <3>1. CASE i = k + 1
      <4>1. c[i] = next /\ c[i - 1] = b[k] /\ i # 0 /\ i - 1 = k
        BY <3>1
      <4>. HIDE DEF c
      <4>. QED  BY <3>1, <4>1
    <3>2. CASE i # k + 1
      <4>1. i \in 0..k /\ c[i] = b[i] /\ (i # 0 => c[i - 1] = b[i - 1])
        BY <3>2
      <4>2. b[i] = IF i = 0 THEN [index |-> 0, price |-> -1]
                   ELSE IF price[i] > b[i - 1].price THEN [index |-> i, price |-> price[i]]
                   ELSE b[i - 1]
        BY <2>1, <4>1 DEF WinnerPass
      <4>. HIDE DEF c
      <4>. QED  BY <4>1, <4>2
    <3>. QED  BY <3>1, <3>2
  <2>3. WinnerPass(price, k + 1, c)
    <3>1. c = [i \in 0..(k + 1) |-> c[i]]
      OBVIOUS
    <3>. HIDE DEF c
    <3>. QED  BY <2>2, <3>1 DEF WinnerPass
  <2>. QED  BY <2>3
<1>3. Nat \subseteq T
  <2>. HIDE DEF T
  <2>. QED  BY <1>1, <1>2, SetInduction
<1>. QED  BY <1>3

\* After k slots the pass holds the slot that would win if there were no more.
LEMMA WinnerPassHolds ==
    ASSUME NEW price, \A i \in Slots : price[i] \in Nat,
           NEW best, WinnerPass(price, MaxBidSlots, best)
    PROVE  /\ best[MaxBidSlots].index \in Slots
           /\ HoldsBelow(price, best[MaxBidSlots].index, MaxBidSlots)
<1> DEFINE Right(k) == /\ best[k].index \in 1..k
                       /\ best[k].price = price[best[k].index]
                       /\ HoldsBelow(price, best[k].index, k)
           T == {k \in Nat : k + 1 <= MaxBidSlots => Right(k + 1)}
<1>0. MaxBidSlots \in Nat \ {0} /\ Slots = 1..MaxBidSlots
  BY SlotsAssumption DEF Slots
<1>1. \A i \in 1..MaxBidSlots :
        best[i] = IF price[i] > best[i - 1].price THEN [index |-> i, price |-> price[i]]
                  ELSE best[i - 1]
  BY <1>0 DEF WinnerPass
<1>2. 0 \in T
  <2>1. best[0].price = -1
    BY <1>0 DEF WinnerPass
  <2>2. best[1] = [index |-> 1, price |-> price[1]]
    <3>1. 1 \in 1..MaxBidSlots /\ price[1] \in Nat
      BY <1>0
    <3>2. best[1] = IF price[1] > best[0].price THEN [index |-> 1, price |-> price[1]]
                    ELSE best[0]
      BY <1>1, <3>1
    <3>. QED  BY <2>1, <3>1, <3>2
  <2>3. Right(1)
    BY <1>0, <2>2 DEF HoldsBelow
  <2>. QED  BY <2>3
<1>3. ASSUME NEW k \in Nat, k \in T PROVE k + 1 \in T
  <2>1. SUFFICES ASSUME k + 2 <= MaxBidSlots PROVE Right(k + 2)
    OBVIOUS
  <2>2. Right(k + 1)
    BY <1>0, <1>3, <2>1
  <2>3. \A i \in 1..(k + 2) : price[i] \in Nat /\ (i \in 1..(k + 1) \/ i = k + 2)
    BY <1>0, <2>1
  <2>4. best[k + 2] = IF price[k + 2] > best[k + 1].price
                      THEN [index |-> k + 2, price |-> price[k + 2]] ELSE best[k + 1]
    <3>1. k + 2 \in 1..MaxBidSlots /\ (k + 2) - 1 = k + 1
      BY <1>0, <2>1
    <3>. QED  BY <1>1, <3>1
  <2> DEFINE w == best[k + 1].index
  <2>5. /\ w \in 1..(k + 1) /\ best[k + 1].price = price[w] /\ price[w] \in Nat
        /\ price[k + 2] \in Nat
        /\ \A i \in 1..(k + 1) : price[w] >= price[i] /\ (i < w => price[w] > price[i])
    BY <2>2, <2>3 DEF HoldsBelow
  <2>. HIDE DEF w
  <2>6. CASE price[k + 2] > price[w]
    <3>1. best[k + 2].index = k + 2 /\ best[k + 2].price = price[k + 2]
      BY <2>4, <2>5, <2>6
    <3>2. HoldsBelow(price, k + 2, k + 2)
      BY <2>3, <2>5, <2>6 DEF HoldsBelow
    <3>. QED  BY <3>1, <3>2
  <2>7. CASE ~(price[k + 2] > price[w])
    <3>1. best[k + 2] = best[k + 1]
      BY <2>4, <2>5, <2>7
    <3>2. HoldsBelow(price, w, k + 2)
      BY <2>3, <2>5, <2>7 DEF HoldsBelow
    <3>. QED  BY <2>5, <3>1, <3>2 DEF w
  <2>. QED  BY <2>6, <2>7
<1>4. Nat \subseteq T
  <2>. HIDE DEF T
  <2>. QED  BY <1>2, <1>3, SetInduction
<1>5. Right(MaxBidSlots)
  <2>1. MaxBidSlots - 1 \in T /\ (MaxBidSlots - 1) + 1 = MaxBidSlots
    BY <1>0, <1>4
  <2>. QED  BY <1>0, <2>1
<1>. QED  BY <1>0, <1>5

\* The first pass finds the lowest slot with the highest price.
LEMMA FirstPassIsRight ==
    ASSUME NEW price, \A i \in Slots : price[i] \in Nat
    PROVE  IsVickreyWinner(price, WinnerIndex(price))
<1> DEFINE best == CHOOSE b : WinnerPass(price, MaxBidSlots, b)
<1>1. WinnerPass(price, MaxBidSlots, best)
  BY WinnerPassExists, SlotsAssumption
<1>2. WinnerIndex(price) = best[MaxBidSlots].index
  BY DEF WinnerIndex, WinnerPass
<1>. HIDE DEF best
<1>3. WinnerIndex(price) \in Slots /\ HoldsBelow(price, WinnerIndex(price), MaxBidSlots)
  BY <1>1, <1>2, WinnerPassHolds
<1>4. HoldsMaximum(price, WinnerIndex(price))
  BY <1>3 DEF HoldsBelow, HoldsMaximum, Slots
<1>. QED  BY <1>3, <1>4, WinnerIsVickrey

\* best satisfies the recursion of ClearingPrice over the first n slots.
PricePass(price, winner, n, best) ==
    best = [i \in 0..n |->
               IF i = 0 THEN 0
               ELSE IF i # winner /\ price[i] > best[i - 1] THEN price[i] ELSE best[i - 1]]

LEMMA PricePassExists ==
    ASSUME NEW price, NEW winner, NEW n \in Nat
    PROVE  \E best : PricePass(price, winner, n, best)
<1> DEFINE T == {k \in Nat : \E b : PricePass(price, winner, k, b)}
<1>1. 0 \in T
  <2> DEFINE b == [i \in 0..0 |-> 0]
  <2>1. PricePass(price, winner, 0, b)
    BY DEF PricePass
  <2>. QED  BY <2>1
<1>2. ASSUME NEW k \in Nat, k \in T PROVE k + 1 \in T
  <2>1. PICK b : PricePass(price, winner, k, b)
    BY <1>2
  <2> DEFINE next == IF k + 1 # winner /\ price[k + 1] > b[k] THEN price[k + 1] ELSE b[k]
             c == [i \in 0..(k + 1) |-> IF i = k + 1 THEN next ELSE b[i]]
  <2>2. ASSUME NEW i \in 0..(k + 1)
        PROVE  c[i] = IF i = 0 THEN 0
                      ELSE IF i # winner /\ price[i] > c[i - 1] THEN price[i] ELSE c[i - 1]
    <3>1. CASE i = k + 1
      <4>1. c[i] = next /\ c[i - 1] = b[k] /\ i # 0 /\ i - 1 = k
        BY <3>1
      <4>. HIDE DEF c
      <4>. QED  BY <3>1, <4>1
    <3>2. CASE i # k + 1
      <4>1. i \in 0..k /\ c[i] = b[i] /\ (i # 0 => c[i - 1] = b[i - 1])
        BY <3>2
      <4>2. b[i] = IF i = 0 THEN 0
                   ELSE IF i # winner /\ price[i] > b[i - 1] THEN price[i] ELSE b[i - 1]
        BY <2>1, <4>1 DEF PricePass
      <4>. HIDE DEF c
      <4>. QED  BY <4>1, <4>2
    <3>. QED  BY <3>1, <3>2
  <2>3. PricePass(price, winner, k + 1, c)
    <3>1. c = [i \in 0..(k + 1) |-> c[i]]
      OBVIOUS
    <3>. HIDE DEF c
    <3>. QED  BY <2>2, <3>1 DEF PricePass
  <2>. QED  BY <2>3
<1>3. Nat \subseteq T
  <2>. HIDE DEF T
  <2>. QED  BY <1>1, <1>2, SetInduction
<1>. QED  BY <1>3

\* After k slots the pass holds the best price of the slots so far but the winner's.
LEMMA PricePassHolds ==
    ASSUME NEW price, \A i \in Slots : price[i] \in Nat, NEW winner,
           NEW best, PricePass(price, winner, MaxBidSlots, best)
    PROVE  /\ best[MaxBidSlots] \in Nat
           /\ IF winner \in Slots THEN IsClearingPrice(price, winner, best[MaxBidSlots]) ELSE TRUE
<1> DEFINE Right(k) == /\ best[k] \in Nat
                       /\ best[k] = 0 \/ \E i \in 1..k : i # winner /\ price[i] = best[k]
                       /\ \A i \in 1..k : i # winner => price[i] <= best[k]
           T == {k \in Nat : k <= MaxBidSlots => Right(k)}
<1>0. MaxBidSlots \in Nat \ {0} /\ Slots = 1..MaxBidSlots
  BY SlotsAssumption DEF Slots
<1>1. 0 \in T
  BY <1>0 DEF PricePass
<1>2. ASSUME NEW k \in Nat, k \in T PROVE k + 1 \in T
  <2>1. SUFFICES ASSUME k + 1 <= MaxBidSlots PROVE Right(k + 1)
    OBVIOUS
  <2>2. Right(k)
    BY <1>0, <1>2, <2>1
  <2>3. best[k + 1] = IF k + 1 # winner /\ price[k + 1] > best[k] THEN price[k + 1] ELSE best[k]
    BY <1>0, <2>1 DEF PricePass
  <2>4. \A i \in 1..(k + 1) : price[i] \in Nat /\ (i \in 1..k \/ i = k + 1)
    BY <1>0, <2>1
  <2>5. k + 1 \in 1..(k + 1) /\ 1..k \subseteq 1..(k + 1)
    OBVIOUS
  <2>. QED  BY <2>2, <2>3, <2>4, <2>5
<1>3. Nat \subseteq T
  <2>. HIDE DEF T
  <2>. QED  BY <1>1, <1>2, SetInduction
<1>4. Right(MaxBidSlots)
  BY <1>0, <1>3
<1>. QED  BY <1>0, <1>4 DEF IsClearingPrice

\* The second pass finds the best price of the others.
LEMMA SecondPassIsRight ==
    ASSUME NEW price, \A i \in Slots : price[i] \in Nat, NEW winner \in Slots
    PROVE  ClearingPrice(price, winner) \in Nat
           /\ IsClearingPrice(price, winner, ClearingPrice(price, winner))
<1> DEFINE best == CHOOSE b : PricePass(price, winner, MaxBidSlots, b)
<1>1. PricePass(price, winner, MaxBidSlots, best)
  BY PricePassExists, SlotsAssumption
<1>2. ClearingPrice(price, winner) = best[MaxBidSlots]
  BY DEF ClearingPrice, PricePass
<1>. HIDE DEF best
<1>. QED  BY <1>1, <1>2, PricePassHolds

-----------------------------------------------------------------------------
(* What the files are made of.                                             *)

BookedBids == [bidder : Senders, price : SealedPrices, seal : BidSeals]
BooksOK ==
    /\ books \in [Auctions -> Seq(BookedBids)]
    /\ \A a \in Auctions : Len(books[a]) \in 0..MaxBidSlots

LEMMA BookFacts ==
    ASSUME BooksOK, NEW a \in Auctions
    PROVE  /\ Len(books[a]) \in 0..MaxBidSlots /\ DOMAIN books[a] = 1..Len(books[a])
           /\ DOMAIN books[a] \subseteq Slots
           /\ \A i \in DOMAIN books[a] : books[a][i].price \in 1..U64Max
<1>1. books[a] \in Seq(BookedBids) /\ Len(books[a]) \in 0..MaxBidSlots
  BY DEF BooksOK
<1>2. \A i \in DOMAIN books[a] : books[a][i] \in BookedBids
  BY <1>1
<1>3. \A i \in DOMAIN books[a] : books[a][i].price \in SealedPrices
  BY <1>2 DEF BookedBids
<1>4. DOMAIN books[a] = 1..Len(books[a])
  BY <1>1
<1>5. 1..Len(books[a]) \subseteq Slots
  BY <1>1, SlotsAssumption DEF Slots
<1>6. \A i \in DOMAIN books[a] : books[a][i].price \in 1..U64Max
  BY <1>3, CommandAssumption
<1>. QED  BY <1>1, <1>4, <1>5, <1>6

\* d is the file of the fetch number s, of bids that stand in the book of its auction.
FetchedFrom(d, s, a, first, last) ==
    d = [auctionId |-> a, sitting |-> s, bids |-> [i \in first..last |-> books[a][i]]]

Fetched(d, s) ==
    \E a \in Auctions : \E first \in 1..Len(books[a]) + 1, last \in 0..Len(books[a]) :
        FetchedFrom(d, s, a, first, last)

LEMMA FetchedFacts ==
    ASSUME BooksOK, NEW d, NEW s, Fetched(d, s)
    PROVE  /\ d.sitting = s /\ d.auctionId \in Auctions
           /\ DOMAIN d.bids \subseteq Slots
           /\ DOMAIN d.bids \subseteq 1..Len(books[d.auctionId])
           /\ \A i \in DOMAIN d.bids : /\ d.bids[i] = books[d.auctionId][i]
                                       /\ d.bids[i].price \in 1..U64Max
           /\ \A i \in Slots : PaddedPrices(d.bids)[i] \in 0..U64Max
           /\ \A i \in Slots : PaddedPrices(d.bids)[i] > 0 <=> i \in DOMAIN d.bids
<1>0. PICK a \in Auctions :
        \E first \in 1..Len(books[a]) + 1, last \in 0..Len(books[a]) :
            FetchedFrom(d, s, a, first, last)
  BY DEF Fetched
<1>1. PICK first \in 1..Len(books[a]) + 1, last \in 0..Len(books[a]) :
        d = [auctionId |-> a, sitting |-> s, bids |-> [i \in first..last |-> books[a][i]]]
  BY <1>0 DEF FetchedFrom
<1>2. Len(books[a]) \in 0..MaxBidSlots /\ MaxBidSlots \in Nat
  BY BookFacts, SlotsAssumption
<1>3. first..last \subseteq 1..Len(books[a]) /\ first..last \subseteq Slots
  BY <1>2 DEF Slots
<1>4. /\ d.auctionId = a /\ d.sitting = s /\ DOMAIN d.bids = first..last
      /\ \A i \in first..last : d.bids[i] = books[a][i]
  BY <1>1
<1>5. \A i \in DOMAIN d.bids : d.bids[i].price \in 1..U64Max
  BY <1>3, <1>4, BookFacts
<1>6. \A i \in Slots : PaddedPrices(d.bids)[i] = IF i \in DOMAIN d.bids THEN d.bids[i].price ELSE 0
  BY DEF PaddedPrices
<1>7. \A i \in Slots : PaddedPrices(d.bids)[i] \in 0..U64Max
  BY <1>5, <1>6, U64Assumption
<1>8. \A i \in Slots : PaddedPrices(d.bids)[i] > 0 <=> i \in DOMAIN d.bids
  BY <1>5, <1>6, U64Assumption
<1>. QED  BY <1>3, <1>4, <1>5, <1>7, <1>8

\* What build-input finds in a fetch is the outcome of the bids that are in it.
LEMMA OutcomeOfFetch ==
    ASSUME BooksOK, NEW d, NEW s, Fetched(d, s), NEW m, HasOutcome(d, m)
    PROVE  LET price == PaddedPrices(d.bids)
               w == WinnerIndex(price)
               p == ClearingPrice(price, w)
           IN  /\ IsVickreyWinner(price, w) /\ IsClearingPrice(price, w, p)
               /\ w \in DOMAIN d.bids /\ p \in Nat /\ p > 0
               /\ d.bids[w].bidder \in m
<1> DEFINE price == PaddedPrices(d.bids)
           w == WinnerIndex(price)
           p == ClearingPrice(price, w)
<1>1. \A i \in Slots : price[i] \in Nat
  BY FetchedFacts, U64Assumption
<1>2. p > 0 /\ d.bids[w].bidder \in m
  BY DEF HasOutcome
<1>3. \A i \in Slots : price[i] > 0 <=> i \in DOMAIN d.bids
  BY FetchedFacts
<1>. HIDE DEF price
<1>4. IsVickreyWinner(price, w)
  BY <1>1, FirstPassIsRight
<1>5. w \in Slots
  BY <1>4 DEF IsVickreyWinner
<1>6. p \in Nat /\ IsClearingPrice(price, w, p)
  BY <1>1, <1>5, SecondPassIsRight
<1>7. HoldsMaximum(price, w)
  BY <1>1, <1>4, <1>5, WinnerIsVickrey
<1>. HIDE DEF w, p
<1>8. price[w] > 0
  <2>1. PICK i \in Slots : price[i] = p
    BY <1>2, <1>6 DEF IsClearingPrice
  <2>. QED  BY <1>1, <1>2, <1>5, <1>6, <1>7, <2>1 DEF HoldsMaximum
<1>9. w \in DOMAIN d.bids
  BY <1>3, <1>5, <1>8
<1>. QED  BY <1>2, <1>4, <1>6, <1>9 DEF price, w, p

LEMMA InputFacts ==
    ASSUME NEW d, NEW m
    PROVE  LET price == PaddedPrices(d.bids)
               w == WinnerIndex(price)
               in == CircuitInput(d, m)
               pub == in.signals
           IN  /\ in.sitting = d.sitting /\ in.prices = price
               /\ in.salts = [i \in Slots |-> IF i \in DOMAIN d.bids THEN i ELSE 0]
               /\ pub.auctionId = d.auctionId
               /\ pub.commitments = [i \in Slots |-> IF i \in DOMAIN d.bids
                                         THEN BidCommitment(d.auctionId, i, d.bids[i])
                                         ELSE EmptyCommitment]
               /\ pub.winnerIndex = w /\ pub.winningPrice = ClearingPrice(price, w)
               /\ pub.whitelistRoot = m /\ pub.winnerAddrHash = d.bids[w].bidder
  BY DEF CircuitInput

\* A commitment of a bid that was fetched is no empty slot.
LEMMA SealedIsNotEmpty ==
    ASSUME NEW a \in Auctions, NEW i \in Slots, NEW bid, bid.price \in 1..U64Max
    PROVE  /\ BidCommitment(a, i, bid) = Poseidon3(bid.price, i, a)
           /\ BidCommitment(a, i, bid) # EmptyCommitment
<1>1. a \in Int /\ i \in Int /\ bid.price \in Int
  BY CommandAssumption, U64Assumption, SlotsAssumption DEF Slots
<1>. QED  BY <1>1, EmptyAssumption DEF BidCommitment, Poseidon3

\* The circuit has a witness for everything build-input writes.
LEMMA InputIsProvable ==
    ASSUME BooksOK, NEW d, NEW s, Fetched(d, s), NEW m, HasOutcome(d, m)
    PROVE  /\ CircuitInput(d, m).signals.winningPrice \in Int
           /\ WinnerStatement(CircuitInput(d, m).signals, CircuitInput(d, m).prices,
                              CircuitInput(d, m).salts)
<1> DEFINE in == CircuitInput(d, m)
           pub == in.signals
           price == PaddedPrices(d.bids)
           w == WinnerIndex(price)
           p == ClearingPrice(price, w)
<1>1. /\ IsVickreyWinner(price, w) /\ IsClearingPrice(price, w, p)
      /\ p \in Nat /\ p > 0 /\ d.bids[w].bidder \in m
  BY OutcomeOfFetch
<1>2. /\ in.prices = price
      /\ in.salts = [i \in Slots |-> IF i \in DOMAIN d.bids THEN i ELSE 0]
      /\ pub.auctionId = d.auctionId
      /\ pub.commitments = [i \in Slots |-> IF i \in DOMAIN d.bids
                                THEN BidCommitment(d.auctionId, i, d.bids[i])
                                ELSE EmptyCommitment]
      /\ pub.winnerIndex = w /\ pub.winningPrice = p
      /\ pub.whitelistRoot = m /\ pub.winnerAddrHash = d.bids[w].bidder
  BY InputFacts
<1>3. /\ d.auctionId \in Auctions /\ DOMAIN d.bids \subseteq Slots
      /\ \A i \in DOMAIN d.bids : d.bids[i].price \in 1..U64Max
      /\ \A i \in Slots : price[i] \in 0..U64Max
  BY FetchedFacts
<1>4. \A i \in Slots : price[i] = IF i \in DOMAIN d.bids THEN d.bids[i].price ELSE 0
  BY DEF PaddedPrices
<1>. HIDE DEF in, pub, price, w, p
<1>5. BindsCommitments(pub, in.prices, in.salts)
  <2>. SUFFICES ASSUME NEW i \in Slots
                PROVE  IF pub.commitments[i] = EmptyCommitment THEN price[i] = 0
                       ELSE pub.commitments[i] = Poseidon3(price[i], in.salts[i], pub.auctionId)
    BY <1>2 DEF BindsCommitments
  <2>1. CASE i \in DOMAIN d.bids
    <3>1. pub.commitments[i] = Poseidon3(d.bids[i].price, i, d.auctionId)
          /\ pub.commitments[i] # EmptyCommitment
      BY <1>2, <1>3, <2>1, SealedIsNotEmpty
    <3>. QED  BY <1>2, <1>4, <2>1, <3>1
  <2>2. CASE i \notin DOMAIN d.bids
    BY <1>2, <1>4, <2>2
  <2>. QED  BY <2>1, <2>2
<1>6. pub.winningPrice \in Int /\ pub.winningPrice # 0
  BY <1>1, <1>2
<1>7. WinnerStatement(pub, in.prices, in.salts)
  BY <1>1, <1>2, <1>3, <1>5, <1>6, CircuitIsVickrey
<1>. QED  BY <1>6, <1>7 DEF in, pub

\* Signals some witness satisfies.
Provable(pub) ==
    /\ pub.winningPrice \in Int
    /\ \E price, salt : WinnerStatement(pub, price, salt)

\* A bundle the contract accepts names the outcome of the book it stands for.
LEMMA AcceptedIsOutcome ==
    ASSUME BooksOK, NEW b, b.auctionId \in Auctions, Provable(b.proves), ContractAccepts(b)
    PROVE  LET price == PaddedPrices(books[b.auctionId])
           IN  /\ IsVickreyWinner(price, b.winnerIndex)
               /\ IsClearingPrice(price, b.winnerIndex, b.winningPrice)
<1> DEFINE a == b.auctionId
           pub == b.proves
           full == PaddedPrices(books[a])
<1>1. /\ pub.auctionId = a
      /\ pub.commitments = [i \in Slots |-> IF i \in DOMAIN books[a]
                                THEN BidCommitment(a, i, books[a][i]) ELSE EmptyCommitment]
      /\ pub.winnerIndex = b.winnerIndex /\ pub.winningPrice = b.winningPrice
  BY DEF ContractAccepts
<1>2. PICK price, salt : WinnerStatement(pub, price, salt)
  BY DEF Provable
<1>3. /\ \A i \in Slots : price[i] \in 0..U64Max
      /\ BindsCommitments(pub, price, salt)
      /\ IsVickreyWinner(price, pub.winnerIndex)
      /\ IsClearingPrice(price, pub.winnerIndex, pub.winningPrice)
  BY <1>2, CircuitIsVickrey DEF Provable
<1>4. \A i \in Slots : i \in DOMAIN books[a] => books[a][i].price \in 1..U64Max
  BY BookFacts
<1>5. \A i \in Slots : full[i] = IF i \in DOMAIN books[a] THEN books[a][i].price ELSE 0
  BY DEF PaddedPrices
<1>6. a \in Auctions
  OBVIOUS
<1>. HIDE DEF a, pub, full
<1>7. \A i \in Slots : price[i] = full[i]
  <2>. SUFFICES ASSUME NEW i \in Slots PROVE price[i] = full[i]
    OBVIOUS
  <2>1. CASE i \in DOMAIN books[a]
    <3>1. pub.commitments[i] = Poseidon3(books[a][i].price, i, a)
          /\ pub.commitments[i] # EmptyCommitment
      BY <1>1, <1>4, <1>6, <2>1, SealedIsNotEmpty
    <3>2. Poseidon3(price[i], salt[i], pub.auctionId) = Poseidon3(books[a][i].price, i, a)
      BY <1>3, <3>1 DEF BindsCommitments
    <3>3. price[i] = books[a][i].price
      BY <3>2 DEF Poseidon3
    <3>. QED  BY <1>5, <2>1, <3>3
  <2>2. CASE i \notin DOMAIN books[a]
    <3>1. pub.commitments[i] = EmptyCommitment
      BY <1>1, <2>2
    <3>. QED  BY <1>3, <1>5, <2>2, <3>1 DEF BindsCommitments
  <2>. QED  BY <2>1, <2>2
<1>8. IsVickreyWinner(full, pub.winnerIndex)
  <2>1. {price[i] : i \in Slots} = {full[i] : i \in Slots}
    BY <1>7
  <2>2. HighestPrice(price) = HighestPrice(full)
    BY <1>7, <2>1 DEF HighestPrice
  <2>. QED  BY <1>3, <1>7, <2>2 DEF IsVickreyWinner
<1>9. IsClearingPrice(full, pub.winnerIndex, pub.winningPrice)
  BY <1>3, <1>7 DEF IsClearingPrice
<1>. QED  BY <1>1, <1>8, <1>9 DEF full, a

-----------------------------------------------------------------------------
(* The files of the terminals, each of a fetch or of two.                  *)

InputOf(in, d) == \E m \in MemberLists : in = CircuitInput(d, m) /\ HasOutcome(d, m)

ProofOf(proof, d) ==
    \E m \in MemberLists : /\ proof.sitting = d.sitting
                           /\ proof.proves = CircuitInput(d, m).signals /\ HasOutcome(d, m)

\* The meta of the fetch d and a proof of the fetch e, for the auction typed.
BundleOf(b, d, e) ==
    /\ b.auctionId \in Auctions
    /\ b.sitting = IF e.sitting = d.sitting /\ d.auctionId = b.auctionId THEN d.sitting ELSE 0
    /\ b.winnerIndex = SettleMeta(d).winnerIndex
    /\ b.winningPrice = SettleMeta(d).winningPrice
    /\ b.winnerAddress = SettleMeta(d).winnerAddress
    /\ \E m \in MemberLists : b.proves = CircuitInput(e, m).signals /\ HasOutcome(e, m)

FilesShape == DOMAIN files = Terminals /\ \A t \in Terminals : DOMAIN files[t] = FileKinds

\* What a file of each kind is, when doc[s] is what the fetch number s wrote.
FileOf(doc, n, kind, file) ==
    /\ kind \in {"events", "decrypted"} => \E s \in 1..n : file = doc[s]
    /\ kind = "whitelist" => file \in MemberLists
    /\ kind = "input" => \E s \in 1..n : InputOf(file, doc[s])
    /\ kind = "meta" => \E s \in 1..n : file = SettleMeta(doc[s])
    /\ kind = "args" => \E s \in 1..n : ProofOf(file, doc[s])
    /\ kind = "bundle" => \E s, r \in 1..n : BundleOf(file, doc[s], doc[r])

FilesOf(doc) ==
    \A t \in Terminals : \A kind \in FileKinds :
        files[t][kind] # NoFile => FileOf(doc, sittings, kind, files[t][kind])

BuildOf(doc) ==
    /\ build.witness # NoFile => \E s \in 1..sittings : InputOf(build.witness, doc[s])
    /\ build.proof # NoFile => \E s \in 1..sittings : ProofOf(build.proof, doc[s])

OfFetches(doc) ==
    /\ \A s \in 1..sittings : Fetched(doc[s], s)
    /\ FilesOf(doc) /\ BuildOf(doc)

CommandInv ==
    /\ BooksOK /\ DOMAIN settledWith = Auctions /\ sittings \in Nat
    /\ FilesShape
    /\ step \in [Terminals -> {"shell", "witness"}]
    /\ DOMAIN build = {"witness", "proof"}
    /\ \A t \in Terminals : step[t] = "witness" => build.witness # NoFile
    /\ \E doc : OfFetches(doc)
    /\ OnlyWholeBooksSettle

LEMMA CommandInitial == CommandInit => CommandInv
<1>. SUFFICES ASSUME CommandInit PROVE CommandInv
  OBVIOUS
<1>1. BooksOK
  <2>1. \A a \in Auctions : books[a] = <<>> /\ Len(books[a]) = 0
    BY DEF CommandInit
  <2>2. books \in [Auctions -> Seq(BookedBids)]
    BY DEF CommandInit
  <2>. QED  BY <2>1, <2>2, SlotsAssumption DEF BooksOK
<1>2. OfFetches(<<>>)
  BY DEF CommandInit, OfFetches, FilesOf, BuildOf, FileKinds
<1>3. OnlyWholeBooksSettle
  BY DEF CommandInit, OnlyWholeBooksSettle
<1>. QED  BY <1>1, <1>2, <1>3 DEF CommandInit, CommandInv, FilesShape, FileKinds

LEMMA WriteFacts ==
    ASSUME FilesShape, NEW t \in Terminals, NEW kind \in FileKinds, NEW file, Write(t, kind, file)
    PROVE  /\ FilesShape'
           /\ files'[t][kind] = file
           /\ \A u \in Terminals : \A k \in FileKinds :
                 u # t \/ k # kind => files'[u][k] = files[u][k]
<1>1. files' = [files EXCEPT ![t] = [files[t] EXCEPT ![kind] = file]]
  BY DEF Write
<1>. QED  BY <1>1 DEF FilesShape

\* A fetch stands as long as the books only grow.
LEMMA FetchedStays ==
    ASSUME BooksOK, BooksOK', NEW d, NEW s, Fetched(d, s),
           \A a \in Auctions : /\ Len(books[a]) <= Len(books'[a])
                               /\ \A i \in 1..Len(books[a]) : books'[a][i] = books[a][i]
    PROVE  Fetched(d, s)'
<1>1. PICK a \in Auctions :
        \E first \in 1..Len(books[a]) + 1, last \in 0..Len(books[a]) :
            FetchedFrom(d, s, a, first, last)
  BY DEF Fetched
<1>2. PICK first \in 1..Len(books[a]) + 1, last \in 0..Len(books[a]) :
        d = [auctionId |-> a, sitting |-> s, bids |-> [i \in first..last |-> books[a][i]]]
  BY <1>1 DEF FetchedFrom
<1>3. Len(books[a]) \in Nat /\ Len(books'[a]) \in Nat
  BY DEF BooksOK
<1>4. [i \in first..last |-> books[a][i]] = [i \in first..last |-> books'[a][i]]
  BY <1>2, <1>3
<1>5. first \in 1..Len(books'[a]) + 1 /\ last \in 0..Len(books'[a])
  BY <1>2, <1>3
<1>6. FetchedFrom(d, s, a, first, last)'
  BY <1>2, <1>4 DEF FetchedFrom
<1>. QED  BY <1>5, <1>6 DEF Fetched

\* While the books and the number of fetches are as they were.
LEMMA FetchesStand ==
    ASSUME CommandInv, NEW doc, OfFetches(doc), UNCHANGED <<books, sittings>>
    PROVE  BooksOK' /\ \A x \in 1..sittings' : Fetched(doc[x], x)'
<1>1. BooksOK /\ BooksOK'
  BY DEF CommandInv, BooksOK
<1>2. ASSUME NEW d, NEW x, Fetched(d, x)
      PROVE  Fetched(d, x)'
  BY <1>1, <1>2, FetchedStays DEF BooksOK
<1>. QED  BY <1>1, <1>2 DEF OfFetches

LEMMA WriteKeeps ==
    ASSUME FilesShape, NEW doc, FilesOf(doc), UNCHANGED sittings,
           NEW t \in Terminals, NEW kind \in FileKinds, NEW file, Write(t, kind, file),
           FileOf(doc, sittings, kind, file)
    PROVE  FilesShape' /\ FilesOf(doc)'
<1>1. /\ FilesShape'
      /\ files'[t][kind] = file
      /\ \A u \in Terminals : \A k \in FileKinds :
            u # t \/ k # kind => files'[u][k] = files[u][k]
  BY WriteFacts
<1>. QED  BY <1>1 DEF FilesOf

\* While the chain is as it was, a tool that writes a file of the fetches there
\* were keeps the invariant.
LEMMA ToolKeeps ==
    ASSUME CommandInv, NEW doc, OfFetches(doc),
           UNCHANGED <<books, settledWith, sittings, step, build>>,
           NEW t \in Terminals, NEW kind \in FileKinds, NEW file, Write(t, kind, file),
           FileOf(doc, sittings, kind, file)
    PROVE  CommandInv'
<1>1. FilesShape' /\ FilesOf(doc)'
  BY WriteKeeps DEF CommandInv, OfFetches
<1>2. \A s \in 1..sittings' : Fetched(doc[s], s)'
  BY FetchesStand
<1>3. BuildOf(doc)'
  BY DEF OfFetches, BuildOf
<1>4. OfFetches(doc)'
  BY <1>1, <1>2, <1>3 DEF OfFetches
<1>. QED  BY <1>1, <1>4 DEF CommandInv, BooksOK, OnlyWholeBooksSettle

LEMMA WhitelistKeeps ==
    ASSUME CommandInv, NEW t \in Terminals, BuildWhitelist(t)
    PROVE  CommandInv'
<1>1. PICK doc : OfFetches(doc)
  BY DEF CommandInv
<1>2. PICK m \in MemberLists : Write(t, "whitelist", m)
  BY DEF BuildWhitelist
<1>3. FileOf(doc, sittings, "whitelist", m)
  BY DEF FileOf
<1>. QED  BY <1>1, <1>2, <1>3, ToolKeeps DEF BuildWhitelist, contractVars, FileKinds

LEMMA DecryptKeeps ==
    ASSUME CommandInv, NEW t \in Terminals, OperatorDecrypt(t)
    PROVE  CommandInv'
<1>1. PICK doc : OfFetches(doc)
  BY DEF CommandInv
<1>2. FileOf(doc, sittings, "events", files[t]["events"])
  BY <1>1 DEF OperatorDecrypt, Has, OfFetches, FilesOf, FileKinds
<1>3. FileOf(doc, sittings, "decrypted", files[t]["events"])
  BY <1>2 DEF FileOf
<1>. QED  BY <1>1, <1>3, ToolKeeps DEF OperatorDecrypt, contractVars, FileKinds

LEMMA FormatKeeps ==
    ASSUME CommandInv, NEW t \in Terminals, FormatArgs(t)
    PROVE  CommandInv'
<1>1. PICK doc : OfFetches(doc)
  BY DEF CommandInv
<1>2. FileOf(doc, sittings, "args", build.proof)
  BY <1>1 DEF FormatArgs, OfFetches, BuildOf, FileOf
<1>. QED  BY <1>1, <1>2, ToolKeeps DEF FormatArgs, contractVars, FileKinds

LEMMA BundleKeeps ==
    ASSUME CommandInv, NEW t \in Terminals, NEW a \in Auctions, BuildSettleBundle(t, a)
    PROVE  CommandInv'
<1> DEFINE m == files[t]["meta"]
           b == [sitting |-> IF files[t]["args"].sitting = m.sitting /\ m.auctionId = a
                             THEN m.sitting ELSE 0,
                 auctionId |-> a, winnerIndex |-> m.winnerIndex,
                 winningPrice |-> m.winningPrice, winnerAddress |-> m.winnerAddress,
                 proves |-> files[t]["args"].proves]
<1>1. PICK doc : OfFetches(doc)
  BY DEF CommandInv
<1>2. FileOf(doc, sittings, "meta", m) /\ FileOf(doc, sittings, "args", files[t]["args"])
  BY <1>1 DEF BuildSettleBundle, Has, OfFetches, FilesOf, FileKinds
<1>3. PICK s \in 1..sittings : m = SettleMeta(doc[s])
  BY <1>2 DEF FileOf
<1>4. PICK r \in 1..sittings : ProofOf(files[t]["args"], doc[r])
  BY <1>2 DEF FileOf
<1>5. m.sitting = doc[s].sitting /\ m.auctionId = doc[s].auctionId
  BY <1>3 DEF SettleMeta
<1>6. BundleOf(b, doc[s], doc[r])
  <2>1. PICK l \in MemberLists : /\ files[t]["args"].sitting = doc[r].sitting
                                 /\ files[t]["args"].proves = CircuitInput(doc[r], l).signals
                                 /\ HasOutcome(doc[r], l)
    BY <1>4 DEF ProofOf
  <2>2. b.auctionId = a /\ b.proves = files[t]["args"].proves
    OBVIOUS
  <2>3. b.sitting = IF files[t]["args"].sitting = m.sitting /\ m.auctionId = a
                    THEN m.sitting ELSE 0
    OBVIOUS
  <2>4. /\ b.winnerIndex = m.winnerIndex /\ b.winningPrice = m.winningPrice
        /\ b.winnerAddress = m.winnerAddress
    OBVIOUS
  <2>. HIDE DEF b, m
  <2>. QED  BY <1>3, <1>5, <2>1, <2>2, <2>3, <2>4 DEF BundleOf
<1>7. Write(t, "bundle", b)
  BY DEF BuildSettleBundle
<1>8. FileOf(doc, sittings, "bundle", b)
  <2>. HIDE DEF b
  <2>. QED  BY <1>6 DEF FileOf
<1>. HIDE DEF b, m
<1>. QED  BY <1>1, <1>7, <1>8, ToolKeeps DEF BuildSettleBundle, contractVars, FileKinds

\* The input, and then the meta, of one fetch.
LEMMA BuildInputKeeps ==
    ASSUME CommandInv, NEW t \in Terminals, BuildInput(t)
    PROVE  CommandInv'
<1> DEFINE d == files[t]["decrypted"]
           m == files[t]["whitelist"]
           in == CircuitInput(d, m)
           meta == SettleMeta(d)
           written == [files EXCEPT ![t]["input"] = in]
<1>0. /\ d # NoFile /\ m # NoFile /\ HasOutcome(d, m)
      /\ files' = written \/ files' = [written EXCEPT ![t]["meta"] = meta]
      /\ UNCHANGED <<books, roots, settledWith, sittings, step, build>>
  BY DEF BuildInput, Has, contractVars
<1>1. PICK doc : OfFetches(doc)
  BY DEF CommandInv
<1>2. FilesShape /\ FilesOf(doc)
  BY <1>1 DEF CommandInv, OfFetches
<1>3. FileOf(doc, sittings, "decrypted", d) /\ FileOf(doc, sittings, "whitelist", m)
  BY <1>0, <1>2 DEF FilesOf, FileKinds
<1>4. PICK s \in 1..sittings : d = doc[s]
  BY <1>3 DEF FileOf
<1>5. m \in MemberLists
  BY <1>3 DEF FileOf
<1>6. FileOf(doc, sittings, "input", in) /\ FileOf(doc, sittings, "meta", meta)
  BY <1>0, <1>4, <1>5 DEF FileOf, InputOf
<1>7. /\ FilesShape'
      /\ files'[t]["input"] = in
      /\ files'[t]["meta"] = files[t]["meta"] \/ files'[t]["meta"] = meta
      /\ \A u \in Terminals : \A k \in FileKinds :
            u # t \/ k \notin {"input", "meta"} => files'[u][k] = files[u][k]
  <2>. HIDE DEF in, meta
  <2>1. /\ DOMAIN written = Terminals /\ written[t] = [files[t] EXCEPT !["input"] = in]
        /\ \A u \in Terminals \ {t} : written[u] = files[u]
    BY <1>2 DEF FilesShape
  <2>. HIDE DEF written
  <2>2. DOMAIN files[t] = FileKinds /\ "input" \in FileKinds /\ "meta" \in FileKinds
    BY <1>2 DEF FilesShape, FileKinds
  <2>3. CASE files' = written
    BY <1>2, <2>1, <2>2, <2>3 DEF FilesShape
  <2>4. CASE files' = [written EXCEPT ![t]["meta"] = meta]
    <3>1. files' = [written EXCEPT ![t] = [written[t] EXCEPT !["meta"] = meta]]
      BY <2>1, <2>4
    <3>2. /\ DOMAIN files' = Terminals
          /\ files'[t] = [written[t] EXCEPT !["meta"] = meta]
          /\ \A u \in Terminals \ {t} : files'[u] = files[u]
      BY <2>1, <3>1
    <3>3. /\ DOMAIN files'[t] = FileKinds /\ files'[t]["meta"] = meta
          /\ \A k \in FileKinds \ {"meta"} : files'[t][k] = written[t][k]
      BY <2>1, <2>2, <3>2
    <3>4. /\ files'[t]["input"] = in
          /\ \A k \in FileKinds \ {"meta", "input"} : files'[t][k] = files[t][k]
      BY <2>1, <2>2, <3>3
    <3>. QED  BY <1>2, <3>2, <3>3, <3>4 DEF FilesShape
  <2>. QED  BY <1>0, <2>3, <2>4
<1>. HIDE DEF d, m, in, meta, written
<1>8. FilesOf(doc)'
  <2>. SUFFICES ASSUME NEW u \in Terminals, NEW k \in FileKinds, files'[u][k] # NoFile
                PROVE  FileOf(doc, sittings, k, files'[u][k])
    BY <1>0 DEF FilesOf
  <2>1. CASE u = t /\ k = "input"
    BY <1>6, <1>7, <2>1
  <2>2. CASE u = t /\ k = "meta"
    BY <1>2, <1>6, <1>7, <2>2 DEF FilesOf
  <2>3. CASE u # t \/ k \notin {"input", "meta"}
    BY <1>2, <1>7, <2>3 DEF FilesOf
  <2>. QED  BY <2>1, <2>2, <2>3
<1>9. OfFetches(doc)'
  <2>1. \A x \in 1..sittings' : Fetched(doc[x], x)'
    BY <1>0, <1>1, FetchesStand
  <2>2. BuildOf(doc)'
    BY <1>0, <1>1 DEF OfFetches, BuildOf
  <2>. QED  BY <1>0, <1>8, <2>1, <2>2 DEF OfFetches
<1>. QED  BY <1>0, <1>7, <1>9 DEF CommandInv, BooksOK, OnlyWholeBooksSettle

\* What prove.sh leaves in the checkout is of a fetch too.
LEMMA WitnessKeeps ==
    ASSUME CommandInv, NEW t \in Terminals, GenerateWitness(t)
    PROVE  CommandInv'
<1>0. /\ files[t]["input"] # NoFile
      /\ build' = [build EXCEPT !.witness = files[t]["input"]]
      /\ step' = [step EXCEPT ![t] = "witness"]
      /\ UNCHANGED <<books, settledWith, sittings, files>>
  BY DEF GenerateWitness, Has, contractVars
<1>1. PICK doc : OfFetches(doc)
  BY DEF CommandInv
<1>2. FileOf(doc, sittings, "input", files[t]["input"])
  BY <1>0, <1>1 DEF OfFetches, FilesOf, FileKinds
<1>3. PICK s \in 1..sittings : InputOf(files[t]["input"], doc[s])
  BY <1>2 DEF FileOf
<1>4. /\ build'.witness = files[t]["input"] /\ build'.proof = build.proof
      /\ DOMAIN build' = {"witness", "proof"}
  BY <1>0 DEF CommandInv
<1>5. BuildOf(doc)'
  BY <1>0, <1>1, <1>3, <1>4 DEF OfFetches, BuildOf
<1>6. OfFetches(doc)'
  <2>1. \A x \in 1..sittings' : Fetched(doc[x], x)'
    BY <1>0, <1>1, FetchesStand
  <2>2. FilesOf(doc)'
    BY <1>0, <1>1 DEF OfFetches, FilesOf
  <2>. QED  BY <1>0, <1>5, <2>1, <2>2 DEF OfFetches
<1>. QED  BY <1>0, <1>4, <1>6 DEF CommandInv, BooksOK, FilesShape, OnlyWholeBooksSettle

LEMMA ProveKeeps ==
    ASSUME CommandInv, NEW t \in Terminals, Groth16Prove(t)
    PROVE  CommandInv'
<1> DEFINE proof == [sitting |-> build.witness.sitting, proves |-> build.witness.signals]
<1>0. /\ build.witness # NoFile
      /\ build' = [build EXCEPT !.proof = proof]
      /\ step' = [step EXCEPT ![t] = "shell"]
      /\ UNCHANGED <<books, settledWith, sittings, files>>
  BY DEF Groth16Prove, CommandInv, contractVars
<1>1. PICK doc : OfFetches(doc)
  BY DEF CommandInv
<1>2. PICK s \in 1..sittings : InputOf(build.witness, doc[s])
  BY <1>0, <1>1 DEF OfFetches, BuildOf
<1>3. ProofOf(proof, doc[s])
  <2>1. PICK m \in MemberLists : /\ build.witness = CircuitInput(doc[s], m)
                                 /\ HasOutcome(doc[s], m)
    BY <1>2 DEF InputOf
  <2>2. CircuitInput(doc[s], m).sitting = doc[s].sitting
    BY InputFacts
  <2>3. /\ proof.sitting = CircuitInput(doc[s], m).sitting
        /\ proof.proves = CircuitInput(doc[s], m).signals
    BY <2>1
  <2>. HIDE DEF proof
  <2>. QED  BY <2>1, <2>2, <2>3 DEF ProofOf
<1>. HIDE DEF proof
<1>4. /\ build'.witness = build.witness /\ build'.proof = proof
      /\ DOMAIN build' = {"witness", "proof"}
  BY <1>0 DEF CommandInv
<1>5. BuildOf(doc)'
  BY <1>0, <1>1, <1>3, <1>4 DEF OfFetches, BuildOf
<1>6. OfFetches(doc)'
  <2>1. \A x \in 1..sittings' : Fetched(doc[x], x)'
    BY <1>0, <1>1, FetchesStand
  <2>2. FilesOf(doc)'
    BY <1>0, <1>1 DEF OfFetches, FilesOf
  <2>. QED  BY <1>0, <1>5, <2>1, <2>2 DEF OfFetches
<1>. QED  BY <1>0, <1>4, <1>6 DEF CommandInv, BooksOK, FilesShape, OnlyWholeBooksSettle

\* A bid is appended to a book that has not settled.
LEMMA BidKeeps ==
    ASSUME CommandInv, NEW a \in Auctions, BidArrives(a)
    PROVE  CommandInv'
<1>0. /\ settledWith[a] = NoFile /\ Len(books[a]) < MaxBidSlots
      /\ UNCHANGED <<settledWith, sittings, files, step, build>>
  BY DEF BidArrives
<1>1. PICK bid \in BookedBids : books' = [books EXCEPT ![a] = Append(books[a], bid)]
  BY DEF BidArrives, BookedBids
<1>2. books[a] \in Seq(BookedBids) /\ Len(books[a]) \in 0..MaxBidSlots /\ MaxBidSlots \in Nat
  BY SlotsAssumption DEF CommandInv, BooksOK
<1>3. /\ Append(books[a], bid) \in Seq(BookedBids)
      /\ Len(Append(books[a], bid)) = Len(books[a]) + 1
      /\ \A i \in 1..Len(books[a]) : Append(books[a], bid)[i] = books[a][i]
  BY <1>2
<1>4. /\ books'[a] = Append(books[a], bid)
      /\ \A b \in Auctions \ {a} : books'[b] = books[b]
      /\ books' \in [Auctions -> Seq(BookedBids)]
  BY <1>1, <1>3 DEF CommandInv, BooksOK
<1>5. BooksOK'
  <2>0. Len(books[a]) + 1 \in 0..MaxBidSlots
    BY <1>0, <1>2
  <2>1. \A b \in Auctions : Len(books'[b]) \in 0..MaxBidSlots
    BY <2>0, <1>3, <1>4 DEF CommandInv, BooksOK
  <2>. QED  BY <1>4, <2>1 DEF BooksOK
<1>6. ASSUME NEW d, NEW s, Fetched(d, s)
      PROVE  Fetched(d, s)'
  <2>1. \A b \in Auctions : /\ Len(books[b]) <= Len(books'[b])
                            /\ \A i \in 1..Len(books[b]) : books'[b][i] = books[b][i]
    <3>1. \A b \in Auctions : Len(books[b]) \in Nat
      BY DEF CommandInv, BooksOK
    <3>. QED  BY <1>3, <1>4, <3>1
  <2>. QED  BY <1>5, <1>6, <2>1, FetchedStays DEF CommandInv
<1>7. PICK doc : OfFetches(doc)
  BY DEF CommandInv
<1>8. OfFetches(doc)'
  <2>1. \A s \in 1..sittings' : Fetched(doc[s], s)'
    BY <1>0, <1>6, <1>7 DEF OfFetches
  <2>2. FilesOf(doc)' /\ BuildOf(doc)'
    BY <1>0, <1>7 DEF OfFetches, FilesOf, BuildOf
  <2>. QED  BY <2>1, <2>2 DEF OfFetches
<1>9. OnlyWholeBooksSettle'
  BY <1>0, <1>4 DEF CommandInv, OnlyWholeBooksSettle
<1>. QED  BY <1>0, <1>5, <1>8, <1>9 DEF CommandInv, FilesShape

\* A new fetch leaves what the earlier ones wrote.
LEMMA FetchKeeps ==
    ASSUME CommandInv, NEW t \in Terminals, NEW a \in Auctions, FetchBidEvents(t, a)
    PROVE  CommandInv'
<1>0. sittings' = sittings + 1 /\ UNCHANGED <<books, settledWith, step, build>>
  BY DEF FetchBidEvents, contractVars
<1>1. PICK first \in 1..Len(books[a]) + 1, last \in 0..Len(books[a]) :
        Write(t, "events", [auctionId |-> a, sitting |-> sittings + 1,
                            bids |-> [i \in first..last |-> books[a][i]]])
  BY DEF FetchBidEvents
<1>2. PICK doc : OfFetches(doc)
  BY DEF CommandInv
<1>3. PICK d : d = [auctionId |-> a, sitting |-> sittings + 1,
                    bids |-> [i \in first..last |-> books[a][i]]]
  OBVIOUS
<1>4. Write(t, "events", d) /\ Fetched(d, sittings + 1)
  BY <1>1, <1>3 DEF Fetched, FetchedFrom
<1>5. sittings \in Nat
  BY DEF CommandInv
<1>7. PICK n \in Nat : n = sittings /\ sittings' = n + 1
  BY <1>0, <1>5
<1>6. PICK docs : docs = [s \in 1..(n + 1) |-> IF s = n + 1 THEN d ELSE doc[s]]
  OBVIOUS
<1>8. /\ \A s \in 1..n : docs[s] = doc[s] /\ s \in 1..(n + 1)
      /\ n + 1 \in 1..(n + 1) /\ docs[n + 1] = d
  BY <1>6
<1>9. BooksOK /\ BooksOK'
  BY <1>0 DEF CommandInv, BooksOK
<1>10. \A s \in 1..sittings' : Fetched(docs[s], s)'
  <2>1. ASSUME NEW s \in 1..(n + 1)
        PROVE  Fetched(docs[s], s)
    <3>1. CASE s = n + 1
      BY <1>4, <1>7, <1>8, <3>1
    <3>2. CASE s # n + 1
      <4>1. s \in 1..n
        BY <3>2
      <4>2. Fetched(doc[s], s)
        BY <1>2, <1>7, <4>1 DEF OfFetches
      <4>. QED  BY <1>8, <4>1, <4>2
    <3>. QED  BY <3>1, <3>2
  <2>2. ASSUME NEW e, NEW s, Fetched(e, s)
        PROVE  Fetched(e, s)'
    BY <1>0, <1>9, <2>2, FetchedStays DEF BooksOK
  <2>. QED  BY <1>0, <1>7, <2>1, <2>2
<1>11. ASSUME NEW kind, NEW file, FileOf(doc, n, kind, file)
       PROVE  FileOf(docs, n + 1, kind, file)
  <2>1. /\ kind \in {"events", "decrypted"} => \E s \in 1..(n + 1) : file = docs[s]
        /\ kind = "whitelist" => file \in MemberLists
    BY <1>8, <1>11 DEF FileOf
  <2>2. kind = "input" => \E s \in 1..(n + 1) : InputOf(file, docs[s])
    BY <1>8, <1>11 DEF FileOf
  <2>3. kind = "meta" => \E s \in 1..(n + 1) : file = SettleMeta(docs[s])
    BY <1>8, <1>11 DEF FileOf
  <2>4. kind = "args" => \E s \in 1..(n + 1) : ProofOf(file, docs[s])
    BY <1>8, <1>11 DEF FileOf
  <2>5. kind = "bundle" => \E s, r \in 1..(n + 1) : BundleOf(file, docs[s], docs[r])
    BY <1>8, <1>11 DEF FileOf
  <2>. QED  BY <2>1, <2>2, <2>3, <2>4, <2>5 DEF FileOf
<1>12. FileOf(docs, n + 1, "events", d)
  BY <1>8 DEF FileOf
<1>13. FilesShape' /\ FilesOf(docs)'
  <2>1. /\ FilesShape'
        /\ files'[t]["events"] = d
        /\ \A u \in Terminals : \A k \in FileKinds :
              u # t \/ k # "events" => files'[u][k] = files[u][k]
    BY <1>4, WriteFacts DEF CommandInv, FileKinds
  <2>2. ASSUME NEW u \in Terminals, NEW k \in FileKinds, files'[u][k] # NoFile
        PROVE  FileOf(docs, n + 1, k, files'[u][k])
    <3>1. CASE u = t /\ k = "events"
      BY <1>12, <2>1, <3>1
    <3>2. CASE u # t \/ k # "events"
      <4>1. files'[u][k] = files[u][k]
        BY <2>1, <3>2
      <4>2. FileOf(doc, n, k, files[u][k])
        BY <1>2, <1>7, <2>2, <4>1 DEF OfFetches, FilesOf
      <4>. QED  BY <1>11, <4>1, <4>2
    <3>. QED  BY <3>1, <3>2
  <2>. QED  BY <1>0, <1>7, <2>1, <2>2 DEF FilesOf
<1>14. BuildOf(docs)'
  <2>1. /\ build.witness # NoFile => \E s \in 1..n : InputOf(build.witness, doc[s])
        /\ build.proof # NoFile => \E s \in 1..n : ProofOf(build.proof, doc[s])
    BY <1>2, <1>7 DEF OfFetches, BuildOf
  <2>2. build.witness # NoFile => \E s \in 1..(n + 1) : InputOf(build.witness, docs[s])
    BY <1>8, <2>1
  <2>3. build.proof # NoFile => \E s \in 1..(n + 1) : ProofOf(build.proof, docs[s])
    BY <1>8, <2>1
  <2>. QED  BY <1>0, <1>7, <2>2, <2>3 DEF BuildOf
<1>15. OfFetches(docs)'
  BY <1>10, <1>13, <1>14 DEF OfFetches
<1>16. sittings' \in Nat
  BY <1>0, <1>5
<1>. QED  BY <1>0, <1>9, <1>13, <1>15, <1>16 DEF CommandInv, OnlyWholeBooksSettle

\* The contract takes the bundle of an auction that has not settled.
LEMMA SettleKeeps ==
    ASSUME CommandInv, NEW t \in Terminals, Settle(t)
    PROVE  CommandInv'
<1> DEFINE b == files[t]["bundle"]
<1>0. /\ b # NoFile /\ settledWith[b.auctionId] = NoFile /\ ContractAccepts(b)
      /\ settledWith' = [settledWith EXCEPT ![b.auctionId] =
                            [winnerIndex |-> b.winnerIndex, winningPrice |-> b.winningPrice]]
      /\ UNCHANGED <<books, sittings, files, step, build>>
  BY DEF Settle, Has
<1>1. PICK doc : OfFetches(doc)
  BY DEF CommandInv
<1>2. FileOf(doc, sittings, "bundle", b)
  BY <1>0, <1>1 DEF OfFetches, FilesOf, FileKinds
<1>3. PICK s \in 1..sittings, r \in 1..sittings : BundleOf(b, doc[s], doc[r])
  BY <1>2 DEF FileOf
<1>. HIDE DEF b
<1>4. PICK m \in MemberLists : b.proves = CircuitInput(doc[r], m).signals /\ HasOutcome(doc[r], m)
  BY <1>3 DEF BundleOf
<1>5. Fetched(doc[r], r) /\ BooksOK /\ b.auctionId \in Auctions
  BY <1>1, <1>3 DEF OfFetches, BundleOf, CommandInv
<1>6. Provable(b.proves)
  BY <1>4, <1>5, InputIsProvable DEF Provable
<1>7. LET price == PaddedPrices(books[b.auctionId])
      IN  /\ IsVickreyWinner(price, b.winnerIndex)
          /\ IsClearingPrice(price, b.winnerIndex, b.winningPrice)
  BY <1>0, <1>5, <1>6, AcceptedIsOutcome
<1>8. /\ DOMAIN settledWith' = Auctions
      /\ settledWith'[b.auctionId] = [winnerIndex |-> b.winnerIndex,
                                      winningPrice |-> b.winningPrice]
      /\ \A a \in Auctions \ {b.auctionId} : settledWith'[a] = settledWith[a]
  BY <1>0, <1>5 DEF CommandInv
<1>9. OnlyWholeBooksSettle'
  <2>. SUFFICES ASSUME NEW a \in Auctions, settledWith'[a] # NoFile
                PROVE  LET price == PaddedPrices(books[a]) IN
                       /\ IsVickreyWinner(price, settledWith'[a].winnerIndex)
                       /\ IsClearingPrice(price, settledWith'[a].winnerIndex,
                                          settledWith'[a].winningPrice)
    BY <1>0, <1>8 DEF OnlyWholeBooksSettle
  <2>1. CASE a = b.auctionId
    BY <1>7, <1>8, <2>1
  <2>2. CASE a # b.auctionId
    BY <1>8, <2>2 DEF CommandInv, OnlyWholeBooksSettle
  <2>. QED  BY <2>1, <2>2
<1>10. OfFetches(doc)'
  <2>1. \A x \in 1..sittings' : Fetched(doc[x], x)'
    BY <1>0, <1>1, FetchesStand
  <2>2. FilesOf(doc)' /\ BuildOf(doc)'
    BY <1>0, <1>1 DEF OfFetches, FilesOf, BuildOf
  <2>. QED  BY <2>1, <2>2 DEF OfFetches
<1>. QED  BY <1>0, <1>8, <1>9, <1>10 DEF CommandInv, BooksOK, FilesShape

-----------------------------------------------------------------------------
LEMMA CommandInvHolds == CommandSpec => []CommandInv
<1>1. CommandInv /\ [CommandNext]_commandVars => CommandInv'
  <2>. SUFFICES ASSUME CommandInv, [CommandNext]_commandVars
                PROVE  CommandInv'
    OBVIOUS
  <2>1. CASE UNCHANGED commandVars
    <3>0. UNCHANGED <<books, settledWith, sittings, files, step, build>>
      BY <2>1 DEF commandVars, contractVars
    <3>1. PICK doc : OfFetches(doc)
      BY DEF CommandInv
    <3>2. \A x \in 1..sittings' : Fetched(doc[x], x)'
      BY <3>0, <3>1, FetchesStand
    <3>3. FilesOf(doc)' /\ BuildOf(doc)'
      BY <3>0, <3>1 DEF OfFetches, FilesOf, BuildOf
    <3>4. OfFetches(doc)'
      BY <3>2, <3>3 DEF OfFetches
    <3>. QED  BY <3>0, <3>4 DEF CommandInv, BooksOK, FilesShape, OnlyWholeBooksSettle
  <2>. QED  BY <2>1, BidKeeps, WhitelistKeeps, DecryptKeeps, BuildInputKeeps, WitnessKeeps,
               ProveKeeps, FormatKeeps, SettleKeeps, FetchKeeps, BundleKeeps DEF CommandNext
<1>. QED  BY CommandInitial, <1>1, PTL DEF CommandSpec

\* When all of a bundle is of one fetch that had the whole book, and of the
\* auction's whitelist, its signals are those the contract rebuilds.
LEMMA UndisturbedSettles ==
    ASSUME BooksOK, NEW d, NEW s, Fetched(d, s), NEW b, BundleOf(b, d, d), b.sitting # 0,
           b.proves.whitelistRoot = roots[b.auctionId],
           \A i \in Slots : b.proves.commitments[i] # EmptyCommitment
                            <=> i \in DOMAIN books[b.auctionId]
    PROVE  ContractAccepts(b)
<1> DEFINE price == PaddedPrices(d.bids)
           w == WinnerIndex(price)
           p == ClearingPrice(price, w)
           a == b.auctionId
<1>1. a \in Auctions /\ d.auctionId = a
  BY DEF BundleOf
<1>2. b.winnerIndex = w /\ b.winningPrice = p /\ b.winnerAddress = d.bids[w].bidder
  BY DEF BundleOf, SettleMeta
<1>3. PICK m \in MemberLists : b.proves = CircuitInput(d, m).signals /\ HasOutcome(d, m)
  BY DEF BundleOf
<1>4. /\ b.proves.whitelistRoot = m
      /\ b.proves = [auctionId      |-> a,
                     commitments    |-> [i \in Slots |-> IF i \in DOMAIN d.bids
                                            THEN BidCommitment(a, i, d.bids[i])
                                            ELSE EmptyCommitment],
                     winnerIndex    |-> w,
                     winningPrice   |-> p,
                     whitelistRoot  |-> m,
                     winnerAddrHash |-> d.bids[w].bidder]
  BY <1>1, <1>3 DEF CircuitInput
<1>5. w \in DOMAIN d.bids
  BY <1>3, OutcomeOfFetch
<1>6. /\ DOMAIN d.bids \subseteq Slots /\ DOMAIN books[a] \subseteq Slots
      /\ \A i \in DOMAIN d.bids : /\ d.bids[i] = books[a][i]
                                  /\ d.bids[i].price \in 1..U64Max
  BY <1>1, FetchedFacts, BookFacts
<1>. HIDE DEF price, w, p, a
<1>7. DOMAIN d.bids = DOMAIN books[a]
  <2>1. \A i \in Slots : b.proves.commitments[i] # EmptyCommitment <=> i \in DOMAIN d.bids
    <3>. SUFFICES ASSUME NEW i \in Slots
                  PROVE  b.proves.commitments[i] # EmptyCommitment <=> i \in DOMAIN d.bids
      OBVIOUS
    <3>1. b.proves.commitments[i] = IF i \in DOMAIN d.bids THEN BidCommitment(a, i, d.bids[i])
                                    ELSE EmptyCommitment
      BY <1>4
    <3>2. i \in DOMAIN d.bids => BidCommitment(a, i, d.bids[i]) # EmptyCommitment
      BY <1>1, <1>6, SealedIsNotEmpty
    <3>. QED  BY <3>1, <3>2
  <2>2. \A i \in Slots : i \in DOMAIN d.bids <=> i \in DOMAIN books[a]
    BY <2>1 DEF a
  <2>. QED  BY <1>6, <2>2
<1>8. [i \in Slots |-> IF i \in DOMAIN d.bids THEN BidCommitment(a, i, d.bids[i])
                       ELSE EmptyCommitment]
      = [i \in Slots |-> IF i \in DOMAIN books[a] THEN BidCommitment(a, i, books[a][i])
                         ELSE EmptyCommitment]
  BY <1>6, <1>7
<1>9. b.winnerIndex \in DOMAIN books[a] /\ books[a][b.winnerIndex].bidder = b.winnerAddress
  BY <1>2, <1>5, <1>6, <1>7
<1>10. m = roots[a]
  BY <1>4 DEF a
<1>11. b.proves = [auctionId      |-> a,
                   commitments    |-> [i \in Slots |-> IF i \in DOMAIN books[a]
                                          THEN BidCommitment(a, i, books[a][i])
                                          ELSE EmptyCommitment],
                   winnerIndex    |-> b.winnerIndex,
                   winningPrice   |-> b.winningPrice,
                   whitelistRoot  |-> roots[a],
                   winnerAddrHash |-> b.winnerAddress]
  BY <1>2, <1>4, <1>8, <1>10
<1>. QED  BY <1>9, <1>11 DEF ContractAccepts, a

\* Type correctness of the command line: no file is of a fetch that was not made,
\* and prove.sh has a witness when it proves.
THEOREM CommandTypeCorrect == CommandSpec => []CommandTypeOK
<1>1. CommandInv => CommandTypeOK
  <2>. SUFFICES ASSUME CommandInv PROVE CommandTypeOK
    OBVIOUS
  <2>1. PICK doc : OfFetches(doc)
    BY DEF CommandInv
  <2>2. \A s \in 1..sittings : doc[s].sitting \in 0..sittings
    <3>1. \A s \in 1..sittings : doc[s].sitting = s
      BY <2>1, FetchedFacts DEF OfFetches, CommandInv
    <3>. QED  BY <3>1
  <2>3. ASSUME NEW t \in Terminals, NEW k \in FileKinds \ {"whitelist"}, Has(t, k)
        PROVE  files[t][k].sitting \in 0..sittings
    <3>1. FileOf(doc, sittings, k, files[t][k])
      BY <2>1, <2>3 DEF OfFetches, FilesOf, Has
    <3>2. CASE k \in {"events", "decrypted"}
      BY <2>2, <3>1, <3>2 DEF FileOf
    <3>3. CASE k = "input"
      <4>1. PICK s \in 1..sittings : InputOf(files[t][k], doc[s])
        BY <3>1, <3>3 DEF FileOf
      <4>2. PICK m : files[t][k] = CircuitInput(doc[s], m)
        BY <4>1 DEF InputOf
      <4>3. CircuitInput(doc[s], m).sitting = doc[s].sitting
        BY InputFacts
      <4>. QED  BY <2>2, <4>2, <4>3
    <3>4. CASE k = "meta"
      <4>1. PICK s \in 1..sittings : files[t][k] = SettleMeta(doc[s])
        BY <3>1, <3>4 DEF FileOf
      <4>. QED  BY <2>2, <4>1 DEF SettleMeta
    <3>5. CASE k = "args"
      BY <2>2, <3>1, <3>5 DEF FileOf, ProofOf
    <3>6. CASE k = "bundle"
      <4>1. PICK s \in 1..sittings, r \in 1..sittings : BundleOf(files[t][k], doc[s], doc[r])
        BY <3>1, <3>6 DEF FileOf
      <4>2. sittings \in Nat
        BY DEF CommandInv
      <4>. QED  BY <2>2, <4>1, <4>2 DEF BundleOf
    <3>. QED  BY <3>2, <3>3, <3>4, <3>5, <3>6 DEF FileKinds
  <2>4. ASSUME NEW t \in Terminals, Has(t, "bundle")
        PROVE  files[t].bundle.auctionId \in Auctions
    <3>1. FileOf(doc, sittings, "bundle", files[t]["bundle"])
      BY <2>1, <2>4 DEF OfFetches, FilesOf, Has, FileKinds
    <3>. QED  BY <3>1 DEF FileOf, BundleOf
  <2>. QED  BY <2>3, <2>4 DEF CommandInv, BooksOK, CommandTypeOK
<1>. QED  BY <1>1, CommandInvHolds, PTL

\* prover/build-input.js writes nothing the circuit has no witness for: whoever
\* gets past it is not stopped at the proof.
THEOREM WrittenInputsAreProvable == CommandSpec => []InputsAreProvable
<1>1. CommandInv => InputsAreProvable
  <2>. SUFFICES ASSUME CommandInv, NEW t \in DOMAIN files, Has(t, "input")
                PROVE  LET in == files[t]["input"]
                       IN  WinnerStatement(in.signals, in.prices, in.salts)
    BY DEF InputsAreProvable
  <2>1. PICK doc : OfFetches(doc)
    BY DEF CommandInv
  <2>2. FileOf(doc, sittings, "input", files[t]["input"])
    BY <2>1 DEF OfFetches, FilesOf, Has, FileKinds, CommandInv, FilesShape
  <2>3. PICK s \in 1..sittings : InputOf(files[t]["input"], doc[s])
    BY <2>2 DEF FileOf
  <2>4. Fetched(doc[s], s) /\ BooksOK
    BY <2>1 DEF OfFetches, CommandInv
  <2>. QED  BY <2>3, <2>4, InputIsProvable DEF InputOf
<1>. QED  BY <1>1, CommandInvHolds, PTL

\* However the files of several terminals and auctions get mixed on their way
\* through prover/*.js and prove.sh, what an undisturbed sitting over the whole
\* book produces is settled with, and nothing but the outcome of the whole book is.
THEOREM WholeBooksSettle == CommandSpec => []SittingsSettleTheWholeBook
<1>1. CommandInv => SittingsSettleTheWholeBook
  <2>. SUFFICES ASSUME CommandInv PROVE OneSittingSettles
    BY DEF CommandInv, SittingsSettleTheWholeBook
  <2>. SUFFICES ASSUME NEW t \in DOMAIN files, Has(t, "bundle"), NEW b, b = files[t]["bundle"],
                       b.sitting # 0, b.proves.whitelistRoot = roots[b.auctionId],
                       \A i \in Slots : b.proves.commitments[i] # EmptyCommitment
                                        <=> i \in DOMAIN books[b.auctionId]
                PROVE  ContractAccepts(b)
    BY DEF OneSittingSettles
  <2>1. PICK doc : OfFetches(doc)
    BY DEF CommandInv
  <2>2. FileOf(doc, sittings, "bundle", b)
    BY <2>1 DEF OfFetches, FilesOf, Has, FileKinds, CommandInv, FilesShape
  <2>3. PICK s \in 1..sittings, r \in 1..sittings : BundleOf(b, doc[s], doc[r])
    BY <2>2 DEF FileOf
  <2>4. BooksOK /\ Fetched(doc[s], s) /\ Fetched(doc[r], r)
    BY <2>1 DEF OfFetches, CommandInv
  <2>5. doc[s].sitting = s /\ doc[r].sitting = r
    BY <2>4, FetchedFacts
  <2>6. r = s
    BY <2>3, <2>5 DEF BundleOf
  <2>. QED  BY <2>3, <2>4, <2>6, UndisturbedSettles
<1>. QED  BY <1>1, CommandInvHolds, PTL

-----------------------------------------------------------------------------
(* THE WHITELIST TREE.                                                     *)

\* The powers of two, from the count of the subsets of a set.
LEMMA PowersOfTwo ==
    /\ \A n \in Nat : 2 ^ n \in Nat
    /\ 2 ^ 0 = 1
    /\ \A n \in Nat : 2 ^ (n + 1) = 2 * 2 ^ n
<1>1. ASSUME NEW n \in Nat
      PROVE  /\ IsFiniteSet(1..n) /\ Cardinality(1..n) = n
             /\ IsFiniteSet(SUBSET (1..n)) /\ Cardinality(SUBSET (1..n)) = 2 ^ n
             /\ 2 ^ n \in Nat
  <2>1. IsFiniteSet(1..n) /\ Cardinality(1..n) = n
    BY FS_Interval
  <2>2. IsFiniteSet(SUBSET (1..n)) /\ Cardinality(SUBSET (1..n)) = 2 ^ Cardinality(1..n)
    BY <2>1, FS_SUBSET
  <2>3. Cardinality(SUBSET (1..n)) \in Nat
    BY <2>2, FS_CardinalityType
  <2>. QED  BY <2>1, <2>2, <2>3
<1>2. 2 ^ 0 = 1
  <2>1. SUBSET (1..0) = {{}}
    OBVIOUS
  <2>2. Cardinality({{}}) = 1
    BY FS_Singleton
  <2>. QED  BY <1>1, <2>1, <2>2
<1>3. ASSUME NEW n \in Nat PROVE 2 ^ (n + 1) = 2 * 2 ^ n
  <2> DEFINE Without == SUBSET (1..n)
             With == {A \cup {n + 1} : A \in SUBSET (1..n)}
             f == [A \in Without |-> A \cup {n + 1}]
  <2>1. SUBSET (1..(n + 1)) = Without \cup With
    <3>1. 1..(n + 1) = (1..n) \cup {n + 1}
      OBVIOUS
    <3>2. ASSUME NEW B \in SUBSET (1..(n + 1)) PROVE B \in Without \cup With
      <4>1. CASE n + 1 \in B
        <5>1. B \ {n + 1} \in SUBSET (1..n) /\ B = (B \ {n + 1}) \cup {n + 1}
          BY <3>1, <4>1
        <5>. QED  BY <5>1
      <4>2. CASE n + 1 \notin B
        BY <3>1, <4>2
      <4>. QED  BY <4>1, <4>2
    <3>3. ASSUME NEW B \in Without \cup With PROVE B \in SUBSET (1..(n + 1))
      BY <3>1
    <3>. QED  BY <3>2, <3>3
  <2>2. n + 1 \notin 1..n
    OBVIOUS
  <2>3. Without \cap With = {}
    BY <2>2
  <2>4. f \in Bijection(Without, With)
    <3>1. f \in [Without -> With]
      OBVIOUS
    <3>2. ASSUME NEW A \in Without, NEW B \in Without, f[A] = f[B] PROVE A = B
      <4>1. A \cup {n + 1} = B \cup {n + 1} /\ n + 1 \notin A /\ n + 1 \notin B
        BY <2>2, <3>2
      <4>. QED  BY <4>1
    <3>3. \A B \in With : \E A \in Without : f[A] = B
      OBVIOUS
    <3>. HIDE DEF f, Without, With
    <3>. QED  BY <3>1, <3>2, <3>3 DEF Bijection, Injection, Surjection, IsInjective
  <2>. HIDE DEF f
  <2>5. IsFiniteSet(With) /\ Cardinality(With) = Cardinality(Without)
    <3>1. ExistsBijection(Without, With)
      BY <2>4 DEF ExistsBijection
    <3>. HIDE DEF With, Without
    <3>2. IsFiniteSet(Without)
      BY <1>1 DEF Without
    <3>. QED  BY <3>1, <3>2, FS_Bijection
  <2>6. IsFiniteSet(Without) /\ Cardinality(Without) = 2 ^ n /\ 2 ^ n \in Nat
    BY <1>1
  <2>7. Cardinality(SUBSET (1..(n + 1))) = 2 ^ (n + 1)
    BY <1>1
  <2>. HIDE DEF With, Without
  <2>8. Cardinality(Without \cup With)
          = Cardinality(Without) + Cardinality(With) - Cardinality(Without \cap With)
    BY <2>5, <2>6, FS_Union
  <2>9. Cardinality(Without \cap With) = 0
    BY <2>3, FS_EmptySet
  <2>10. PICK p \in Nat : p = 2 ^ n
    BY <2>6
  <2>11. Cardinality(Without) = p /\ Cardinality(With) = p
    BY <2>5, <2>6, <2>10
  <2>12. Cardinality(Without \cup With) = 2 * p
    BY <2>8, <2>9, <2>11
  <2>. QED  BY <2>1, <2>7, <2>10, <2>12
<1>. QED  BY <1>1, <1>2, <1>3

\* Halving first and then dividing by p is dividing by 2 * p.
LEMMA HalvesDivide ==
    ASSUME NEW a \in Nat, NEW p \in Nat \ {0}
    PROVE  (a \div 2) \div p = a \div (2 * p)
<1>1. PICK h \in Nat : h = a \div 2 /\ 2 * h <= a /\ a <= 2 * h + 1
  OBVIOUS
<1>2. PICK q \in Nat : q = h \div p /\ p * q <= h /\ h < p * q + p
  OBVIOUS
<1>3. PICK r \in Nat : r = p * q
  OBVIOUS
<1>4. (2 * p) * q = 2 * r /\ (2 * p) * q <= a /\ a < (2 * p) * q + 2 * p
  BY <1>1, <1>2, <1>3
<1>5. a \div (2 * p) = q
  BY <1>4
<1>. QED  BY <1>1, <1>2, <1>5

\* A set of naturals that is not empty has a least member.
LEMMA LeastMember ==
    ASSUME NEW S \in SUBSET Nat, S # {}
    PROVE  \E n \in S : \A m \in Nat : m < n => m \notin S
<1> DEFINE T == {n \in Nat : \A m \in 0..n : m \notin S}
<1>1. SUFFICES ASSUME \A n \in S : \E m \in Nat : m < n /\ m \in S PROVE FALSE
  OBVIOUS
<1>2. 0 \in T
  BY <1>1
<1>3. ASSUME NEW n \in Nat, n \in T PROVE n + 1 \in T
  <2>1. ASSUME NEW m \in 0..(n + 1), m \in S PROVE FALSE
    <3>1. PICK l \in Nat : l < m /\ l \in S
      BY <1>1, <2>1
    <3>2. l \in 0..n
      BY <3>1
    <3>. QED  BY <1>3, <3>1, <3>2
  <2>. QED  BY <2>1
<1>4. Nat \subseteq T
  <2>. HIDE DEF T
  <2>. QED  BY <1>2, <1>3, SetInduction
<1>5. \A n \in Nat : n \notin S
  BY <1>4
<1>. QED  BY <1>5

-----------------------------------------------------------------------------
(* The inductive invariant: every level holds the hashes of the pairs of   *)
(* the level below, the path holds the siblings on the way from a place of *)
(* the claimed member, and the circuit's node is the tree's on that way.   *)

Width(k) == 2 ^ (MERKLE_DEPTH + 1 - k)

ListInv ==
    /\ list \in Seq(Addresses \cup Invalid)
    /\ treePhase \notin {"given", "refused"} => Len(list) \in 1..Capacity

LevelsInv ==
    /\ \E S : levels \in Seq(S)
    /\ Len(levels) \in 0..(MERKLE_DEPTH + 1)
    /\ \A k \in 1..Len(levels) : DOMAIN levels[k] = 1..Width(k) /\ Len(levels[k]) = Width(k)
    /\ Len(levels) > 0 => levels[1] = Padded
    /\ \A k \in 1..MERKLE_DEPTH :
          k + 1 <= Len(levels) =>
              \A i \in 1..Width(k + 1) :
                  levels[k + 1][i] = Poseidon2(levels[k][2 * i - 1], levels[k][2 * i])

\* pos is the way up from a place of the claimed member, of which path has n levels.
Way(pos, n) ==
    /\ pos \in [Nat -> Nat]
    /\ pos[0] + 1 \in DOMAIN list /\ list[pos[0] + 1] = claimed
    /\ \A k \in 0..n : pos[k] < Width(k + 1)
    /\ \A k \in 1..n : /\ pos[k] = pos[k - 1] \div 2
                       /\ path[k].element = levels[k][1 + Sibling(pos[k - 1])]
                       /\ path[k].bit = pos[k - 1] % 2

PathInv ==
    /\ \E S : path \in Seq(S)
    /\ Len(path) \in 0..MERKLE_DEPTH
    /\ \A k \in 1..Len(path) : path[k].bit \in {0, 1}

Below == {"given", "refused"}
Climbing == {"path", "checking", "member"}
Checked == {"checking", "member"}

PhaseInv ==
    /\ treePhase \in Below \cup {"levels"} \cup Climbing
    /\ treePhase \in Below => levels = <<>>
    /\ treePhase \in Below \cup {"levels"} => path = <<>> /\ runningIndex = 0
    /\ treePhase = "levels" => Len(levels) > 0
    /\ treePhase \in Climbing => Len(levels) = MERKLE_DEPTH + 1
    /\ treePhase = "path" => \E pos : Way(pos, Len(path)) /\ runningIndex = pos[Len(path)]
    /\ treePhase \in Checked =>
          /\ Len(path) = MERKLE_DEPTH /\ runningIndex \in 0..MERKLE_DEPTH
          /\ \E pos : /\ Way(pos, MERKLE_DEPTH)
                      /\ node = levels[runningIndex + 1][pos[runningIndex] + 1]

TreeInv == ListInv /\ LevelsInv /\ PathInv /\ PhaseInv

\* Every level is half as wide as the one below it, the root is alone on its own.
LEMMA WidthFacts ==
    /\ \A k \in 1..(MERKLE_DEPTH + 1) : Width(k) \in Nat \ {0}
    /\ Width(1) = Capacity /\ Width(MERKLE_DEPTH + 1) = 1
    /\ \A k \in 1..MERKLE_DEPTH : Width(k) = 2 * Width(k + 1)
<1>0. MERKLE_DEPTH \in Nat \ {0}
  BY TreeAssumption
<1>1. \A n \in Nat : 2 ^ n \in Nat \ {0}
  <2> DEFINE T == {n \in Nat : 2 ^ n \in Nat \ {0}}
  <2>1. 0 \in T
    BY PowersOfTwo
  <2>2. ASSUME NEW n \in Nat, n \in T PROVE n + 1 \in T
    <3>1. PICK q \in Nat \ {0} : q = 2 ^ n
      BY <2>2
    <3>2. 2 ^ (n + 1) = 2 * q
      BY <3>1, PowersOfTwo
    <3>. QED  BY <3>2
  <2>3. Nat \subseteq T
    <3>. HIDE DEF T
    <3>. QED  BY <2>1, <2>2, SetInduction
  <2>. QED  BY <2>3
<1>2. ASSUME NEW k \in 1..(MERKLE_DEPTH + 1) PROVE Width(k) \in Nat \ {0}
  <2>1. MERKLE_DEPTH + 1 - k \in Nat
    BY <1>0
  <2>. QED  BY <1>1, <2>1 DEF Width
<1>3. Width(1) = Capacity
  <2>1. MERKLE_DEPTH + 1 - 1 = MERKLE_DEPTH
    BY <1>0
  <2>. QED  BY <2>1 DEF Width, Capacity
<1>4. Width(MERKLE_DEPTH + 1) = 1
  <2>1. MERKLE_DEPTH + 1 - (MERKLE_DEPTH + 1) = 0
    BY <1>0
  <2>. QED  BY <2>1, PowersOfTwo DEF Width
<1>5. ASSUME NEW k \in 1..MERKLE_DEPTH PROVE Width(k) = 2 * Width(k + 1)
  <2>1. PICK n \in Nat : n = MERKLE_DEPTH + 1 - (k + 1) /\ n + 1 = MERKLE_DEPTH + 1 - k
    BY <1>0
  <2>2. 2 ^ (n + 1) = 2 * 2 ^ n
    BY PowersOfTwo
  <2>3. Width(k) = 2 ^ (n + 1) /\ Width(k + 1) = 2 ^ n
    BY <2>1 DEF Width
  <2>. QED  BY <2>2, <2>3
<1>. QED  BY <1>2, <1>3, <1>4, <1>5

LEMMA DepthBelowCapacity == MERKLE_DEPTH <= Capacity
<1> DEFINE T == {n \in Nat : 2 ^ n \in Nat /\ n + 1 <= 2 ^ n}
<1>1. 0 \in T
  BY PowersOfTwo
<1>2. ASSUME NEW n \in Nat, n \in T PROVE n + 1 \in T
  <2>1. PICK q \in Nat : q = 2 ^ n /\ n + 1 <= q
    BY <1>2
  <2>2. 2 ^ (n + 1) = 2 * q
    BY <2>1, PowersOfTwo
  <2>3. n + 1 + 1 <= 2 * q /\ 2 * q \in Nat
    BY <2>1
  <2>. QED  BY <2>2, <2>3
<1>3. Nat \subseteq T
  <2>. HIDE DEF T
  <2>. QED  BY <1>1, <1>2, SetInduction
<1>4. 2 ^ MERKLE_DEPTH \in Nat /\ MERKLE_DEPTH + 1 <= 2 ^ MERKLE_DEPTH
  BY <1>3, TreeAssumption
<1>. QED
  <2>1. PICK q \in Nat : q = 2 ^ MERKLE_DEPTH /\ MERKLE_DEPTH + 1 <= q
    BY <1>4
  <2>. QED  BY <2>1, TreeAssumption DEF Capacity

\* One level of the circuit takes the node of a place to the node of the place above.
LEMMA LevelNodeClimbs ==
    ASSUME LevelsInv, Len(levels) = MERKLE_DEPTH + 1,
           NEW k \in 1..MERKLE_DEPTH, NEW p \in Nat, p < Width(k), NEW edge,
           edge.element = levels[k][1 + Sibling(p)], edge.bit = p % 2
    PROVE  /\ p \div 2 < Width(k + 1)
           /\ LevelNode(levels[k][p + 1], edge) = levels[k + 1][(p \div 2) + 1]
<1>1. PICK w \in Nat \ {0} : w = Width(k + 1) /\ Width(k) = 2 * w
  <2>1. k + 1 \in 1..(MERKLE_DEPTH + 1)
    BY TreeAssumption
  <2>. QED  BY <2>1, WidthFacts
<1>2. PICK h \in Nat : h = p \div 2 /\ (p = 2 * h \/ p = 2 * h + 1)
  OBVIOUS
<1>3. h < w /\ h + 1 \in 1..w
  BY <1>1, <1>2
<1>4. levels[k + 1][h + 1] = Poseidon2(levels[k][2 * (h + 1) - 1], levels[k][2 * (h + 1)])
  <2>1. k + 1 <= Len(levels)
    BY TreeAssumption
  <2>. QED  BY <1>1, <1>3, <2>1 DEF LevelsInv
<1>5. CASE p = 2 * h
  <2>1. p % 2 = 0 /\ 1 + Sibling(p) = 2 * (h + 1) /\ p + 1 = 2 * (h + 1) - 1
    BY <1>5 DEF Sibling
  <2>. QED  BY <1>1, <1>2, <1>3, <1>4, <2>1 DEF LevelNode
<1>6. CASE p = 2 * h + 1
  <2>1. p % 2 = 1 /\ 1 + Sibling(p) = 2 * (h + 1) - 1 /\ p + 1 = 2 * (h + 1)
    BY <1>6 DEF Sibling
  <2>. QED  BY <1>1, <1>2, <1>3, <1>4, <2>1 DEF LevelNode
<1>. QED  BY <1>2, <1>5, <1>6

-----------------------------------------------------------------------------
(* Every step keeps it.                                                    *)

LEMMA TreeInitial == TreeInit => TreeInv
<1>. SUFFICES ASSUME TreeInit PROVE TreeInv
  OBVIOUS
<1>0. MERKLE_DEPTH \in Nat \ {0}
  BY TreeAssumption
<1>1. ListInv
  <2>1. PICK n \in 0..Capacity + 1 : list \in [1..n -> Addresses \cup Invalid]
    BY DEF TreeInit
  <2>2. list \in Seq(Addresses \cup Invalid)
    BY <2>1
  <2>. QED  BY <2>2 DEF TreeInit, ListInv
<1>2. LevelsInv
  <2>1. levels = <<>>
    BY DEF TreeInit
  <2>2. levels \in Seq({}) /\ Len(levels) = 0
    BY <2>1
  <2>. QED  BY <1>0, <2>2 DEF LevelsInv
<1>3. PathInv
  <2>1. path = <<>>
    BY DEF TreeInit
  <2>2. path \in Seq({}) /\ Len(path) = 0
    BY <2>1
  <2>. QED  BY <1>0, <2>2 DEF PathInv
<1>4. PhaseInv
  BY DEF TreeInit, PhaseInv, Below, Climbing, Checked
<1>. QED  BY <1>1, <1>2, <1>3, <1>4 DEF TreeInv

\* The tree stays as it is when neither the list nor the levels change.
LEMMA TreeStands ==
    ASSUME TreeInv, UNCHANGED <<list, levels>>,
           treePhase \in Below => treePhase' \in Below
    PROVE  ListInv' /\ LevelsInv'
<1>1. ListInv'
  BY DEF TreeInv, ListInv, Below
<1>2. LevelsInv'
  BY DEF TreeInv, LevelsInv, Padded
<1>. QED  BY <1>1, <1>2

\* The way stands when neither it nor the tree changes.
LEMMA WayStands ==
    ASSUME UNCHANGED <<list, levels, claimed, path>>, NEW pos, NEW n, Way(pos, n)
    PROVE  Way(pos, n)'
BY DEF Way

LEMMA RefuseKeeps == TreeInv /\ Refuse => TreeInv'
<1>. SUFFICES ASSUME TreeInv, Refuse PROVE TreeInv'
  OBVIOUS
<1>1. /\ treePhase = "given" /\ treePhase' = "refused"
      /\ UNCHANGED <<list, levels, claimed, runningIndex, path, node>>
  BY DEF Refuse
<1>2. ListInv' /\ LevelsInv'
  BY <1>1, TreeStands DEF Below
<1>3. PathInv'
  BY <1>1 DEF TreeInv, PathInv
<1>4. PhaseInv'
  BY <1>1 DEF TreeInv, PhaseInv, Below, Climbing, Checked
<1>. QED  BY <1>2, <1>3, <1>4 DEF TreeInv

LEMMA StartKeeps == TreeInv /\ StartTree => TreeInv'
<1>. SUFFICES ASSUME TreeInv, StartTree PROVE TreeInv'
  OBVIOUS
<1>0. MERKLE_DEPTH \in Nat \ {0}
  BY TreeAssumption
<1>1. /\ treePhase = "given" /\ treePhase' = "levels" /\ levels' = <<Padded>> /\ ~Refuses
      /\ UNCHANGED <<list, claimed, runningIndex, path, node>>
  BY DEF StartTree
<1>2. ListInv'
  <2>1. list \in Seq(Addresses \cup Invalid)
    BY DEF TreeInv, ListInv
  <2>2. Len(list) \in Nat /\ Capacity \in Nat
    BY <1>0, <2>1, WidthFacts
  <2>3. Len(list) \in 1..Capacity
    BY <1>1, <2>2 DEF Refuses
  <2>. QED  BY <1>1, <2>1, <2>3 DEF ListInv
<1>3. LevelsInv'
  <2>1. levels' \in Seq({Padded}) /\ Len(levels') = 1 /\ levels'[1] = Padded
    BY <1>1
  <2>2. PICK c \in Nat \ {0} : c = Capacity /\ Width(1) = c
    BY <1>0, WidthFacts
  <2>3. DOMAIN Padded = 1..c /\ Len(Padded) = c
    BY <2>2 DEF Padded
  <2>4. Padded' = Padded
    BY <1>1 DEF Padded
  <2>. QED  BY <1>0, <2>1, <2>2, <2>3, <2>4 DEF LevelsInv
<1>4. PathInv'
  BY <1>1 DEF TreeInv, PathInv
<1>5. PhaseInv'
  <2>1. Len(levels') = 1
    BY <1>1
  <2>. QED  BY <1>1, <2>1 DEF TreeInv, PhaseInv, Below, Climbing, Checked
<1>. QED  BY <1>2, <1>3, <1>4, <1>5 DEF TreeInv

LEMMA BuildKeeps == TreeInv /\ BuildLevel => TreeInv'
<1>. SUFFICES ASSUME TreeInv, BuildLevel PROVE TreeInv'
  OBVIOUS
<1>0. MERKLE_DEPTH \in Nat \ {0}
  BY TreeAssumption
<1>1. /\ treePhase = "levels" /\ UNCHANGED <<list, treePhase, claimed, runningIndex, path, node>>
      /\ Len(levels) <= MERKLE_DEPTH
      /\ levels' = Append(levels, NextLevel(levels[Len(levels)]))
  BY DEF BuildLevel
<1>2. PICK S : levels \in Seq(S)
  BY DEF TreeInv, LevelsInv
<1>3. PICK n \in 1..MERKLE_DEPTH : n = Len(levels)
  BY <1>0, <1>1, <1>2 DEF TreeInv, PhaseInv
<1> DEFINE new == NextLevel(levels[n])
<1>4. /\ levels' \in Seq(S \cup {new}) /\ Len(levels') = n + 1 /\ levels'[n + 1] = new
      /\ \A k \in 1..n : levels'[k] = levels[k]
  <2>1. levels \in Seq(S \cup {new}) /\ new \in S \cup {new} /\ levels' = Append(levels, new)
    BY <1>1, <1>2, <1>3
  <2>. HIDE DEF new
  <2>. QED  BY <1>3, <2>1
<1>5. PICK w \in Nat \ {0} : w = Width(n + 1) /\ Width(n) = 2 * w
  <2>1. n + 1 \in 1..(MERKLE_DEPTH + 1)
    BY <1>0
  <2>. QED  BY <2>1, WidthFacts
<1>6. Len(levels[n]) \div 2 = w
  <2>1. Len(levels[n]) = 2 * w
    BY <1>3, <1>5 DEF TreeInv, LevelsInv
  <2>. QED  BY <1>5, <2>1
<1>7. new = [i \in 1..w |-> Poseidon2(levels[n][2 * i - 1], levels[n][2 * i])]
  BY <1>6 DEF NextLevel
<1>8. DOMAIN new = 1..w /\ Len(new) = w
  BY <1>5, <1>7
<1>. HIDE DEF new
<1>9. LevelsInv'
  <2>1. ASSUME NEW k \in 1..(n + 1)
        PROVE  DOMAIN levels'[k] = 1..Width(k) /\ Len(levels'[k]) = Width(k)
    <3>1. CASE k = n + 1
      BY <1>4, <1>5, <1>8, <3>1
    <3>2. CASE k \in 1..n
      <4>1. DOMAIN levels[k] = 1..Width(k) /\ Len(levels[k]) = Width(k)
        BY <1>3, <3>2 DEF TreeInv, LevelsInv
      <4>. QED  BY <1>4, <3>2, <4>1
    <3>. QED  BY <1>3, <3>1, <3>2
  <2>2. ASSUME NEW k \in 1..MERKLE_DEPTH, k + 1 <= n + 1, NEW i \in 1..Width(k + 1)
        PROVE  levels'[k + 1][i] = Poseidon2(levels'[k][2 * i - 1], levels'[k][2 * i])
    <3>1. CASE k = n
      BY <1>4, <1>5, <1>7, <3>1
    <3>2. CASE k # n
      <4>1. k \in 1..n /\ k + 1 \in 1..n
        BY <1>0, <1>3, <2>2, <3>2
      <4>2. levels[k + 1][i] = Poseidon2(levels[k][2 * i - 1], levels[k][2 * i])
        BY <1>3, <4>1 DEF TreeInv, LevelsInv
      <4>3. levels'[k] = levels[k] /\ levels'[k + 1] = levels[k + 1]
        BY <1>4, <4>1
      <4>. QED  BY <4>2, <4>3
    <3>. QED  BY <3>1, <3>2
  <2>3. levels'[1] = Padded' /\ n + 1 \in 0..(MERKLE_DEPTH + 1)
    <3>1. levels[1] = Padded /\ Padded' = Padded
      BY <1>1, <1>3 DEF TreeInv, LevelsInv, Padded
    <3>. QED  BY <1>0, <1>3, <1>4, <3>1
  <2>. QED  BY <1>4, <2>1, <2>2, <2>3 DEF LevelsInv
<1>10. ListInv'
  BY <1>1 DEF TreeInv, ListInv
<1>11. PathInv'
  BY <1>1 DEF TreeInv, PathInv
<1>12. PhaseInv'
  BY <1>1, <1>3, <1>4 DEF TreeInv, PhaseInv, Below, Climbing, Checked
<1>. QED  BY <1>9, <1>10, <1>11, <1>12 DEF TreeInv

\* Whichever of the two places is taken, the member stands there.
LEMMA PlacesOf ==
    ASSUME ListInv, NEW x \in {list[i] : i \in DOMAIN list}
    PROVE  /\ IndexOf(x) \in DOMAIN list /\ list[IndexOf(x)] = x
           /\ LastIndexOf(x) \in DOMAIN list /\ list[LastIndexOf(x)] = x
<1>0. Len(list) \in Nat /\ DOMAIN list = 1..Len(list)
  BY DEF ListInv
<1>1. \E i \in DOMAIN list : list[i] = x /\ \A j \in 1..(i - 1) : list[j] # x
  <2> DEFINE S == {i \in DOMAIN list : list[i] = x}
  <2>1. S \in SUBSET Nat /\ S # {}
    BY <1>0
  <2>2. PICK n \in S : \A m \in Nat : m < n => m \notin S
    <3>. HIDE DEF S
    <3>. QED  BY <2>1, LeastMember
  <2>3. \A j \in 1..(n - 1) : j \in DOMAIN list /\ j \in Nat /\ j < n
    BY <1>0
  <2>. QED  BY <2>2, <2>3
<1>2. \E i \in DOMAIN list : list[i] = x /\ \A j \in DOMAIN list : j > i => list[j] # x
  <2> DEFINE S == {d \in 0..Len(list) : Len(list) - d \in DOMAIN list /\ list[Len(list) - d] = x}
  <2>1. S \in SUBSET Nat
    BY <1>0
  <2>2. S # {}
    <3>1. PICK i \in DOMAIN list : list[i] = x
      OBVIOUS
    <3>2. Len(list) - i \in 0..Len(list) /\ Len(list) - (Len(list) - i) = i
      BY <1>0
    <3>. QED  BY <3>1, <3>2
  <2>3. PICK n \in S : \A m \in Nat : m < n => m \notin S
    <3>. HIDE DEF S
    <3>. QED  BY <2>1, <2>2, LeastMember
  <2>4. ASSUME NEW j \in DOMAIN list, j > Len(list) - n PROVE list[j] # x
    <3>1. /\ Len(list) - j \in Nat /\ Len(list) - j < n /\ Len(list) - j \in 0..Len(list)
          /\ Len(list) - (Len(list) - j) = j
      BY <1>0, <2>4
    <3>. QED  BY <2>3, <3>1
  <2>. QED  BY <2>3, <2>4
<1>3. IndexOf(x) \in DOMAIN list /\ list[IndexOf(x)] = x
  BY <1>1 DEF IndexOf
<1>4. LastIndexOf(x) \in DOMAIN list /\ list[LastIndexOf(x)] = x
  BY <1>2 DEF LastIndexOf
<1>. QED  BY <1>3, <1>4

LEMMA ClaimKeeps == TreeInv /\ ClaimMembership => TreeInv'
<1>. SUFFICES ASSUME TreeInv, ClaimMembership PROVE TreeInv'
  OBVIOUS
<1>0. MERKLE_DEPTH \in Nat \ {0}
  BY TreeAssumption
<1>1. /\ treePhase = "levels" /\ treePhase' = "path" /\ Len(levels) = MERKLE_DEPTH + 1
      /\ UNCHANGED <<list, levels, path, node>>
  BY DEF ClaimMembership
<1>2. ListInv' /\ LevelsInv'
  <2>1. ListInv'
    BY <1>1 DEF TreeInv, ListInv
  <2>2. LevelsInv'
    BY <1>1 DEF TreeInv, LevelsInv, Padded
  <2>. QED  BY <2>1, <2>2
<1>3. PathInv'
  BY <1>1 DEF TreeInv, PathInv
<1>4. path' = <<>> /\ Len(path') = 0
  BY <1>1 DEF TreeInv, PhaseInv
<1>5. PICK i \in DOMAIN list : list[i] = claimed' /\ runningIndex' = i - 1
  <2>1. PICK x \in {list[i] : i \in DOMAIN list} :
          claimed' = x /\ runningIndex' \in {IndexOf(x) - 1, LastIndexOf(x) - 1}
    BY DEF ClaimMembership
  <2>2. /\ IndexOf(x) \in DOMAIN list /\ list[IndexOf(x)] = x
        /\ LastIndexOf(x) \in DOMAIN list /\ list[LastIndexOf(x)] = x
    BY <2>1, PlacesOf DEF TreeInv
  <2>. QED  BY <2>1, <2>2
<1>6. i \in Nat /\ i - 1 \in Nat /\ i - 1 < Width(1)
  <2>1. DOMAIN list = 1..Len(list) /\ Len(list) \in 1..Capacity
    BY <1>1 DEF TreeInv, ListInv
  <2>2. PICK c \in Nat : c = Capacity /\ Width(1) = c
    BY <1>0, WidthFacts
  <2>. QED  BY <2>1, <2>2
<1> DEFINE pos == [k \in Nat |-> i - 1]
<1>7. Way(pos, 0)'
  <2>1. pos \in [Nat -> Nat] /\ pos[0] = i - 1 /\ pos[0] + 1 = i
    BY <1>6
  <2>. HIDE DEF pos
  <2>2. \A k \in 0..0 : pos[k] < Width(k + 1)
    BY <1>6, <2>1
  <2>. QED  BY <1>1, <1>5, <2>1, <2>2 DEF Way
<1>8. pos[0] = runningIndex'
  BY <1>5, <1>6
<1>. HIDE DEF pos
<1>9. PhaseInv'
  BY <1>1, <1>4, <1>7, <1>8 DEF PhaseInv, Below, Climbing, Checked
<1>. QED  BY <1>2, <1>3, <1>9 DEF TreeInv

LEMMA PathKeeps == TreeInv /\ PathLevel => TreeInv'
<1>. SUFFICES ASSUME TreeInv, PathLevel PROVE TreeInv'
  OBVIOUS
<1>0. MERKLE_DEPTH \in Nat \ {0}
  BY TreeAssumption
<1> DEFINE new == [element |-> levels[Len(path) + 1][1 + Sibling(runningIndex)],
                   bit     |-> runningIndex % 2]
<1>1. /\ treePhase = "path" /\ Len(path) < MERKLE_DEPTH
      /\ path' = Append(path, new) /\ runningIndex' = runningIndex \div 2
      /\ UNCHANGED <<list, treePhase, levels, claimed, node>>
  BY DEF PathLevel
<1>2. ListInv' /\ LevelsInv'
  BY <1>1, TreeStands
<1>3. PICK S : path \in Seq(S)
  BY DEF TreeInv, PathInv
<1>4. PICK n \in 0..(MERKLE_DEPTH - 1) : n = Len(path)
  BY <1>0, <1>1, <1>3
<1>5. PICK pos : Way(pos, n) /\ runningIndex = pos[n]
  BY <1>1, <1>4 DEF TreeInv, PhaseInv
<1>6. PICK r \in Nat : r = runningIndex /\ r = pos[n]
  BY <1>4, <1>5 DEF Way
<1>7. /\ new.element = levels[n + 1][1 + Sibling(runningIndex)]
      /\ new.bit = runningIndex % 2 /\ new.bit \in {0, 1}
  BY <1>4, <1>6
<1>. HIDE DEF new
<1>8. /\ path' \in Seq(S \cup {new}) /\ Len(path') = n + 1 /\ path'[n + 1] = new
      /\ \A k \in 1..n : path'[k] = path[k]
  <2>1. path \in Seq(S \cup {new}) /\ new \in S \cup {new}
    BY <1>3
  <2>. QED  BY <1>1, <1>4, <2>1
<1>9. PathInv'
  <2>1. \A k \in 1..(n + 1) : path'[k].bit \in {0, 1}
    <3>1. \A k \in 1..n : path[k].bit \in {0, 1}
      BY <1>4 DEF TreeInv, PathInv
    <3>2. \A k \in 1..(n + 1) : k \in 1..n \/ k = n + 1
      BY <1>4
    <3>. QED  BY <1>7, <1>8, <3>1, <3>2
  <2>. QED  BY <1>0, <1>4, <1>8, <2>1 DEF PathInv
<1> DEFINE next == [pos EXCEPT ![n + 1] = r \div 2]
<1>10. /\ next \in [Nat -> Nat] /\ next[n + 1] = r \div 2
       /\ \A k \in 0..n : next[k] = pos[k]
  <2>1. pos \in [Nat -> Nat] /\ n + 1 \in Nat /\ r \div 2 \in Nat
    <3>1. pos \in [Nat -> Nat]
      BY <1>5 DEF Way
    <3>2. n + 1 \in Nat /\ r \div 2 \in Nat
      BY <1>4, <1>6
    <3>. QED  BY <3>1, <3>2
  <2>2. \A k \in 0..n : k \in Nat /\ k # n + 1
    BY <1>4
  <2>. QED  BY <2>1, <2>2
<1>. HIDE DEF next
<1>11. r \div 2 < Width(n + 2)
  <2>1. r < Width(n + 1)
    BY <1>4, <1>5, <1>6 DEF Way
  <2>2. PICK w \in Nat : w = Width(n + 2) /\ Width(n + 1) = 2 * w
    <3>1. n + 1 \in 1..MERKLE_DEPTH /\ n + 2 \in 1..(MERKLE_DEPTH + 1) /\ (n + 1) + 1 = n + 2
      BY <1>0, <1>4
    <3>2. Width(n + 1) = 2 * Width((n + 1) + 1)
      BY <3>1, WidthFacts
    <3>. QED  BY <3>1, <3>2, WidthFacts
  <2>. QED  BY <1>6, <2>1, <2>2
<1>12. Way(next, n + 1)'
  <2>1. next[0] + 1 \in DOMAIN list /\ list[next[0] + 1] = claimed
    <3>1. next[0] = pos[0]
      BY <1>4, <1>10
    <3>. QED  BY <1>5, <3>1 DEF Way
  <2>2. ASSUME NEW k \in 0..(n + 1) PROVE next[k] < Width(k + 1)
    <3>1. CASE k = n + 1
      <4>1. k + 1 = n + 2
        BY <1>4, <3>1
      <4>. QED  BY <1>10, <1>11, <3>1, <4>1
    <3>2. CASE k \in 0..n
      BY <1>5, <1>10, <3>2 DEF Way
    <3>. QED  BY <1>4, <3>1, <3>2
  <2>3. ASSUME NEW k \in 1..(n + 1)
        PROVE  /\ next[k] = next[k - 1] \div 2
               /\ path'[k].element = levels[k][1 + Sibling(next[k - 1])]
               /\ path'[k].bit = next[k - 1] % 2
    <3>1. CASE k = n + 1
      <4>1. next[k - 1] = r
        BY <1>4, <1>6, <1>10, <3>1
      <4>. QED  BY <1>6, <1>7, <1>8, <1>10, <3>1, <4>1
    <3>2. CASE k \in 1..n
      <4>1. k \in 0..n /\ k - 1 \in 0..n
        BY <1>4, <3>2
      <4>2. next[k] = pos[k] /\ next[k - 1] = pos[k - 1] /\ path'[k] = path[k]
        BY <1>8, <1>10, <3>2, <4>1
      <4>3. /\ pos[k] = pos[k - 1] \div 2
            /\ path[k].element = levels[k][1 + Sibling(pos[k - 1])]
            /\ path[k].bit = pos[k - 1] % 2
        BY <1>5, <3>2 DEF Way
      <4>. QED  BY <4>2, <4>3
    <3>. QED  BY <1>4, <3>1, <3>2
  <2>. QED  BY <1>1, <1>10, <2>1, <2>2, <2>3 DEF Way
<1>13. runningIndex' = next[n + 1]
  BY <1>1, <1>6, <1>10
<1>14. PhaseInv'
  BY <1>1, <1>8, <1>12, <1>13 DEF TreeInv, PhaseInv, Below, Climbing, Checked
<1>. QED  BY <1>2, <1>9, <1>14 DEF TreeInv

LEMMA GiveWitnessKeeps == TreeInv /\ GiveWitness => TreeInv'
<1>. SUFFICES ASSUME TreeInv, GiveWitness PROVE TreeInv'
  OBVIOUS
<1>0. MERKLE_DEPTH \in Nat \ {0}
  BY TreeAssumption
<1>1. /\ treePhase = "path" /\ treePhase' = "checking" /\ Len(path) = MERKLE_DEPTH
      /\ node' = <<claimed>> /\ runningIndex' = 0
      /\ UNCHANGED <<list, levels, claimed, path>>
  BY DEF GiveWitness, computeAddressLeaf
<1>2. ListInv' /\ LevelsInv'
  BY <1>1, TreeStands DEF Below
<1>3. PathInv'
  BY <1>1 DEF TreeInv, PathInv
<1>4. PICK pos : Way(pos, MERKLE_DEPTH)
  BY <1>1 DEF TreeInv, PhaseInv
<1>5. <<claimed>> = levels[1][pos[0] + 1]
  <2>1. pos[0] + 1 \in DOMAIN list /\ list[pos[0] + 1] = claimed
    BY <1>4 DEF Way
  <2>2. DOMAIN list = 1..Len(list) /\ Len(list) \in 1..Capacity /\ Capacity \in Nat
    BY <1>0, <1>1, WidthFacts DEF TreeInv, ListInv
  <2>3. levels[1] = Padded
    BY <1>0, <1>1 DEF TreeInv, LevelsInv, PhaseInv, Climbing
  <2>. QED  BY <2>1, <2>2, <2>3 DEF Padded, computeAddressLeaf
<1>6. Way(pos, MERKLE_DEPTH)'
  BY <1>1, <1>4, WayStands
<1>7. 0 + 1 = 1 /\ 0 \in 0..MERKLE_DEPTH
  BY <1>0
<1>8. PhaseInv'
  BY <1>1, <1>5, <1>6, <1>7 DEF TreeInv, PhaseInv, Below, Climbing, Checked
<1>. QED  BY <1>2, <1>3, <1>8 DEF TreeInv

LEMMA CheckLevelKeeps == TreeInv /\ CheckLevel => TreeInv'
<1>. SUFFICES ASSUME TreeInv, CheckLevel PROVE TreeInv'
  OBVIOUS
<1>0. MERKLE_DEPTH \in Nat \ {0}
  BY TreeAssumption
<1>1. /\ treePhase = "checking" /\ runningIndex < MERKLE_DEPTH
      /\ node' = LevelNode(node, path[runningIndex + 1])
      /\ runningIndex' = runningIndex + 1
      /\ UNCHANGED <<list, treePhase, levels, claimed, path>>
  BY DEF CheckLevel
<1>2. ListInv' /\ LevelsInv'
  BY <1>1, TreeStands
<1>3. PathInv'
  BY <1>1 DEF TreeInv, PathInv
<1>4. PICK j \in 0..(MERKLE_DEPTH - 1) : j = runningIndex
  BY <1>0, <1>1 DEF TreeInv, PhaseInv, Checked
<1>5. PICK pos : Way(pos, MERKLE_DEPTH) /\ node = levels[j + 1][pos[j] + 1]
  BY <1>1, <1>4 DEF TreeInv, PhaseInv, Checked
<1>6. Len(levels) = MERKLE_DEPTH + 1 /\ Len(path) = MERKLE_DEPTH
  BY <1>1 DEF TreeInv, PhaseInv, Checked, Climbing
<1>7. /\ pos[j] \in Nat /\ pos[j] < Width(j + 1) /\ pos[j + 1] = pos[j] \div 2
      /\ path[j + 1].element = levels[j + 1][1 + Sibling(pos[j])]
      /\ path[j + 1].bit = pos[j] % 2
  <2>1. j + 1 \in 1..MERKLE_DEPTH /\ j \in 0..MERKLE_DEPTH /\ (j + 1) - 1 = j /\ j \in Nat
    BY <1>0, <1>4
  <2>. QED  BY <1>5, <2>1 DEF Way
<1>8. node' = levels[(j + 1) + 1][pos[j + 1] + 1]
  <2>1. j + 1 \in 1..MERKLE_DEPTH
    BY <1>0, <1>4
  <2>2. LevelNode(levels[j + 1][pos[j] + 1], path[j + 1]) = levels[(j + 1) + 1][(pos[j] \div 2) + 1]
    BY <1>6, <1>7, <2>1, LevelNodeClimbs DEF TreeInv
  <2>. QED  BY <1>1, <1>4, <1>5, <1>7, <2>2
<1>9. Way(pos, MERKLE_DEPTH)'
  BY <1>1, <1>5, WayStands
<1>10. j + 1 \in 0..MERKLE_DEPTH /\ runningIndex' = j + 1
  BY <1>0, <1>1, <1>4
<1>11. node' = levels'[runningIndex' + 1][pos[runningIndex'] + 1]
  BY <1>1, <1>8, <1>10
<1>12. PhaseInv'
  BY <1>1, <1>6, <1>9, <1>10, <1>11 DEF TreeInv, PhaseInv, Below, Climbing, Checked
<1>. QED  BY <1>2, <1>3, <1>12 DEF TreeInv

LEMMA CheckRootKeeps == TreeInv /\ CheckRoot => TreeInv'
<1>. SUFFICES ASSUME TreeInv, CheckRoot PROVE TreeInv'
  OBVIOUS
<1>0. MERKLE_DEPTH \in Nat \ {0}
  BY TreeAssumption
<1>1. /\ treePhase = "checking" /\ runningIndex = MERKLE_DEPTH
      /\ treePhase' = IF node = Root THEN "member" ELSE "rejected"
      /\ UNCHANGED <<list, levels, claimed, runningIndex, path, node>>
  BY DEF CheckRoot
<1>2. ListInv' /\ LevelsInv'
  BY <1>1, TreeStands DEF Below
<1>3. PathInv'
  BY <1>1 DEF TreeInv, PathInv
<1>4. PICK pos : /\ Way(pos, MERKLE_DEPTH)
                 /\ node = levels[MERKLE_DEPTH + 1][pos[MERKLE_DEPTH] + 1]
  BY <1>1 DEF TreeInv, PhaseInv, Checked
<1>5. pos[MERKLE_DEPTH] = 0
  <2>1. pos[MERKLE_DEPTH] \in Nat /\ pos[MERKLE_DEPTH] < Width(MERKLE_DEPTH + 1)
    BY <1>0, <1>4 DEF Way
  <2>. QED  BY <2>1, WidthFacts
<1>6. treePhase' = "member"
  BY <1>1, <1>4, <1>5 DEF Root
<1>7. Way(pos, MERKLE_DEPTH)'
  BY <1>1, <1>4, WayStands
<1>8. node' = levels'[runningIndex' + 1][pos[runningIndex'] + 1]
  BY <1>1, <1>4
<1>9. PhaseInv'
  BY <1>1, <1>6, <1>7, <1>8 DEF TreeInv, PhaseInv, Below, Climbing, Checked
<1>. QED  BY <1>2, <1>3, <1>9 DEF TreeInv

LEMMA TreeInvHolds == TreeSpec => []TreeInv
<1>1. TreeInit => TreeInv
  BY TreeInitial
<1>2. TreeInv /\ [TreeNext]_treeVars => TreeInv'
  <2>. SUFFICES ASSUME TreeInv, [TreeNext]_treeVars PROVE TreeInv'
    OBVIOUS
  <2>1. CASE UNCHANGED treeVars
    <3>1. UNCHANGED <<list, treePhase, levels, claimed, runningIndex, path, node>>
      BY <2>1 DEF treeVars
    <3>2. ListInv' /\ LevelsInv'
      BY <3>1, TreeStands
    <3>3. PathInv'
      BY <3>1 DEF TreeInv, PathInv
    <3>4. PhaseInv'
      BY <3>1 DEF TreeInv, PhaseInv, Way
    <3>. QED  BY <3>2, <3>3, <3>4 DEF TreeInv
  <2>2. CASE TreeNext
    BY <2>2, RefuseKeeps, StartKeeps, BuildKeeps, ClaimKeeps, PathKeeps, GiveWitnessKeeps,
       CheckLevelKeeps, CheckRootKeeps DEF TreeNext
  <2>. QED  BY <2>1, <2>2
<1>. QED  BY <1>1, <1>2, PTL DEF TreeSpec

-----------------------------------------------------------------------------
(* Nobody else is accepted: from the root downwards, a path that is        *)
(* accepted runs through the nodes of the tree, since a hash has one pair  *)
(* of children only.                                                       *)

\* at holds the circuit's nodes over the first n levels.
Climb(leaf, steps, n, at) ==
    at = [k \in 0..n |-> IF k = 0 THEN leaf ELSE LevelNode(at[k - 1], steps[k])]

LEMMA ClimbExists ==
    ASSUME NEW leaf, NEW steps, NEW n \in Nat
    PROVE  \E at : Climb(leaf, steps, n, at)
<1> DEFINE T == {k \in Nat : \E at : Climb(leaf, steps, k, at)}
<1>1. 0 \in T
  <2> DEFINE b == [k \in 0..0 |-> leaf]
  <2>1. Climb(leaf, steps, 0, b)
    BY DEF Climb
  <2>. QED  BY <2>1
<1>2. ASSUME NEW k \in Nat, k \in T PROVE k + 1 \in T
  <2>1. PICK b : Climb(leaf, steps, k, b)
    BY <1>2
  <2> DEFINE c == [i \in 0..(k + 1) |-> IF i = k + 1 THEN LevelNode(b[k], steps[k + 1]) ELSE b[i]]
  <2>2. ASSUME NEW i \in 0..(k + 1)
        PROVE  c[i] = IF i = 0 THEN leaf ELSE LevelNode(c[i - 1], steps[i])
    <3>1. CASE i = k + 1
      <4>1. c[i] = LevelNode(b[k], steps[k + 1]) /\ c[i - 1] = b[k] /\ i # 0
        BY <3>1
      <4>. HIDE DEF c
      <4>. QED  BY <3>1, <4>1
    <3>2. CASE i # k + 1
      <4>1. i \in 0..k /\ c[i] = b[i] /\ (i # 0 => c[i - 1] = b[i - 1])
        BY <3>2
      <4>2. b[i] = IF i = 0 THEN leaf ELSE LevelNode(b[i - 1], steps[i])
        BY <2>1, <4>1 DEF Climb
      <4>. HIDE DEF c
      <4>. QED  BY <4>1, <4>2
    <3>. QED  BY <3>1, <3>2
  <2>3. Climb(leaf, steps, k + 1, c)
    <3>1. c = [i \in 0..(k + 1) |-> c[i]]
      OBVIOUS
    <3>. HIDE DEF c
    <3>. QED  BY <2>2, <3>1 DEF Climb
  <2>. QED  BY <2>3
<1>3. Nat \subseteq T
  <2>. HIDE DEF T
  <2>. QED  BY <1>1, <1>2, SetInduction
<1>. QED  BY <1>3

\* The node at height k is the tree's at place p, and the bits above spell p.
AtPlace(at, steps, k, p) ==
    /\ p \in Nat /\ p < Width(k + 1)
    /\ at[k] = levels[k + 1][p + 1]
    /\ \A l \in (k + 1)..MERKLE_DEPTH : steps[l].bit = (p \div (2 ^ (l - 1 - k))) % 2

\* A node of the tree was made of the two nodes below it and of no others.
LEMMA PlaceBelow ==
    ASSUME LevelsInv, Len(levels) = MERKLE_DEPTH + 1, NEW at, NEW steps, NEW leaf,
           Climb(leaf, steps, MERKLE_DEPTH, at),
           NEW k \in 1..MERKLE_DEPTH, steps[k].bit \in {0, 1},
           NEW p, AtPlace(at, steps, k, p)
    PROVE  \E q : AtPlace(at, steps, k - 1, q)
<1>0. MERKLE_DEPTH \in Nat \ {0}
  BY TreeAssumption
<1>1. PICK w \in Nat \ {0} : w = Width(k + 1) /\ Width(k) = 2 * w
  <2>1. k + 1 \in 1..(MERKLE_DEPTH + 1)
    BY <1>0
  <2>. QED  BY <2>1, WidthFacts
<1>2. p \in Nat /\ p < w /\ p + 1 \in 1..w
  <2>1. p \in Nat /\ p < w
    BY <1>1 DEF AtPlace
  <2>. QED  BY <1>1, <2>1
<1>3. PICK b \in {0, 1} : b = steps[k].bit
  OBVIOUS
<1>4. PICK q \in Nat : q = 2 * p + b /\ q < 2 * w /\ q \div 2 = p /\ q % 2 = b
  BY <1>1, <1>2
<1>5. at[k] = Poseidon2(levels[k][2 * (p + 1) - 1], levels[k][2 * (p + 1)])
  <2>1. k + 1 <= Len(levels)
    BY <1>0
  <2>2. levels[k + 1][p + 1] = Poseidon2(levels[k][2 * (p + 1) - 1], levels[k][2 * (p + 1)])
    BY <1>1, <1>2, <2>1 DEF LevelsInv
  <2>. QED  BY <2>2 DEF AtPlace
<1>6. at[k] = LevelNode(at[k - 1], steps[k])
  BY <1>0 DEF Climb
<1>7. at[k - 1] = levels[k][q + 1]
  <2>1. CASE b = 0
    <3>1. at[k] = Poseidon2(at[k - 1], steps[k].element)
      BY <1>3, <1>6, <2>1 DEF LevelNode
    <3>2. q + 1 = 2 * (p + 1) - 1
      BY <1>2, <1>4, <2>1
    <3>. QED  BY <1>5, <3>1, <3>2 DEF Poseidon2
  <2>2. CASE b = 1
    <3>1. at[k] = Poseidon2(steps[k].element, at[k - 1])
      BY <1>3, <1>6, <2>2 DEF LevelNode
    <3>2. q + 1 = 2 * (p + 1)
      BY <1>2, <1>4, <2>2
    <3>. QED  BY <1>5, <3>1, <3>2 DEF Poseidon2
  <2>. QED  BY <2>1, <2>2
<1>8. ASSUME NEW l \in k..MERKLE_DEPTH
      PROVE  steps[l].bit = (q \div (2 ^ (l - 1 - (k - 1)))) % 2
  <2>1. CASE l = k
    <3>1. l - 1 - (k - 1) = 0
      BY <2>1
    <3>2. 2 ^ (l - 1 - (k - 1)) = 1
      BY <3>1, PowersOfTwo
    <3>3. q \div 1 = q
      OBVIOUS
    <3>. QED  BY <1>3, <1>4, <2>1, <3>2, <3>3
  <2>2. CASE l # k
    <3>1. PICK n \in Nat : n = l - 1 - k /\ n + 1 = l - 1 - (k - 1)
      BY <2>2
    <3>2. PICK d \in Nat \ {0} : d = 2 ^ n
      <4>1. n = MERKLE_DEPTH + 1 - (MERKLE_DEPTH + 1 - n) /\ MERKLE_DEPTH + 1 - n \in 1..(MERKLE_DEPTH + 1)
        BY <1>0, <3>1
      <4>2. 2 ^ n = Width(MERKLE_DEPTH + 1 - n)
        BY <4>1 DEF Width
      <4>. QED  BY <4>1, <4>2, WidthFacts
    <3>3. 2 ^ (n + 1) = 2 * d
      BY <3>2, PowersOfTwo
    <3>4. q \div (2 * d) = p \div d
      BY <1>4, HalvesDivide
    <3>5. steps[l].bit = (p \div (2 ^ (l - 1 - k))) % 2
      <4>1. l \in (k + 1)..MERKLE_DEPTH
        BY <2>2
      <4>. QED  BY <4>1 DEF AtPlace
    <3>. QED  BY <3>1, <3>2, <3>3, <3>4, <3>5
  <2>. QED  BY <2>1, <2>2
<1>9. AtPlace(at, steps, k - 1, q)
  <2>1. (k - 1) + 1 = k
    OBVIOUS
  <2>. QED  BY <1>1, <1>4, <1>7, <1>8, <2>1 DEF AtPlace
<1>. QED  BY <1>9

\* The bits of the path spell a place of x in the list.
SpellsPlaceOf(x, steps) ==
    \E i \in DOMAIN list :
        /\ list[i] = x
        /\ \A k \in 1..MERKLE_DEPTH : steps[k].bit = ((i - 1) \div (2 ^ (k - 1))) % 2

LEMMA AcceptedIsMember ==
    ASSUME ListInv, LevelsInv, Len(levels) = MERKLE_DEPTH + 1, Len(list) \in 1..Capacity, NEW x,
           NEW steps, \A k \in 1..MERKLE_DEPTH : steps[k].bit \in {0, 1},
           Accepted(computeAddressLeaf(x), steps)
    PROVE  SpellsPlaceOf(x, steps)
<1>0. MERKLE_DEPTH \in Nat \ {0}
  BY TreeAssumption
<1> DEFINE leaf == computeAddressLeaf(x)
           at == CHOOSE f : Climb(leaf, steps, MERKLE_DEPTH, f)
<1>1. Climb(leaf, steps, MERKLE_DEPTH, at)
  BY <1>0, ClimbExists
<1>2. at[MERKLE_DEPTH] = Root
  BY DEF Accepted, Climb
<1>. HIDE DEF at
<1> DEFINE T == {j \in Nat : j <= MERKLE_DEPTH =>
                                \E p : AtPlace(at, steps, MERKLE_DEPTH - j, p)}
<1>3. 0 \in T
  <2>1. AtPlace(at, steps, MERKLE_DEPTH, 0)
    <3>1. 0 < Width(MERKLE_DEPTH + 1) /\ 0 + 1 = 1
      BY WidthFacts
    <3>2. \A l \in (MERKLE_DEPTH + 1)..MERKLE_DEPTH : FALSE
      BY <1>0
    <3>. QED  BY <1>2, <3>1, <3>2 DEF AtPlace, Root
  <2>2. MERKLE_DEPTH - 0 = MERKLE_DEPTH
    BY <1>0
  <2>. QED  BY <2>1, <2>2
<1>4. ASSUME NEW j \in Nat, j \in T PROVE j + 1 \in T
  <2>1. SUFFICES ASSUME j + 1 <= MERKLE_DEPTH
                 PROVE  \E p : AtPlace(at, steps, MERKLE_DEPTH - (j + 1), p)
    OBVIOUS
  <2>2. PICK k \in 1..MERKLE_DEPTH : k = MERKLE_DEPTH - j /\ k - 1 = MERKLE_DEPTH - (j + 1)
    BY <1>0, <2>1
  <2>3. PICK p : AtPlace(at, steps, k, p)
    BY <1>0, <1>4, <2>1, <2>2
  <2>. QED  BY <1>1, <2>2, <2>3, PlaceBelow
<1>5. Nat \subseteq T
  <2>. HIDE DEF T
  <2>. QED  BY <1>3, <1>4, SetInduction
<1>6. PICK p : AtPlace(at, steps, 0, p)
  <2>1. MERKLE_DEPTH \in T
    BY <1>0, <1>5
  <2>2. MERKLE_DEPTH <= MERKLE_DEPTH /\ MERKLE_DEPTH - MERKLE_DEPTH = 0
    BY <1>0
  <2>. QED  BY <2>1, <2>2
<1>7. p \in Nat /\ leaf = Padded[p + 1] /\ p < Capacity
  <2>1. at[0] = leaf
    BY <1>0, <1>1 DEF Climb
  <2>2. levels[1] = Padded
    BY <1>0 DEF LevelsInv
  <2>3. 0 + 1 = 1
    OBVIOUS
  <2>. QED  BY <1>6, <2>1, <2>2, <2>3, WidthFacts DEF AtPlace
<1>8. p + 1 \in DOMAIN list /\ list[p + 1] = x
  <2>1. DOMAIN list = 1..Len(list) /\ Capacity \in Nat
    BY <1>0, WidthFacts DEF ListInv
  <2>2. p + 1 \in 1..Capacity
    BY <1>7, <2>1
  <2>3. Padded[p + 1] = IF p + 1 <= Len(list) THEN <<list[p + 1]>> ELSE <<>>
    BY <2>2 DEF Padded, computeAddressLeaf, EmptyLeaf
  <2>4. <<x>> # <<>>
    OBVIOUS
  <2>5. p + 1 <= Len(list)
    BY <1>7, <2>3, <2>4 DEF computeAddressLeaf
  <2>. QED  BY <1>7, <2>1, <2>3, <2>5 DEF computeAddressLeaf
<1>9. ASSUME NEW k \in 1..MERKLE_DEPTH
      PROVE  steps[k].bit = (((p + 1) - 1) \div (2 ^ (k - 1))) % 2
  <2>1. k - 1 - 0 = k - 1 /\ (p + 1) - 1 = p /\ k \in (0 + 1)..MERKLE_DEPTH
    BY <1>7
  <2>2. steps[k].bit = (p \div (2 ^ (k - 1 - 0))) % 2
    BY <1>6, <2>1 DEF AtPlace
  <2>. QED  BY <2>1, <2>2
<1>. QED  BY <1>8, <1>9 DEF SpellsPlaceOf

-----------------------------------------------------------------------------
\* Type correctness of the whitelist tree: every level has half the nodes of the
\* one below and the loops end within their bounds.
THEOREM TreeTypeCorrect == TreeSpec => []TreeTypeOK
<1>1. TreeInv => TreeTypeOK
  <2>. SUFFICES ASSUME TreeInv PROVE TreeTypeOK
    OBVIOUS
  <2>0. MERKLE_DEPTH \in Nat \ {0}
    BY TreeAssumption
  <2>1. treePhase \in {"given", "refused", "levels", "path", "checking", "member", "rejected"}
    BY DEF TreeInv, PhaseInv, Below, Climbing
  <2>2. \A k \in DOMAIN levels : DOMAIN levels[k] = 1..(2 ^ (MERKLE_DEPTH + 1 - k))
    <3>1. DOMAIN levels = 1..Len(levels)
      BY DEF TreeInv, LevelsInv
    <3>. QED  BY <3>1 DEF TreeInv, LevelsInv, Width
  <2>3. PICK c \in Nat : c = Capacity /\ MERKLE_DEPTH <= c
    BY <2>0, WidthFacts, DepthBelowCapacity
  <2>4. runningIndex \in 0..c
    <3>1. CASE treePhase = "path"
      <4>1. PICK pos : Way(pos, Len(path)) /\ runningIndex = pos[Len(path)]
        BY <3>1 DEF TreeInv, PhaseInv
      <4>2. PICK n \in 0..MERKLE_DEPTH : n = Len(path)
        BY DEF TreeInv, PathInv
      <4>3. runningIndex \in Nat /\ runningIndex < Width(n + 1)
        BY <4>1, <4>2 DEF Way
      <4>4. Width(n + 1) \in Nat /\ Width(n + 1) <= c
        <5> DEFINE T == {m \in Nat : m <= MERKLE_DEPTH => Width(m + 1) \in Nat /\ Width(m + 1) <= c}
        <5>1. 0 \in T
          BY <2>3, WidthFacts
        <5>2. ASSUME NEW m \in Nat, m \in T PROVE m + 1 \in T
          <6>1. SUFFICES ASSUME m + 1 <= MERKLE_DEPTH
                         PROVE  Width((m + 1) + 1) \in Nat /\ Width((m + 1) + 1) <= c
            OBVIOUS
          <6>2. m + 1 \in 1..MERKLE_DEPTH /\ (m + 1) + 1 \in 1..(MERKLE_DEPTH + 1)
            BY <2>0, <6>1
          <6>3. PICK v \in Nat : v = Width((m + 1) + 1) /\ Width(m + 1) = 2 * v
            BY <6>2, WidthFacts
          <6>4. Width(m + 1) <= c
            BY <2>0, <5>2, <6>1
          <6>. QED  BY <2>3, <6>3, <6>4
        <5>3. Nat \subseteq T
          <6>. HIDE DEF T
          <6>. QED  BY <5>1, <5>2, SetInduction
        <5>. QED  BY <5>3
      <4>. QED  BY <2>3, <4>3, <4>4
    <3>2. CASE treePhase \in Checked
      BY <2>0, <2>3, <3>2 DEF TreeInv, PhaseInv
    <3>3. CASE treePhase \in Below \cup {"levels"}
      BY <2>3, <3>3 DEF TreeInv, PhaseInv
    <3>. QED  BY <3>1, <3>2, <3>3 DEF TreeInv, PhaseInv, Below, Climbing, Checked
  <2>5. \A k \in DOMAIN path : path[k].bit \in {0, 1}
    <3>1. DOMAIN path = 1..Len(path)
      BY DEF TreeInv, PathInv
    <3>. QED  BY <3>1 DEF TreeInv, PathInv
  <2>6. Len(levels) <= MERKLE_DEPTH + 1 /\ Len(path) <= MERKLE_DEPTH
    BY <2>0 DEF TreeInv, LevelsInv, PathInv
  <2>. QED  BY <2>1, <2>2, <2>3, <2>4, <2>5, <2>6 DEF TreeTypeOK
<1>. QED  BY <1>1, TreeInvHolds, PTL

\* Tree, path and circuit agree on who is a member: the path rebuilt for a member
\* is accepted whichever of its places is taken, and no path whatever makes the
\* circuit accept an address at a place where the list has another or none.
THEOREM PathsProve == TreeSpec => []PathsProveMembership
<1>1. TreeInv => PathsProveMembership
  <2>. SUFFICES ASSUME TreeInv PROVE PathsProveMembership
    OBVIOUS
  <2>1. MembersProve
    BY DEF TreeInv, PhaseInv, MembersProve, Below, Climbing
  <2>2. OnlyMembersProve
    <3>. SUFFICES ASSUME treePhase = "levels", Len(levels) = MERKLE_DEPTH + 1,
                         NEW x \in Addresses,
                         NEW steps \in [1..MERKLE_DEPTH ->
                                           [element : Hashes \cup {computeAddressLeaf(x)},
                                            bit : {0, 1}]],
                         Accepted(computeAddressLeaf(x), steps)
                  PROVE  SpellsPlaceOf(x, steps)
      BY DEF OnlyMembersProve, SpellsPlaceOf
    <3>1. \A k \in 1..MERKLE_DEPTH : steps[k].bit \in {0, 1}
      OBVIOUS
    <3>2. Len(list) \in 1..Capacity
      BY DEF TreeInv, ListInv
    <3>3. ListInv /\ LevelsInv
      BY DEF TreeInv
    <3>. HIDE DEF TreeInv
    <3>. QED  BY Zenon, <3>1, <3>2, <3>3, AcceptedIsMember
  <2>. QED  BY <2>1, <2>2 DEF PathsProveMembership
<1>. QED  BY <1>1, TreeInvHolds, PTL
=============================================================================
