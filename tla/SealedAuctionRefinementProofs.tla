-------------------- MODULE SealedAuctionRefinementProofs --------------------
(***************************************************************************)
(* The contract implements the trusted auction house: every successful     *)
(* invocation, every tick and every outage of a token is a step of         *)
(* IdealAuction under the mapping HouseOf, or changes nothing there.       *)
(***************************************************************************)
EXTENDS SealedAuctionProofs

\* No book outgrows the circuit (place_bid's AuctionFull): a bid past the last
\* slot would be in no proof.  With TypeOK this is what the refinement rests on.
BooksFit == \A id \in AuctionIds : Len(auctions[id].bids) <= MaxBidSlots

-----------------------------------------------------------------------------
(* The mapping, one auction at a time and without the variables.           *)

Offers(id, bids) ==
    [i \in 1..Len(bids) |->
        LET c == bids[i].commitment
        IN  [bidder |-> bids[i].bidder,
             price  |-> c.price,
             valid  |-> c.auctionId = id /\ c.price <= U64Max]]

PhaseAt(a, time) ==
    CASE a.status = "Settled"  -> "sold"
      [] a.status = "Refunded" -> "returned"
      [] a.status = "Open"     -> IF time < a.terms.commit_deadline THEN "bidding" ELSE "closed"

\* sale: the auction's settlement, if there is one.
View(id, a, time, sale) ==
    [terms   |-> a.terms,
     phase   |-> PhaseAt(a, time),
     offers  |-> Offers(id, a.bids),
     deal    |-> IF a.status = "Settled" THEN sale ELSE EmptyCommitment,
     custody |-> IF LotHeld(a) THEN "house"
                 ELSE IF a.status = "Settled" THEN "winner" ELSE "seller"]

LEMMA HouseIsView ==
    /\ HouseOf = [id \in DOMAIN auctions |-> View(id, auctions[id], now, settlements[id])]
    /\ HouseOf' = [id \in DOMAIN auctions' |-> View(id, auctions'[id], now', settlements'[id])]
BY DEF HouseOf, View, PhaseOf, PhaseAt, OffersOf, Offers, LotHeld

\* What the view of an auction shows of its status.
LEMMA ViewFacts ==
    ASSUME NEW id, NEW a \in Auction, NEW time \in Nat, NEW sale
    PROVE  LET v == View(id, a, time, sale)
           IN  /\ v.terms = a.terms /\ v.offers = Offers(id, a.bids)
               /\ a.status = "Open" =>
                    /\ v.custody = "house" /\ v.deal = EmptyCommitment
                    /\ time < a.terms.commit_deadline => v.phase = "bidding"
                    /\ time >= a.terms.commit_deadline => v.phase = "closed"
               /\ a.status = "Settled" =>
                    v.phase = "sold" /\ v.custody = "winner" /\ v.deal = sale
               /\ a.status = "Refunded" =>
                    /\ v.phase = "returned" /\ v.deal = EmptyCommitment
                    /\ v.custody = IF a.lot_reclaimed THEN "seller" ELSE "house"
<1>1. a.terms.commit_deadline \in Nat /\ a.lot_reclaimed \in BOOLEAN
    BY TermsFacts DEF Auction
<1> QED BY <1>1 DEF View, PhaseAt, LotHeld

\* A view is the record of its fields.
IsLot(v) == v = [terms |-> v.terms, phase |-> v.phase, offers |-> v.offers, deal |-> v.deal,
                 custody |-> v.custody]
LEMMA ViewIsLot ==
    ASSUME NEW id, NEW a, NEW time, NEW sale
    PROVE  IsLot(View(id, a, time, sale))
BY DEF View, IsLot

\* A call on one auction replaces one lot of the house.
LEMMA OneLotChanges ==
    ASSUME TypeOK, NEW id \in AuctionIds, TouchesOnly(id), now' = now,
           \A m \in AuctionIds : m # id /\ auctions[m].status = "Settled"
                                   => settlements'[m] = settlements[m]
    PROVE  HouseOf' = [HouseOf EXCEPT ![id] = View(id, auctions'[id], now, settlements'[id])]
<1>1. DOMAIN auctions = AuctionIds /\ DOMAIN auctions' = AuctionIds
    BY DEF TypeOK, TouchesOnly
<1>2. HouseOf = [m \in AuctionIds |-> View(m, auctions[m], now, settlements[m])]
    BY <1>1, HouseIsView
<1>3. HouseOf' = [m \in AuctionIds |-> View(m, auctions'[m], now, settlements'[m])]
    BY <1>1, HouseIsView
<1>4. \A m \in AuctionIds : m # id =>
          View(m, auctions'[m], now, settlements'[m]) = View(m, auctions[m], now, settlements[m])
    BY DEF TouchesOnly, View
<1> QED BY <1>2, <1>3, <1>4

\* A lot of the house, as the steps of IdealAuction see it.
LEMMA LotFacts ==
    ASSUME TypeOK, NEW id \in AuctionIds
    PROVE  /\ DOMAIN HouseOf = AuctionIds
           /\ HouseOf[id] = View(id, auctions[id], now, settlements[id])
           /\ auctions[id] \in Auction /\ now \in Nat
<1>1. DOMAIN auctions = AuctionIds /\ auctions[id] \in Auction /\ now \in Nat
    BY BoundsAssumption DEF TypeOK
<1> QED BY <1>1, HouseIsView

-----------------------------------------------------------------------------
(* place_bid                                                               *)

OfferOf(id, bid) ==
    [bidder |-> bid.bidder,
     price  |-> bid.commitment.price,
     valid  |-> bid.commitment.auctionId = id /\ bid.commitment.price <= U64Max]

LEMMA OfferType ==
    ASSUME NEW id, NEW bid \in Bid
    PROVE  OfferOf(id, bid) \in Ideal!Offer
<1>1. bid.bidder \in Accounts /\ bid.commitment \in SealedBids
    BY DEF Bid
<1>2. bid.commitment.price \in {c.price : c \in SealedBids}
    BY <1>1
<1>3. (bid.commitment.auctionId = id /\ bid.commitment.price <= U64Max) \in BOOLEAN
    OBVIOUS
<1> QED BY <1>1, <1>2, <1>3 DEF OfferOf, Ideal!Offer

LEMMA OffersType ==
    ASSUME NEW id, NEW bids \in Seq(Bid)
    PROVE  /\ Offers(id, bids) \in Seq(Ideal!Offer)
           /\ Len(Offers(id, bids)) = Len(bids)
           /\ \A i \in 1..Len(bids) : Offers(id, bids)[i] = OfferOf(id, bids[i])
<1>1. \A i \in 1..Len(bids) : bids[i] \in Bid
    OBVIOUS
<1>2. Offers(id, bids) = [i \in 1..Len(bids) |-> OfferOf(id, bids[i])]
    BY DEF Offers, OfferOf
<1>3. \A i \in 1..Len(bids) : OfferOf(id, bids[i]) \in Ideal!Offer
    BY <1>1, OfferType
<1>4. Len(bids) \in Nat
    OBVIOUS
<1> QED BY <1>2, <1>3, <1>4

LEMMA OffersAppend ==
    ASSUME NEW id, NEW bids \in Seq(Bid), NEW bid \in Bid
    PROVE  Offers(id, Append(bids, bid)) = Append(Offers(id, bids), OfferOf(id, bid))
<1> DEFINE old == Offers(id, bids)
           new == Offers(id, Append(bids, bid))
<1>1. Append(bids, bid) \in Seq(Bid) /\ Len(Append(bids, bid)) = Len(bids) + 1
    OBVIOUS
<1>2. /\ old \in Seq(Ideal!Offer) /\ Len(old) = Len(bids)
      /\ \A i \in 1..Len(bids) : old[i] = OfferOf(id, bids[i])
    BY OffersType
<1>3. /\ new \in Seq(Ideal!Offer) /\ Len(new) = Len(bids) + 1
      /\ \A i \in 1..(Len(bids) + 1) : new[i] = OfferOf(id, Append(bids, bid)[i])
    BY <1>1, OffersType
<1>4. OfferOf(id, bid) \in Ideal!Offer
    BY OfferType
<1> HIDE DEF old, new
<1> DEFINE added == Append(old, OfferOf(id, bid))
<1>5. added \in Seq(Ideal!Offer) /\ Len(added) = Len(bids) + 1
    BY <1>2, <1>4
<1>6. \A i \in 1..(Len(bids) + 1) : new[i] = added[i]
    <2> SUFFICES ASSUME NEW i \in 1..(Len(bids) + 1) PROVE new[i] = added[i]
        OBVIOUS
    <2>1. CASE i = Len(bids) + 1
        BY <1>2, <1>3, <2>1
    <2>2. CASE i # Len(bids) + 1
        <3>1. i \in 1..Len(bids) /\ Append(bids, bid)[i] = bids[i]
            BY <2>2
        <3>2. added[i] = old[i]
            BY <1>2, <3>1
        <3> QED BY <1>2, <1>3, <3>1, <3>2
    <2> QED BY <2>1, <2>2
<1> HIDE DEF added
<1>7. new = added
    BY <1>3, <1>5, <1>6
<1> QED BY <1>7 DEF new, old, added

LEMMA BidRefines ==
    ASSUME TypeOK, NEW id \in AuctionIds, NEW bidder \in Accounts,
           NEW commitment \in SealedBids \cup {EmptyCommitment}, NEW len,
           PlaceBid(id, bidder, commitment, len)
    PROVE  \E offer \in Ideal!Offer : Ideal!Bid(id, offer)
<1> DEFINE a == auctions[id]
           bid == [bidder |-> bidder, commitment |-> commitment]
           lot == View(id, a, now, settlements[id])
           after == View(id, auctions'[id], now, settlements'[id])
<1>1. /\ DOMAIN HouseOf = AuctionIds /\ HouseOf[id] = lot
      /\ a \in Auction /\ now \in Nat
    BY LotFacts
<1>2. bid \in Bid /\ a.bids \in Seq(Bid)
    BY <1>1 DEF PlaceBid, AcceptsCommitment, Bid, Auction
<1>3. a.status = "Open" /\ now < a.terms.commit_deadline /\ Len(a.bids) < MaxBidSlots
    BY DEF PlaceBid, EnsureOpen, BeforeDeadline
<1>4. /\ auctions'[id] = [a EXCEPT !.bids = Append(a.bids, bid)]
      /\ now' = now /\ settlements' = settlements
    BY DEF PlaceBid, TypeOK
<1>5. TouchesOnly(id)
    BY PlaceBidFacts
<1>6. auctions'[id] \in Auction
    BY <1>5 DEF TouchesOnly
<1>7. /\ auctions'[id].status = "Open" /\ auctions'[id].terms = a.terms
      /\ auctions'[id].bids = Append(a.bids, bid)
    BY <1>1, <1>3, <1>4 DEF Auction
<1>8. /\ lot.phase = "bidding" /\ lot.offers = Offers(id, a.bids) /\ lot.terms = a.terms
      /\ lot.custody = "house" /\ lot.deal = EmptyCommitment
    BY <1>1, <1>3, ViewFacts
<1>9. /\ after.phase = "bidding" /\ after.terms = a.terms
      /\ after.offers = Append(lot.offers, OfferOf(id, bid))
      /\ after.custody = "house" /\ after.deal = EmptyCommitment
    <2>1. after.offers = Offers(id, Append(a.bids, bid))
        <3>1. after.offers = Offers(id, auctions'[id].bids)
            BY DEF View
        <3> QED BY <1>7, <3>1
    <2>2. after.offers = Append(lot.offers, OfferOf(id, bid))
        BY <2>1, <1>2, <1>8, OffersAppend
    <2>3. LotHeld(auctions'[id])
        BY <1>7 DEF LotHeld
    <2>4. PhaseAt(auctions'[id], now) = "bidding"
        BY <1>3, <1>7 DEF PhaseAt
    <2>5. /\ after.phase = PhaseAt(auctions'[id], now) /\ after.terms = auctions'[id].terms
          /\ LotHeld(auctions'[id]) => after.custody = "house"
          /\ auctions'[id].status # "Settled" => after.deal = EmptyCommitment
        BY DEF View
    <2> HIDE DEF after
    <2> QED BY <1>4, <1>7, <2>2, <2>3, <2>4, <2>5
<1>10. HouseOf' = [HouseOf EXCEPT ![id] = after]
    BY <1>4, <1>5, OneLotChanges
<1>11. after = [lot EXCEPT !.offers = Append(lot.offers, OfferOf(id, bid))]
    <2>1. IsLot(lot) /\ IsLot(after)
        BY ViewIsLot
    <2> HIDE DEF lot, after
    <2> QED BY <1>8, <1>9, <2>1 DEF IsLot
<1>12. Len(lot.offers) < MaxBidSlots
    BY <1>2, <1>3, <1>8, OffersType
<1>13. OfferOf(id, bid) \in Ideal!Offer
    BY <1>2, OfferType
<1> HIDE DEF lot, after, bid, a
<1>14. HouseOf' = [HouseOf EXCEPT ![id].offers = Append(@, OfferOf(id, bid))]
    BY <1>1, <1>10, <1>11
<1>15. Ideal!Bid(id, OfferOf(id, bid))
    BY <1>1, <1>8, <1>12, <1>14 DEF Ideal!Bid
<1> QED BY <1>13, <1>15

-----------------------------------------------------------------------------
(* settle                                                                  *)

\* An invocation that changes the status of one auction changes the phase, the
\* deal and the custody of one lot.
LEMMA StatusStep ==
    ASSUME TypeOK, NEW id \in AuctionIds, TouchesOnly(id), now' = now,
           \A m \in AuctionIds : m # id /\ auctions[m].status = "Settled"
                                   => settlements'[m] = settlements[m],
           auctions'[id].terms = auctions[id].terms, auctions'[id].bids = auctions[id].bids
    PROVE  LET lot == View(id, auctions[id], now, settlements[id])
               after == View(id, auctions'[id], now, settlements'[id])
           IN  /\ HouseOf' = [HouseOf EXCEPT ![id] = after]
               /\ after = [lot EXCEPT !.phase = after.phase, !.deal = after.deal,
                                      !.custody = after.custody]
<1> DEFINE lot == View(id, auctions[id], now, settlements[id])
           after == View(id, auctions'[id], now, settlements'[id])
<1>1. HouseOf' = [HouseOf EXCEPT ![id] = after]
    BY OneLotChanges
<1>2. after.terms = lot.terms /\ after.offers = lot.offers
    BY DEF View
<1>3. IsLot(lot) /\ IsLot(after)
    BY ViewIsLot
<1> HIDE DEF lot, after
<1>4. after = [lot EXCEPT !.phase = after.phase, !.deal = after.deal, !.custody = after.custody]
    BY <1>2, <1>3 DEF IsLot
<1> QED BY <1>1, <1>4 DEF lot, after

\* A proof of the auction's signals is a sale the auctioneer would make: every
\* offer opens, the winner's is the best, and the price is the best rival's.
LEMMA ProofIsFairSale ==
    ASSUME NEW id, NEW a \in Auction, Len(a.bids) <= MaxBidSlots,
           NEW w \in Filled(a), NEW p \in Int, NEW x,
           Verify(BuildPublicSignals(id, a, w, p, x))
    PROVE  /\ \A i \in DOMAIN Offers(id, a.bids) : Offers(id, a.bids)[i].valid
           /\ Ideal!IsBestOffer(Offers(id, a.bids), w)
           /\ Ideal!IsBestRival(Offers(id, a.bids), w, p)
           /\ x \in a.terms.whitelist_root
<1> DEFINE pub == BuildPublicSignals(id, a, w, p, x)
           price == OpenedPrices(pub.commitments)
           salt == OpenedSalts(pub.commitments)
           n == Len(a.bids)
           offers == Offers(id, a.bids)
<1>1. a.bids \in Seq(Bid) /\ n \in Nat /\ \A i \in 1..n : a.bids[i] \in Bid
    BY DEF Auction
<1>2. /\ pub.auctionId = id /\ pub.winnerIndex = w /\ pub.winningPrice = p
      /\ pub.whitelistRoot = a.terms.whitelist_root /\ pub.winnerAddrHash = x
      /\ pub.commitments = [i \in Slots |-> IF i <= n THEN a.bids[i].commitment
                                            ELSE EmptyCommitment]
    BY DEF BuildPublicSignals
<1>3. WinnerStatement(pub, price, salt)
    BY DEF Verify
<1>4. \A i \in Slots : i \in Nat /\ (i <= n <=> i \in 1..n)
    BY <1>1, SlotsAssumption DEF Slots
<1>5. 1..n \subseteq Slots
    BY <1>1, SlotsAssumption DEF Slots
<1>6. \A i \in 1..n :
          /\ pub.commitments[i] = a.bids[i].commitment
          /\ pub.commitments[i] # EmptyCommitment
    BY <1>1, <1>2, <1>4, <1>5, CommitmentsAssumption DEF Bid
<1>7. \A i \in Slots : i \notin 1..n => pub.commitments[i] = EmptyCommitment
    BY <1>2, <1>4
<1>8. \A i \in 1..n : price[i] = a.bids[i].commitment.price
    BY <1>5, <1>6 DEF OpenedPrices
<1>9. \A i \in Slots : i \notin 1..n => price[i] = 0
    BY <1>7 DEF OpenedPrices
<1>10. \A i \in 1..n : a.bids[i].commitment.auctionId = id
    <2> SUFFICES ASSUME NEW i \in 1..n PROVE a.bids[i].commitment.auctionId = id
        OBVIOUS
    <2> HIDE DEF pub, price, salt
    <2>1. pub.commitments[i] = Poseidon3(price[i], salt[i], pub.auctionId)
        BY <1>3, <1>5, <1>6 DEF WinnerStatement, BindsCommitments
    <2>2. pub.commitments[i].auctionId = pub.auctionId
        BY <2>1 DEF Poseidon3
    <2> QED BY <1>2, <1>6, <2>2
<1> HIDE DEF price, salt, pub, offers
<1>11. /\ \A i \in Slots : price[i] \in 0..U64Max /\ price[i] \in Nat /\ price[i] <= U64Max
       /\ IsVickreyWinner(price, w) /\ IsClearingPrice(price, w, p) /\ p # 0
       /\ x \in a.terms.whitelist_root
    <2>1. pub.winningPrice \in Int
        BY <1>2
    <2>2. /\ \A i \in Slots : price[i] \in 0..U64Max
          /\ IsVickreyWinner(price, pub.winnerIndex)
          /\ IsClearingPrice(price, pub.winnerIndex, pub.winningPrice)
          /\ pub.winningPrice # 0
          /\ pub.winnerAddrHash \in pub.whitelistRoot
        BY <1>3, <2>1, CircuitIsVickrey
    <2>3. \A q \in 0..U64Max : q \in Nat /\ q <= U64Max
        BY U64Assumption
    <2> QED BY <1>2, <2>2, <2>3
<1>12. DOMAIN offers = 1..n /\ \A i \in 1..n : offers[i] = OfferOf(id, a.bids[i])
    BY <1>1, OffersType DEF offers, Offers
<1>13. \A i \in 1..n : offers[i].price = price[i]
    <2> SUFFICES ASSUME NEW i \in 1..n PROVE offers[i].price = price[i]
        OBVIOUS
    <2>1. OfferOf(id, a.bids[i]).price = a.bids[i].commitment.price
        BY DEF OfferOf
    <2> QED BY <1>8, <1>12, <2>1
<1>14. \A i \in 1..n : offers[i].valid
    <2> SUFFICES ASSUME NEW i \in 1..n PROVE offers[i].valid
        OBVIOUS
    <2>1. i \in Slots /\ price[i] <= U64Max /\ price[i] = a.bids[i].commitment.price
        BY <1>5, <1>8, <1>11
    <2>2. a.bids[i].commitment.auctionId = id /\ a.bids[i].commitment.price <= U64Max
        BY <1>10, <2>1
    <2>3. OfferOf(id, a.bids[i]).valid
        BY <2>2 DEF OfferOf
    <2> QED BY <1>12, <2>3
<1>15. Ideal!IsBestOffer(offers, w)
    <2>1. w \in Slots /\ w \in 1..n
        BY <1>5 DEF Filled
    <2>2. HoldsMaximum(price, w)
        BY <1>11, <2>1, WinnerIsVickrey
    <2>3. \A i \in 1..n : /\ price[i] <= price[w]
                          /\ i < w => price[i] < price[w]
        BY <1>5, <1>11, <2>1, <2>2 DEF HoldsMaximum
    <2> QED BY <1>12, <1>13, <2>1, <2>3 DEF Ideal!IsBestOffer
<1>16. Ideal!IsBestRival(offers, w, p)
    <2>1. PICK i \in Slots \ {w} : price[i] = p
        BY <1>11 DEF IsClearingPrice
    <2>2. i \in 1..n
        BY <1>9, <1>11, <2>1
    <2>3. \A j \in (1..n) \ {w} : offers[j].price <= p
        BY <1>5, <1>11, <1>13 DEF IsClearingPrice
    <2> QED BY <1>12, <1>13, <2>1, <2>2, <2>3 DEF Ideal!IsBestRival
<1> QED BY <1>11, <1>12, <1>14, <1>15, <1>16 DEF offers

\* settle sells the lot.
LEMMA SettleRefines ==
    ASSUME TypeOK, BooksFit, NEW id \in AuctionIds, NEW w \in Slots, NEW p \in Prices,
           NEW x \in Accounts, Settle(id, w, p, x)
    PROVE  \E v \in DOMAIN HouseOf[id].offers : \E i \in DOMAIN HouseOf[id].offers :
                Ideal!Sell(id, v, HouseOf[id].offers[i].price)
<1> DEFINE a == auctions[id]
           lot == View(id, a, now, settlements[id])
           after == View(id, auctions'[id], now, settlements'[id])
           deal == [winner |-> x, winning_price |-> p]
<1>1. /\ DOMAIN HouseOf = AuctionIds /\ HouseOf[id] = lot
      /\ a \in Auction /\ now \in Nat
    BY LotFacts
<1>2. /\ a.status = "Open" /\ now >= a.terms.commit_deadline
      /\ w \in Filled(a) /\ 0 < p /\ p <= a.terms.max_price
      /\ a.bids[w].bidder = x
      /\ Verify(BuildPublicSignals(id, a, w, p, x))
    BY DEF Settle, EnsureOpen
<1>3. /\ auctions'[id] = [a EXCEPT !.status = "Settled"] /\ now' = now
      /\ settlements'[id] = deal
      /\ \A m \in AuctionIds : m # id /\ auctions[m].status = "Settled"
                               => settlements'[m] = settlements[m]
    <2>1. DOMAIN auctions = AuctionIds
        BY DEF TypeOK
    <2>2. /\ auctions' = [auctions EXCEPT ![id].status = "Settled"] /\ now' = now
          /\ settlements' = [i \in DOMAIN settlements \cup {id} |->
                                IF i = id THEN deal ELSE settlements[i]]
        BY DEF Settle
    <2>3. auctions'[id] = [a EXCEPT !.status = "Settled"]
        BY <2>1, <2>2
    <2>4. DOMAIN settlements' = DOMAIN settlements \cup {id} /\ settlements'[id] = deal
        BY <2>2
    <2>5. \A m \in DOMAIN settlements : m # id => settlements'[m] = settlements[m]
        BY <2>2
    <2>6. \A m \in AuctionIds : auctions[m].status = "Settled" => m \in DOMAIN settlements
        BY DEF TypeOK
    <2> QED BY <2>2, <2>3, <2>4, <2>5, <2>6
<1>4. TouchesOnly(id)
    BY SettleFacts
<1>5. auctions'[id].status = "Settled" /\ auctions'[id].terms = a.terms /\ auctions'[id].bids = a.bids
    BY <1>1, <1>3 DEF Auction
<1>6. /\ HouseOf' = [HouseOf EXCEPT ![id] = after]
      /\ after = [lot EXCEPT !.phase = after.phase, !.deal = after.deal,
                             !.custody = after.custody]
    BY <1>3, <1>4, <1>5, StatusStep
<1>7. after.phase = "sold" /\ after.deal = deal /\ after.custody = "winner"
    <2>1. auctions'[id] \in Auction
        BY <1>4 DEF TouchesOnly
    <2>2. after.phase = "sold" /\ after.deal = settlements'[id] /\ after.custody = "winner"
        BY <1>1, <1>5, <2>1, ViewFacts
    <2> QED BY <1>3, <2>2
<1>8. lot.phase = "closed" /\ lot.terms = a.terms /\ lot.offers = Offers(id, a.bids)
    BY <1>1, <1>2, ViewFacts
<1>9. /\ \A i \in DOMAIN lot.offers : lot.offers[i].valid
      /\ Ideal!IsBestOffer(lot.offers, w)
      /\ Ideal!IsBestRival(lot.offers, w, p)
      /\ x \in a.terms.whitelist_root
    <2>1. Len(a.bids) <= MaxBidSlots
        BY DEF BooksFit
    <2>2. p \in Int
        BY PricesAssumption
    <2> HIDE DEF lot, a
    <2> QED BY <1>1, <1>2, <1>8, <2>1, <2>2, ProofIsFairSale
<1>10. w \in DOMAIN lot.offers /\ lot.offers[w].bidder = x
    <2>1. a.bids \in Seq(Bid) /\ w \in 1..Len(a.bids)
        BY <1>1, <1>2 DEF Auction, Filled
    <2>2. lot.offers[w] = OfferOf(id, a.bids[w]) /\ w \in DOMAIN lot.offers
        BY <1>8, <2>1, OffersType
    <2>3. OfferOf(id, a.bids[w]).bidder = a.bids[w].bidder
        BY DEF OfferOf
    <2> QED BY <1>2, <2>2, <2>3
<1> HIDE DEF lot, after, a, deal
<1>11. HouseOf' = [HouseOf EXCEPT ![id].phase = "sold", ![id].deal = deal,
                                  ![id].custody = "winner"]
    BY <1>1, <1>6, <1>7
<1>12. Ideal!Sell(id, w, p)
    BY <1>1, <1>2, <1>8, <1>9, <1>10, <1>11 DEF Ideal!Sell, deal
<1>13. PICK i \in DOMAIN lot.offers : lot.offers[i].price = p
    BY <1>9 DEF Ideal!IsBestRival
<1> QED BY <1>1, <1>10, <1>12, <1>13

-----------------------------------------------------------------------------
(* refund_all, reclaim_lot, create_auction and the clock                   *)

LEMMA RefundRefines ==
    ASSUME TypeOK, NEW id \in AuctionIds, RefundAll(id)
    PROVE  Ideal!CallOff(id)
<1> DEFINE a == auctions[id]
           lot == View(id, a, now, settlements[id])
           after == View(id, auctions'[id], now, settlements'[id])
<1>1. /\ DOMAIN HouseOf = AuctionIds /\ HouseOf[id] = lot
      /\ a \in Auction /\ now \in Nat
    BY LotFacts
<1>2. a.status = "Open" /\ now >= RefundUnlockTime(a)
    BY DEF RefundAll, EnsureOpen
<1>3. now >= a.terms.commit_deadline
    <2>1. /\ a.terms.commit_deadline \in Nat /\ a.terms.commit_deadline <= U64Max
          /\ a.terms.grace_period \in Nat
        BY <1>1, TermsFacts
    <2>2. RefundUnlockTime(a) >= a.terms.commit_deadline /\ RefundUnlockTime(a) \in Nat
        BY <2>1, U64Assumption DEF RefundUnlockTime, SaturatingAdd
    <2> QED BY <1>1, <1>2, <2>1, <2>2
<1>4. /\ TouchesOnly(id) /\ auctions'[id].status = "Refunded" /\ now' = now
      /\ settlements' = settlements
    BY RefundAllFacts DEF RefundAll
<1>5. auctions'[id].terms = a.terms /\ auctions'[id].bids = a.bids
    BY <1>1 DEF RefundAll, Auction, TypeOK
<1>6. auctions'[id] \in Auction
    BY <1>4 DEF TouchesOnly
<1>7. /\ HouseOf' = [HouseOf EXCEPT ![id] = after]
      /\ after = [lot EXCEPT !.phase = after.phase, !.deal = after.deal,
                             !.custody = after.custody]
    BY <1>4, <1>5, StatusStep
<1>8. /\ after.phase = "returned" /\ after.custody \in {"house", "seller"}
      /\ after.deal = EmptyCommitment
    BY <1>1, <1>4, <1>6, ViewFacts
<1>9. lot.phase = "closed" /\ lot.deal = EmptyCommitment
    BY <1>1, <1>2, <1>3, ViewFacts
<1>10. IsLot(lot)
    BY ViewIsLot
<1> HIDE DEF lot, after, a
<1>11. HouseOf' = [HouseOf EXCEPT ![id].phase = "returned", ![id].custody = after.custody]
    <2>1. after = [lot EXCEPT !.phase = "returned", !.custody = after.custody]
        BY <1>7, <1>8, <1>9, <1>10 DEF IsLot
    <2> QED BY <1>1, <1>7, <2>1
<1> QED BY <1>1, <1>8, <1>9, <1>11 DEF Ideal!CallOff

LEMMA ReclaimRefines ==
    ASSUME TypeOK, NEW id \in AuctionIds, ReclaimLot(id)
    PROVE  Ideal!HandBack(id)
<1> DEFINE a == auctions[id]
           lot == View(id, a, now, settlements[id])
           after == View(id, auctions'[id], now, settlements'[id])
<1>1. /\ DOMAIN HouseOf = AuctionIds /\ HouseOf[id] = lot
      /\ a \in Auction /\ now \in Nat
    BY LotFacts
<1>2. a.status = "Refunded" /\ ~a.lot_reclaimed
    BY DEF ReclaimLot, Reclaimable
<1>3. /\ TouchesOnly(id) /\ now' = now /\ settlements' = settlements
      /\ auctions'[id] = [a EXCEPT !.lot_reclaimed = TRUE]
    BY ReclaimLotFacts DEF ReclaimLot, TypeOK
<1>4. /\ auctions'[id].terms = a.terms /\ auctions'[id].bids = a.bids
      /\ auctions'[id].status = "Refunded" /\ auctions'[id].lot_reclaimed = TRUE
    BY <1>1, <1>2, <1>3 DEF Auction
<1>5. auctions'[id] \in Auction
    BY <1>3 DEF TouchesOnly
<1>6. /\ HouseOf' = [HouseOf EXCEPT ![id] = after]
      /\ after = [lot EXCEPT !.phase = after.phase, !.deal = after.deal,
                             !.custody = after.custody]
    BY <1>3, <1>4, StatusStep
<1>7. after.phase = "returned" /\ after.custody = "seller" /\ after.deal = EmptyCommitment
    BY <1>1, <1>4, <1>5, ViewFacts
<1>8. lot.phase = "returned" /\ lot.custody = "house" /\ lot.deal = EmptyCommitment
    BY <1>1, <1>2, ViewFacts
<1>9. IsLot(lot)
    BY ViewIsLot
<1> HIDE DEF lot, after, a
<1>10. HouseOf' = [HouseOf EXCEPT ![id].custody = "seller"]
    <2>1. after = [lot EXCEPT !.custody = "seller"]
        BY <1>6, <1>7, <1>8, <1>9 DEF IsLot
    <2> QED BY <1>1, <1>6, <2>1
<1> QED BY <1>1, <1>8, <1>10 DEF Ideal!HandBack

LEMMA CreateRefines ==
    ASSUME TypeOK, NEW listing \in Listings, CreateAuction(listing)
    PROVE  Ideal!List(listing)
<1> DEFINE n == nextAuctionId
           new == View(n, NewAuction(listing), now, settlements'[n])
<1>1. DOMAIN auctions = AuctionIds /\ DOMAIN HouseOf = AuctionIds
    BY HouseIsView DEF TypeOK
<1>2. n \in 1..MaxAuctions /\ n \notin AuctionIds
    BY BoundsAssumption DEF CreateAuction, TypeOK, AuctionIds
<1>3. /\ auctions' = [m \in AuctionIds \cup {n} |-> IF m = n THEN NewAuction(listing)
                                                     ELSE auctions[m]]
      /\ now' = now /\ settlements' = settlements /\ listing.commit_deadline > now
    BY <1>1 DEF CreateAuction
<1>4. new = Ideal!Lot(listing)
    <2>1. PhaseAt(NewAuction(listing), now) = "bidding"
        <3>1. listing.commit_deadline \in Nat /\ now \in Nat
            BY ListingsAssumption, U64Assumption, BoundsAssumption DEF Listing, TypeOK
        <3> QED BY <1>3, <3>1 DEF PhaseAt, NewAuction
    <2>2. Offers(n, <<>>) = <<>>
        BY DEF Offers
    <2> QED BY <2>1, <2>2 DEF View, NewAuction, LotHeld, Ideal!Lot
<1>5. HouseOf = [m \in AuctionIds |-> View(m, auctions[m], now, settlements[m])]
    BY <1>1, HouseIsView
<1>6. HouseOf' = [m \in AuctionIds \cup {n} |-> View(m, auctions'[m], now, settlements'[m])]
    BY <1>3, HouseIsView
<1>7. auctions'[n] = NewAuction(listing) /\ \A m \in AuctionIds : auctions'[m] = auctions[m]
    BY <1>2, <1>3
<1>8. View(n, auctions'[n], now, settlements'[n]) = new
    BY <1>7
<1> HIDE DEF n, new
<1>9. HouseOf' = [m \in DOMAIN HouseOf \cup {n} |-> IF m = n THEN Ideal!Lot(listing)
                                                     ELSE HouseOf[m]]
    BY <1>1, <1>3, <1>4, <1>5, <1>6, <1>7, <1>8
<1>10. n \in (1..MaxAuctions) \ DOMAIN HouseOf
    BY <1>1, <1>2
<1> QED BY <1>9, <1>10 DEF Ideal!List

\* The tick that reaches deadlines closes those lots, any other shows nothing.
LEMMA TickRefines ==
    ASSUME TypeOK, Tick
    PROVE  HouseOf' = HouseOf \/ \E lots \in SUBSET DOMAIN HouseOf : Ideal!Close(lots)
<1> DEFINE lots == {id \in AuctionIds : /\ auctions[id].status = "Open"
                                       /\ now < auctions[id].terms.commit_deadline
                                       /\ now' >= auctions[id].terms.commit_deadline}
           Before(id) == View(id, auctions[id], now, settlements[id])
           After(id) == View(id, auctions[id], now', settlements[id])
<1>1. DOMAIN auctions = AuctionIds /\ \A id \in AuctionIds : auctions[id] \in Auction
    BY DEF TypeOK
<1>2. now \in Nat /\ now' \in Nat /\ now' = now + 1
    BY BoundsAssumption DEF Tick, TypeOK
<1>3. HouseOf = [id \in AuctionIds |-> Before(id)] /\ HouseOf' = [id \in AuctionIds |-> After(id)]
    BY <1>1, HouseIsView DEF Tick
<1>4. \A id \in lots : /\ Before(id).phase = "bidding"
                       /\ After(id) = [Before(id) EXCEPT !.phase = "closed"]
    <2> SUFFICES ASSUME NEW id \in lots
                 PROVE  /\ Before(id).phase = "bidding"
                        /\ After(id) = [Before(id) EXCEPT !.phase = "closed"]
        OBVIOUS
    <2>1. Before(id).phase = "bidding" /\ After(id).phase = "closed"
        BY <1>1, <1>2, ViewFacts
    <2>2. /\ Before(id).terms = After(id).terms /\ Before(id).offers = After(id).offers
          /\ Before(id).deal = After(id).deal /\ Before(id).custody = After(id).custody
        BY DEF View
    <2>3. IsLot(Before(id)) /\ IsLot(After(id))
        BY ViewIsLot
    <2> HIDE DEF Before, After
    <2> QED BY <2>1, <2>2, <2>3 DEF IsLot
<1>5. \A id \in AuctionIds : id \notin lots => After(id) = Before(id)
    <2> SUFFICES ASSUME NEW id \in AuctionIds, id \notin lots PROVE After(id) = Before(id)
        OBVIOUS
    <2>1. auctions[id].terms.commit_deadline \in Nat
        BY <1>1, TermsFacts
    <2>2. PhaseAt(auctions[id], now') = PhaseAt(auctions[id], now)
        BY <1>2, <2>1 DEF PhaseAt
    <2> QED BY <2>2 DEF View
<1>6. lots \in SUBSET AuctionIds
    OBVIOUS
<1> HIDE DEF lots, Before, After
<1>7. CASE lots = {}
    BY <1>3, <1>5, <1>7
<1>8. CASE lots # {}
    <2>1. DOMAIN HouseOf = AuctionIds /\ \A id \in AuctionIds : HouseOf[id] = Before(id)
        BY <1>3
    <2>2. HouseOf' = [id \in DOMAIN HouseOf |->
                        IF id \in lots THEN [HouseOf[id] EXCEPT !.phase = "closed"]
                        ELSE HouseOf[id]]
        BY <1>3, <1>4, <1>5, <1>6, <2>1
    <2>3. \A id \in lots : HouseOf[id].phase = "bidding"
        BY <1>4, <1>6, <2>1
    <2>4. Ideal!Close(lots)
        BY <1>8, <2>2, <2>3 DEF Ideal!Close
    <2> QED BY <1>6, <2>1, <2>4
<1> QED BY <1>7, <1>8

-----------------------------------------------------------------------------
\* No invocation puts a bid past the last slot.
LEMMA BooksFitStep ==
    ASSUME TypeOK, BooksFit, [Next]_vars
    PROVE  BooksFit'
<1>1. DOMAIN auctions = AuctionIds /\ \A id \in AuctionIds : auctions[id] \in Auction
    BY DEF TypeOK
<1>2. ASSUME NEW listing \in Listings, CreateAuction(listing) PROVE BooksFit'
    <2>1. AuctionIds' = AuctionIds \cup {nextAuctionId}
        BY <1>2, CreateAuctionFacts
    <2>2. auctions' = [id \in AuctionIds \cup {nextAuctionId} |->
                        IF id = nextAuctionId THEN NewAuction(listing) ELSE auctions[id]]
        BY <1>1, <1>2 DEF CreateAuction
    <2>3. Len(NewAuction(listing).bids) = 0
        BY DEF NewAuction
    <2> QED BY <2>1, <2>2, <2>3, SlotsAssumption DEF BooksFit
<1>3. ASSUME NEW id \in AuctionIds, NEW bidder \in Accounts,
             NEW commitment \in SealedBids \cup {EmptyCommitment}, NEW len,
             PlaceBid(id, bidder, commitment, len)
      PROVE  BooksFit'
    <2>1. AuctionIds' = AuctionIds /\ Len(auctions[id].bids) < MaxBidSlots
        BY <1>3 DEF PlaceBid, AuctionIds
    <2>2. \A i \in AuctionIds : i # id => auctions'[i] = auctions[i]
        BY <1>3, PlaceBidFacts DEF TouchesOnly
    <2>3. /\ auctions'[id].bids = Append(auctions[id].bids, [bidder |-> bidder, commitment |-> commitment])
          /\ commitment \in SealedBids
        BY <1>1, <1>3 DEF PlaceBid, AcceptsCommitment, Auction
    <2>4. auctions[id].bids \in Seq(Bid) /\ [bidder |-> bidder, commitment |-> commitment] \in Bid
        BY <1>1, <2>3 DEF Auction, Bid
    <2>5. Len(auctions'[id].bids) <= MaxBidSlots
        BY <2>1, <2>3, <2>4, SlotsAssumption
    <2> QED BY <2>1, <2>2, <2>5 DEF BooksFit
<1>4. ASSUME AuctionIds' = AuctionIds,
             \A id \in AuctionIds : auctions'[id].bids = auctions[id].bids
      PROVE  BooksFit'
    BY <1>4 DEF BooksFit
<1>5. ASSUME NEW id \in AuctionIds,
             \/ \E w \in Slots, p \in Prices, x \in Accounts : Settle(id, w, p, x)
             \/ RefundAll(id)
             \/ ReclaimLot(id)
      PROVE  BooksFit'
    <2>1. AuctionIds' = AuctionIds
        BY <1>5 DEF Settle, RefundAll, ReclaimLot, AuctionIds
    <2>2. TouchesOnly(id)
        BY <1>5, SettleFacts, RefundAllFacts, ReclaimLotFacts
    <2>3. auctions'[id].bids = auctions[id].bids
        <3>1. ASSUME NEW w \in Slots, NEW p \in Prices, NEW x \in Accounts, Settle(id, w, p, x)
              PROVE  auctions'[id].bids = auctions[id].bids
            BY <1>1, <3>1 DEF Settle, Auction
        <3>2. CASE RefundAll(id)
            BY <1>1, <3>2 DEF RefundAll, Auction
        <3>3. CASE ReclaimLot(id)
            BY <1>1, <3>3 DEF ReclaimLot, Auction
        <3> QED BY <1>5, <3>1, <3>2, <3>3
    <2>4. \A i \in AuctionIds : auctions'[i].bids = auctions[i].bids
        BY <2>2, <2>3 DEF TouchesOnly
    <2> QED BY <1>4, <2>1, <2>4
<1>6. CASE Environment
    BY <1>4, <1>6 DEF Environment, Tick, StartTrapping, StopTrapping, StartRefusing, StopRefusing,
                      AuctionIds
<1>7. CASE UNCHANGED vars
    BY <1>4, <1>7 DEF vars, AuctionIds
<1> QED BY <1>1, <1>2, <1>3, <1>5, <1>6, <1>7 DEF Next, ContractCall

\* Every step of the contract is a step of the trusted house, or shows nothing.
LEMMA StepRefines ==
    ASSUME TypeOK, BooksFit, [Next]_vars
    PROVE  [Ideal!Next]_HouseOf
<1>1. DOMAIN auctions = AuctionIds /\ DOMAIN HouseOf = AuctionIds
    BY HouseIsView DEF TypeOK
<1>2. ASSUME NEW listing \in Listings, CreateAuction(listing) PROVE Ideal!Next
    BY <1>2, CreateRefines DEF Ideal!Next
<1>3. ASSUME NEW id \in AuctionIds, NEW bidder \in Accounts,
             NEW commitment \in SealedBids \cup {EmptyCommitment}, NEW len,
             PlaceBid(id, bidder, commitment, len)
      PROVE  Ideal!Next
    BY <1>1, <1>3, BidRefines DEF Ideal!Next
<1>4. ASSUME NEW id \in AuctionIds, NEW w \in Slots, NEW p \in Prices, NEW x \in Accounts,
             Settle(id, w, p, x)
      PROVE  Ideal!Next
    BY <1>1, <1>4, SettleRefines DEF Ideal!Next
<1>5. ASSUME NEW id \in AuctionIds, RefundAll(id) PROVE Ideal!Next
    BY <1>1, <1>5, RefundRefines DEF Ideal!Next
<1>6. ASSUME NEW id \in AuctionIds, ReclaimLot(id) PROVE Ideal!Next
    BY <1>1, <1>6, ReclaimRefines DEF Ideal!Next
<1>7. CASE Tick
    BY <1>7, TickRefines DEF Ideal!Next
<1>8. ASSUME UNCHANGED <<now, auctions, settlements>> PROVE HouseOf' = HouseOf
    BY <1>8, HouseIsView
<1>9. CASE Environment
    BY <1>7, <1>8, <1>9
       DEF Environment, StartTrapping, StopTrapping, StartRefusing, StopRefusing
<1>10. CASE UNCHANGED vars
    BY <1>8, <1>10 DEF vars
<1> QED BY <1>1, <1>2, <1>3, <1>4, <1>5, <1>6, <1>9, <1>10 DEF Next, ContractCall

\* The contract (create_auction, place_bid, settle, refund_all, reclaim_lot, for
\* any number of auctions, bidders, slots and tokens) is the trusted auction
\* house: each lot is sold at most once, to the highest sealed price at the
\* best rival price, on the terms it was listed under, and no outcome is ever
\* revised.
THEOREM ContractIsTheIdealAuction == Spec => ImplementsIdealAuction
<1>1. Init => BooksFit /\ Ideal!Init
    BY HouseIsView DEF Init, BooksFit, AuctionIds, Ideal!Init
<1>2. TypeOK /\ BooksFit /\ [Next]_vars => BooksFit'
    BY BooksFitStep
<1>3. TypeOK /\ BooksFit /\ [Next]_vars => [Ideal!Next]_HouseOf
    BY StepRefines
<1> QED BY <1>1, <1>2, <1>3, TypeCorrect, PTL DEF Spec, ImplementsIdealAuction, Ideal!Spec
=============================================================================
