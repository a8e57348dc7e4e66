---------------------------- MODULE IdealAuction ----------------------------
(***************************************************************************)
(* What the contract promises: the auction house everyone could trust.     *)
(* The auctioneer sees every sealed price, sells each lot at most once, to *)
(* the highest offer (the earliest one on a tie) at the best price anyone  *)
(* else offered, and otherwise hands the lot back to its seller.  There    *)
(* are no proofs, commitments, tokens or clocks here; module SealedAuction *)
(* is shown to implement this one.                                         *)
(***************************************************************************)
EXTENDS Integers, Sequences

CONSTANTS
    Bidders,
    Terms,          \* terms of sale, with fields max_price and whitelist_root
    MaxOffers,
    OfferPrices,
    LotNumbers,
    NoSale          \* the deal of a lot that is not sold

VARIABLE
    house           \* lots listed so far, by number

Offer == [bidder : Bidders, price : OfferPrices, valid : BOOLEAN]

Lot(terms) ==
    [terms |-> terms, phase |-> "bidding", offers |-> <<>>, deal |-> NoSale,
     custody |-> "house"]

IsBestOffer(offers, w) ==
    /\ w \in DOMAIN offers
    /\ \A i \in DOMAIN offers :
        /\ offers[i].price <= offers[w].price
        /\ i < w => offers[i].price < offers[w].price

IsBestRival(offers, w, price) ==
    /\ \E i \in DOMAIN offers \ {w} : offers[i].price = price
    /\ \A i \in DOMAIN offers \ {w} : offers[i].price <= price

Init == house = [n \in {} |-> n]

List(terms) ==
    \E n \in LotNumbers \ DOMAIN house :
        house' = [m \in DOMAIN house \cup {n} |-> IF m = n THEN Lot(terms) ELSE house[m]]

Bid(n, offer) ==
    /\ house[n].phase = "bidding"
    /\ Len(house[n].offers) < MaxOffers
    /\ house' = [house EXCEPT ![n].offers = Append(@, offer)]

\* One instant may close the bidding on several lots.
Close(lots) ==
    /\ lots # {}
    /\ \A n \in lots : house[n].phase = "bidding"
    /\ house' = [n \in DOMAIN house |-> IF n \in lots THEN [house[n] EXCEPT !.phase = "closed"]
                                        ELSE house[n]]

\* One offer that cannot be opened leaves the lot unsellable.
Sell(n, w, price) ==
    LET lot == house[n] IN
    /\ lot.phase = "closed"
    /\ \A i \in DOMAIN lot.offers : lot.offers[i].valid
    /\ IsBestOffer(lot.offers, w)
    /\ IsBestRival(lot.offers, w, price)
    /\ 0 < price /\ price <= lot.terms.max_price
    /\ lot.offers[w].bidder \in lot.terms.whitelist_root
    /\ house' = [house EXCEPT ![n].phase = "sold",
                              ![n].deal = [winner |-> lot.offers[w].bidder,
                                           winning_price |-> price],
                              ![n].custody = "winner"]

CallOff(n) ==
    /\ house[n].phase = "closed"
    /\ \E place \in {"house", "seller"} :
        house' = [house EXCEPT ![n].phase = "returned", ![n].custody = place]

HandBack(n) ==
    /\ house[n].phase = "returned"
    /\ house[n].custody = "house"
    /\ house' = [house EXCEPT ![n].custody = "seller"]

Next ==
    \/ \E terms \in Terms : List(terms)
    \/ \E lots \in SUBSET DOMAIN house : Close(lots)
    \/ \E n \in DOMAIN house :
        \/ \E offer \in Offer : Bid(n, offer)
        \/ \E w \in DOMAIN house[n].offers : \E i \in DOMAIN house[n].offers :
                Sell(n, w, house[n].offers[i].price)
        \/ CallOff(n)
        \/ HandBack(n)

Spec == Init /\ [][Next]_house
=============================================================================
