------------------------- MODULE SealedAuctionProofs --------------------------
(***************************************************************************)
(* The contract, for every number of auctions, accounts, tokens and slots  *)
(* and for every behaviour of the tokens' issuers: type correctness and    *)
(* solvency; what settle and refund_all may decide, for every book; and    *)
(* that nobody is ever poorer than the rules of the auction make them.     *)
(***************************************************************************)
EXTENDS SealedAuction, AuctionWinnerProofs

Balances == [Tokens -> [Holders -> Nat]]

-----------------------------------------------------------------------------
(* Lemmas about the helpers.                                               *)

\* A covered transfer between two holders keeps balances natural numbers and
\* moves the amount.
LEMMA TransferFacts ==
    ASSUME NEW bal \in Balances, NEW token \in Tokens, NEW from \in Holders, NEW to \in Holders,
           from # to, NEW amount \in Nat, bal[token][from] >= amount
    PROVE  /\ Transfer(bal, token, from, to, amount) \in Balances
           /\ Transfer(bal, token, from, to, amount)[token][from] = bal[token][from] - amount
           /\ Transfer(bal, token, from, to, amount)[token][to] = bal[token][to] + amount
           /\ \A t \in Tokens, h \in Holders :
                t # token \/ (h # from /\ h # to) =>
                    Transfer(bal, token, from, to, amount)[t][h] = bal[t][h]
<1>1. \A h \in Holders : bal[token][h] \in Nat
    BY DEF Balances
<1>2. [h \in Holders |-> IF h = from THEN bal[token][h] - amount
                         ELSE IF h = to THEN bal[token][h] + amount
                         ELSE bal[token][h]] \in [Holders -> Nat]
    BY <1>1
<1> QED BY <1>1, <1>2 DEF Transfer, Balances

\* A covered payout from escrow does the same.
LEMMA PayOutFacts ==
    ASSUME balance \in Balances, NEW token \in Tokens, NEW credit \in [Accounts -> Nat],
           NEW total \in Nat, CanPayOut(token, credit, total)
    PROVE  /\ PayOut(token, credit, total) \in Balances
           /\ PayOut(token, credit, total)[token][Escrow] = balance[token][Escrow] - total
           /\ \A t \in Tokens : t # token =>
                PayOut(token, credit, total)[t][Escrow] = balance[t][Escrow]
<1>1. \A h \in Holders : balance[token][h] \in Nat
    BY DEF Balances
<1>2. Escrow \in Holders /\ \A h \in Holders : h # Escrow => h \in Accounts
    BY DEF Holders
<1>3. balance[token][Escrow] >= total
    BY DEF CanPayOut
<1>4. [h \in Holders |-> IF h = Escrow THEN balance[token][h] - total
                         ELSE balance[token][h] + credit[h]] \in [Holders -> Nat]
    BY <1>1, <1>2, <1>3
<1> QED BY <1>1, <1>2, <1>4 DEF PayOut, Balances

\* How many deposits a bidder has, and how many lose.
LEMMA SlotFacts ==
    ASSUME NEW a \in Auction
    PROVE  /\ \A x \in Accounts : Cardinality(SlotsOf(a, x)) \in Nat
           /\ \A x \in Accounts : \A w : Cardinality(SlotsOf(a, x) \ {w}) \in Nat
           /\ \A w \in Filled(a) : Cardinality(Filled(a) \ {w}) = Len(a.bids) - 1
<1>1. Len(a.bids) \in Nat
    BY DEF Auction
<1>2. IsFiniteSet(Filled(a)) /\ Cardinality(Filled(a)) = Len(a.bids)
    BY <1>1, FS_Interval DEF Filled
<1>3. \A x \in Accounts : IsFiniteSet(SlotsOf(a, x))
    <2>1. \A x \in Accounts : SlotsOf(a, x) \in SUBSET Filled(a)
        BY DEF SlotsOf
    <2> QED BY <1>2, <2>1, FS_Subset
<1>4. \A x \in Accounts : \A w : IsFiniteSet(SlotsOf(a, x) \ {w})
    BY <1>3, FS_RemoveElement
<1> QED BY <1>2, <1>3, <1>4, FS_CardinalityType, FS_RemoveElement

\* An auction's stored terms are those create_auction accepted.
LEMMA TermsFacts ==
    ASSUME NEW a \in Auction
    PROVE  /\ a.terms.lot_amount \in Nat \ {0}
           /\ a.terms.max_price \in Nat \ {0}
           /\ a.terms.rwa_token \in Tokens
           /\ a.terms.payment_token \in Tokens
           /\ a.terms.seller \in Accounts
           /\ a.terms.commit_deadline \in Nat /\ a.terms.commit_deadline <= U64Max
           /\ a.terms.grace_period \in Nat
           /\ Len(a.bids) \in Nat
           /\ \A i \in Filled(a) : a.bids[i].bidder \in Accounts
<1>1. a.terms \in AcceptedListings /\ a.bids \in Seq(Bid)
    BY DEF Auction
<1>2. a.terms \in Listing /\ a.terms.lot_amount > 0 /\ a.terms.max_price > 0
    BY <1>1, ListingsAssumption DEF AcceptedListings
<1>3. \A i \in Filled(a) : a.bids[i] \in Bid
    BY <1>1 DEF Filled
<1>4. a.terms.commit_deadline \in 0..U64Max /\ a.terms.grace_period \in 0..U64Max
    BY <1>2 DEF Listing
<1> QED BY <1>1, <1>2, <1>3, <1>4, U64Assumption DEF Listing, Bid

\* What is owed for an auction, by status.
LEMMA OwedFacts ==
    ASSUME NEW a \in Auction, NEW t \in Tokens
    PROVE  /\ Owed(a, t) \in Nat
           /\ a.status = "Open" =>
                Owed(a, t) = (IF t = a.terms.payment_token
                              THEN a.terms.max_price * Len(a.bids) ELSE 0)
                             + (IF t = a.terms.rwa_token THEN a.terms.lot_amount ELSE 0)
           /\ a.status = "Settled" => Owed(a, t) = 0
           /\ a.status = "Refunded" =>
                Owed(a, t) = IF t = a.terms.rwa_token /\ ~a.lot_reclaimed
                             THEN a.terms.lot_amount ELSE 0
<1>1. /\ a.terms.lot_amount \in Nat /\ a.terms.max_price \in Nat /\ Len(a.bids) \in Nat
    BY TermsFacts
<1>2. a.terms.max_price * Len(a.bids) \in Nat
    BY <1>1
<1> DEFINE deposits == a.terms.max_price * Len(a.bids)
<1>3. Owed(a, t) =
        (IF a.status = "Open" /\ a.terms.payment_token = t THEN deposits ELSE 0)
        + (IF LotHeld(a) /\ a.terms.rwa_token = t THEN a.terms.lot_amount ELSE 0)
    BY DEF Owed
<1>4. /\ a.status = "Open" => LotHeld(a)
      /\ a.status = "Settled" => ~LotHeld(a)
      /\ a.status = "Refunded" => (LotHeld(a) <=> ~a.lot_reclaimed)
    BY DEF LotHeld
<1>5. deposits \in Nat
    BY <1>2
<1> HIDE DEF deposits
<1>6. Owed(a, t) \in Nat
    BY <1>1, <1>3, <1>5
<1>7. a.status = "Open" =>
        Owed(a, t) = (IF t = a.terms.payment_token THEN deposits ELSE 0)
                     + (IF t = a.terms.rwa_token THEN a.terms.lot_amount ELSE 0)
    BY <1>1, <1>3, <1>4, <1>5
<1>8. a.status = "Settled" => Owed(a, t) = 0
    BY <1>1, <1>3, <1>4, <1>5
<1>9. a.status = "Refunded" =>
        Owed(a, t) = IF t = a.terms.rwa_token /\ ~a.lot_reclaimed
                     THEN a.terms.lot_amount ELSE 0
    BY <1>1, <1>3, <1>4, <1>5
<1> QED BY <1>6, <1>7, <1>8, <1>9 DEF deposits

-----------------------------------------------------------------------------
(* Each successful invocation, in the terms the invariants use: the escrow *)
(* balance moves by what the auction it touches is owed.                   *)

\* No entry of the map but one changes, and that one stays an auction.
TouchesOnly(id) ==
    /\ auctions' \in [AuctionIds -> Auction]
    /\ \A i \in AuctionIds : i # id => auctions'[i] = auctions[i]

\* The escrow of every token follows what the pool owes for the auction.
EscrowFollows(id) ==
    \A t \in Tokens :
        balance'[t][Escrow] - balance[t][Escrow]
            = Owed(auctions'[id], t) - Owed(auctions[id], t)

\* place_bid: one deposit comes in and one more is owed.
LEMMA PlaceBidFacts ==
    ASSUME TypeOK, NEW id \in AuctionIds, NEW bidder \in Accounts,
           NEW commitment \in SealedBids \cup {EmptyCommitment}, NEW len,
           PlaceBid(id, bidder, commitment, len)
    PROVE  balance' \in Balances /\ TouchesOnly(id) /\ EscrowFollows(id)
           /\ auctions'[id].status = "Open" /\ auctions[id].status = "Open"
<1> DEFINE a == auctions[id]
           b == [bidder |-> bidder, commitment |-> commitment]
<1>1. a \in Auction /\ balance \in Balances
    BY DEF TypeOK, Balances
<1>2. a.status = "Open" /\ commitment # EmptyCommitment
    BY DEF PlaceBid, EnsureOpen, AcceptsCommitment
<1>3. b \in Bid /\ Append(a.bids, b) \in Seq(Bid) /\ Len(Append(a.bids, b)) = Len(a.bids) + 1
    BY <1>1, <1>2 DEF Bid, Auction
<1>4. auctions' = [auctions EXCEPT ![id].bids = Append(a.bids, b)]
    BY DEF PlaceBid
<1>5. auctions'[id] = [a EXCEPT !.bids = Append(a.bids, b)]
    BY <1>4 DEF TypeOK
<1>6. TouchesOnly(id)
    <2>1. [a EXCEPT !.bids = Append(a.bids, b)] \in Auction
        BY <1>1, <1>3 DEF Auction
    <2> HIDE DEF a, b
    <2> QED BY <1>4, <1>5, <2>1 DEF TouchesOnly, TypeOK
<1>7. /\ balance' \in Balances
      /\ \A t \in Tokens : balance'[t][Escrow] =
            IF t = a.terms.payment_token THEN balance[t][Escrow] + a.terms.max_price
            ELSE balance[t][Escrow]
    <2>1. /\ balance' = Transfer(balance, a.terms.payment_token, bidder, Escrow, a.terms.max_price)
          /\ balance[a.terms.payment_token][bidder] >= a.terms.max_price
        BY DEF PlaceBid, CanTransfer
    <2>2. bidder \in Holders /\ Escrow \in Holders /\ bidder # Escrow
        BY EscrowAssumption DEF Holders
    <2>3. a.terms.payment_token \in Tokens /\ a.terms.max_price \in Nat
        BY <1>1, TermsFacts
    <2> HIDE DEF a
    <2> QED BY <1>1, <2>1, <2>2, <2>3, TransferFacts
<1>8. EscrowFollows(id)
    <2>1. a.terms.max_price * (Len(a.bids) + 1)
            = a.terms.max_price * Len(a.bids) + a.terms.max_price
        BY <1>1, TermsFacts
    <2>2. \A t \in Tokens : Owed(auctions'[id], t) - Owed(a, t) =
            IF t = a.terms.payment_token THEN a.terms.max_price ELSE 0
        <3>1. /\ auctions'[id] \in Auction
              /\ auctions'[id].terms = a.terms /\ auctions'[id].status = "Open"
              /\ Len(auctions'[id].bids) = Len(a.bids) + 1
            BY <1>1, <1>2, <1>3, <1>5 DEF Auction
        <3>2. /\ a.terms.max_price \in Nat /\ a.terms.lot_amount \in Nat
              /\ a.terms.max_price * Len(a.bids) \in Nat
            BY <1>1, TermsFacts
        <3>3. TAKE t \in Tokens
        <3>4. Owed(a, t) = (IF t = a.terms.payment_token
                            THEN a.terms.max_price * Len(a.bids) ELSE 0)
                           + (IF t = a.terms.rwa_token THEN a.terms.lot_amount ELSE 0)
            BY <1>1, <1>2, OwedFacts
        <3>5. Owed(auctions'[id], t) =
                    (IF t = a.terms.payment_token
                     THEN a.terms.max_price * Len(a.bids) + a.terms.max_price ELSE 0)
                    + (IF t = a.terms.rwa_token THEN a.terms.lot_amount ELSE 0)
            <4> HIDE DEF a, b
            <4> QED BY <3>1, <2>1, OwedFacts
        <3> HIDE DEF a, b
        <3> QED BY <3>2, <3>4, <3>5
    <2>3. \A t \in Tokens : balance[t][Escrow] \in Nat
        BY <1>1 DEF Balances, Holders
    <2>4. a.terms.max_price \in Nat
        BY <1>1, TermsFacts
    <2> HIDE DEF a, b
    <2> QED BY <1>7, <2>2, <2>3, <2>4 DEF EscrowFollows, a
<1> QED BY <1>1, <1>2, <1>5, <1>6, <1>7, <1>8 DEF Auction

\* settle: the whole of what is owed goes out, the deposits and the lot.
LEMMA SettleFacts ==
    ASSUME TypeOK, NEW id \in AuctionIds, NEW w \in Slots, NEW p \in Prices,
           NEW x \in Accounts, Settle(id, w, p, x)
    PROVE  /\ balance' \in Balances /\ TouchesOnly(id) /\ EscrowFollows(id)
           /\ auctions[id].status = "Open" /\ auctions'[id].status = "Settled"
<1> DEFINE a == auctions[id]
           pay == a.terms.payment_token
           rwa == a.terms.rwa_token
           lot == a.terms.lot_amount
           credit == SettleCredit(a, w, p)
           total == SettleTotal(a, w, p)
           paid == PayOut(pay, credit, total)
<1>1. a \in Auction /\ balance \in Balances
    BY DEF TypeOK, Balances
<1>2. /\ a.status = "Open" /\ w \in Filled(a) /\ p > 0 /\ p <= a.terms.max_price
      /\ CanPayOut(pay, credit, total) /\ CanTransfer(paid, rwa, Escrow, x, lot)
      /\ auctions' = [auctions EXCEPT ![id].status = "Settled"]
      /\ balance' = Transfer(paid, rwa, Escrow, x, lot)
    BY DEF Settle, EnsureOpen
<1>3. /\ pay \in Tokens /\ rwa \in Tokens /\ lot \in Nat /\ a.terms.max_price \in Nat
      /\ Len(a.bids) \in Nat /\ p \in Nat /\ a.terms.max_price - p \in Nat
    BY <1>1, <1>2, TermsFacts, PricesAssumption
<1>4. credit \in [Accounts -> Nat]
    <2>1. \A y \in Accounts : Cardinality(SlotsOf(a, y) \ {w}) \in Nat
        BY <1>1, SlotFacts
    <2>2. \A y \in Accounts : a.terms.max_price * Cardinality(SlotsOf(a, y) \ {w}) \in Nat
        BY <1>3, <2>1
    <2> DEFINE lost(y) == a.terms.max_price * Cardinality(SlotsOf(a, y) \ {w})
               sold(y) == IF y = a.terms.seller THEN p ELSE 0
               won(y) == IF y = a.bids[w].bidder THEN a.terms.max_price - p ELSE 0
    <2>3. \A y \in Accounts : lost(y) \in Nat /\ sold(y) \in Nat /\ won(y) \in Nat
        BY <1>3, <2>2
    <2>4. credit = [y \in Accounts |-> sold(y) + won(y) + lost(y)]
        BY DEF SettleCredit
    <2> HIDE DEF lost, sold, won, credit
    <2>5. \A y \in Accounts : sold(y) + won(y) + lost(y) \in Nat
        BY <2>3
    <2> QED BY <2>4, <2>5
<1>5. total = a.terms.max_price * Len(a.bids) /\ total \in Nat
    <2>1. Cardinality(Filled(a) \ {w}) = Len(a.bids) - 1
        BY <1>1, <1>2, SlotFacts
    <2>2. Len(a.bids) >= 1
        BY <1>2, <1>3 DEF Filled
    <2>3. total = p + (a.terms.max_price - p) + a.terms.max_price * (Len(a.bids) - 1)
        BY <2>1 DEF SettleTotal
    <2>4. a.terms.max_price * (Len(a.bids) - 1)
            = a.terms.max_price * Len(a.bids) - a.terms.max_price
        <3> DEFINE m == a.terms.max_price
                   n == Len(a.bids)
        <3>1. m \in Nat /\ n \in Nat
            BY <1>3
        <3> HIDE DEF m, n
        <3>2. m * (n - 1) = m * n - m
            BY <3>1
        <3> QED BY <3>2 DEF m, n
    <2>5. a.terms.max_price * Len(a.bids) \in Nat
        BY <1>3
    <2> DEFINE m == a.terms.max_price
               product == a.terms.max_price * Len(a.bids)
    <2>6. total = p + (m - p) + (product - m)
        BY <2>3, <2>4
    <2>7. m \in Nat /\ product \in Nat
        BY <1>3, <2>5
    <2>8. total = product
        <3> HIDE DEF m, product, total
        <3> QED BY <1>3, <2>6, <2>7
    <2> QED BY <2>7, <2>8
<1>6. /\ paid \in Balances
      /\ paid[pay][Escrow] = balance[pay][Escrow] - total
      /\ \A t \in Tokens : t # pay => paid[t][Escrow] = balance[t][Escrow]
    <2> HIDE DEF pay, credit, total
    <2> QED BY <1>1, <1>2, <1>3, <1>4, <1>5, PayOutFacts
<1>7. /\ balance' \in Balances
      /\ balance'[rwa][Escrow] = paid[rwa][Escrow] - lot
      /\ \A t \in Tokens : t # rwa => balance'[t][Escrow] = paid[t][Escrow]
    <2>1. Escrow \in Holders /\ x \in Holders /\ Escrow # x
        BY EscrowAssumption DEF Holders
    <2>2. paid[rwa][Escrow] >= lot
        BY <1>2 DEF CanTransfer
    <2> HIDE DEF paid, rwa, lot
    <2> QED BY <1>2, <1>3, <1>6, <2>1, <2>2, TransferFacts
<1>8. auctions'[id] = [a EXCEPT !.status = "Settled"] /\ auctions'[id] \in Auction
    BY <1>1, <1>2 DEF TypeOK, Auction, Statuses
<1>9. TouchesOnly(id)
    <2> HIDE DEF a
    <2> QED BY <1>2, <1>8 DEF TouchesOnly, TypeOK
<1>10. EscrowFollows(id)
    <2> SUFFICES ASSUME NEW t \in Tokens
                 PROVE  balance'[t][Escrow] - balance[t][Escrow]
                            = Owed(auctions'[id], t) - Owed(a, t)
        BY DEF EscrowFollows
    <2>1. Owed(auctions'[id], t) = 0
        BY <1>1, <1>8, OwedFacts DEF Auction
    <2>2. Owed(a, t) = (IF t = pay THEN total ELSE 0) + (IF t = rwa THEN lot ELSE 0)
        BY <1>1, <1>2, <1>5, OwedFacts
    <2>3. balance[t][Escrow] \in Nat
        BY <1>1 DEF Balances, Holders
    <2>4. paid[t][Escrow] = balance[t][Escrow] - (IF t = pay THEN total ELSE 0)
        <3> HIDE DEF paid, pay, total
        <3> QED BY <1>6, <2>3
    <2>5. balance'[t][Escrow] = paid[t][Escrow] - (IF t = rwa THEN lot ELSE 0)
        <3> HIDE DEF paid, rwa, lot
        <3>1. paid[t][Escrow] \in Nat
            BY <1>6 DEF Balances, Holders
        <3> QED BY <1>7, <3>1
    <2>6. total \in Nat /\ lot \in Nat
        BY <1>3, <1>5
    <2> HIDE DEF a, pay, rwa, lot, total, paid
    <2> QED BY <2>1, <2>2, <2>3, <2>4, <2>5, <2>6
<1> QED BY <1>1, <1>2, <1>7, <1>8, <1>9, <1>10 DEF Auction

\* refund_all: the deposits go out, and the lot if its transfer goes through.
LEMMA RefundAllFacts ==
    ASSUME TypeOK, NEW id \in AuctionIds, RefundAll(id)
    PROVE  /\ balance' \in Balances /\ TouchesOnly(id) /\ EscrowFollows(id)
           /\ auctions[id].status = "Open" /\ auctions'[id].status = "Refunded"
<1> DEFINE a == auctions[id]
           pay == a.terms.payment_token
           rwa == a.terms.rwa_token
           lot == a.terms.lot_amount
           seller == a.terms.seller
           credit == RefundCredit(a)
           total == RefundTotal(a)
           paid == PayOut(pay, credit, total)
           returns == CanTransfer(paid, rwa, Escrow, seller, lot)
<1>1. a \in Auction /\ balance \in Balances
    BY DEF TypeOK, Balances
<1>2. /\ a.status = "Open" /\ CanPayOut(pay, credit, total)
      /\ auctions' = [auctions EXCEPT ![id].status = "Refunded", ![id].lot_reclaimed = returns]
      /\ balance' = IF returns THEN Transfer(paid, rwa, Escrow, seller, lot) ELSE paid
    BY DEF RefundAll, EnsureOpen, DepositsReturnable
<1>3. /\ pay \in Tokens /\ rwa \in Tokens /\ lot \in Nat /\ a.terms.max_price \in Nat
      /\ Len(a.bids) \in Nat /\ seller \in Accounts
    BY <1>1, TermsFacts
<1>4. credit \in [Accounts -> Nat]
    <2>1. \A y \in Accounts : Cardinality(SlotsOf(a, y)) \in Nat
        BY <1>1, SlotFacts
    <2>2. \A y \in Accounts : a.terms.max_price * Cardinality(SlotsOf(a, y)) \in Nat
        BY <1>3, <2>1
    <2> QED BY <2>2 DEF RefundCredit
<1>5. total = a.terms.max_price * Len(a.bids) /\ total \in Nat
    BY <1>3 DEF RefundTotal
<1>6. /\ paid \in Balances
      /\ paid[pay][Escrow] = balance[pay][Escrow] - total
      /\ \A t \in Tokens : t # pay => paid[t][Escrow] = balance[t][Escrow]
    <2> HIDE DEF pay, credit, total
    <2> QED BY <1>1, <1>2, <1>3, <1>4, <1>5, PayOutFacts
<1>7. /\ balance' \in Balances
      /\ balance'[rwa][Escrow] = paid[rwa][Escrow] - (IF returns THEN lot ELSE 0)
      /\ \A t \in Tokens : t # rwa => balance'[t][Escrow] = paid[t][Escrow]
    <2>1. Escrow \in Holders /\ seller \in Holders /\ Escrow # seller
        BY <1>3, EscrowAssumption DEF Holders
    <2>2. returns => paid[rwa][Escrow] >= lot
        BY DEF CanTransfer
    <2>3. paid[rwa][Escrow] \in Nat
        BY <1>3, <1>6, <2>1 DEF Balances
    <2> HIDE DEF paid, rwa, lot, seller, returns
    <2>4. CASE returns
        BY <1>2, <1>3, <1>6, <2>1, <2>2, <2>4, TransferFacts
    <2>5. CASE ~returns
        BY <1>2, <1>6, <2>3, <2>5
    <2> QED BY <2>4, <2>5
<1>8. /\ auctions'[id] \in Auction
      /\ auctions'[id].terms = a.terms
      /\ auctions'[id].status = "Refunded"
      /\ auctions'[id].lot_reclaimed = returns
    <2>1. returns \in BOOLEAN
        BY DEF CanTransfer
    <2>2. auctions'[id] = [a EXCEPT !.status = "Refunded", !.lot_reclaimed = returns]
        <3> HIDE DEF returns
        <3> QED BY <1>2 DEF TypeOK
    <2> HIDE DEF returns, a
    <2> QED BY <1>1, <2>1, <2>2 DEF Auction, Statuses
<1>9. TouchesOnly(id)
    <2> HIDE DEF a, returns
    <2> QED BY <1>2, <1>8 DEF TouchesOnly, TypeOK
<1>10. EscrowFollows(id)
    <2> SUFFICES ASSUME NEW t \in Tokens
                 PROVE  balance'[t][Escrow] - balance[t][Escrow]
                            = Owed(auctions'[id], t) - Owed(a, t)
        BY DEF EscrowFollows
    <2>1. Owed(auctions'[id], t) = IF t = rwa /\ ~returns THEN lot ELSE 0
        <3> HIDE DEF returns
        <3> QED BY <1>8, OwedFacts
    <2>2. Owed(a, t) = (IF t = pay THEN total ELSE 0) + (IF t = rwa THEN lot ELSE 0)
        BY <1>1, <1>2, <1>5, OwedFacts
    <2>3. balance[t][Escrow] \in Nat
        BY <1>1 DEF Balances, Holders
    <2>4. paid[t][Escrow] = balance[t][Escrow] - (IF t = pay THEN total ELSE 0)
        <3> HIDE DEF paid, pay, total
        <3> QED BY <1>6, <2>3
    <2>5. balance'[t][Escrow] = paid[t][Escrow] - (IF t = rwa /\ returns THEN lot ELSE 0)
        <3> HIDE DEF paid, rwa, lot, returns
        <3>1. paid[t][Escrow] \in Nat
            BY <1>6 DEF Balances, Holders
        <3> QED BY <1>7, <3>1
    <2>6. total \in Nat /\ lot \in Nat
        BY <1>3, <1>5
    <2> HIDE DEF a, pay, rwa, lot, total, paid, returns
    <2> QED BY <2>1, <2>2, <2>3, <2>4, <2>5, <2>6
<1> QED BY <1>2, <1>7, <1>8, <1>9, <1>10

\* reclaim_lot: a parked lot goes out.
LEMMA ReclaimLotFacts ==
    ASSUME TypeOK, NEW id \in AuctionIds, ReclaimLot(id)
    PROVE  /\ balance' \in Balances /\ TouchesOnly(id) /\ EscrowFollows(id)
           /\ auctions[id].status = "Refunded" /\ auctions'[id].status = "Refunded"
<1> DEFINE a == auctions[id]
           rwa == a.terms.rwa_token
           lot == a.terms.lot_amount
           seller == a.terms.seller
<1>1. a \in Auction /\ balance \in Balances
    BY DEF TypeOK, Balances
<1>2. /\ a.status = "Refunded" /\ ~a.lot_reclaimed
      /\ balance[rwa][Escrow] >= lot
      /\ auctions' = [auctions EXCEPT ![id].lot_reclaimed = TRUE]
      /\ balance' = Transfer(balance, rwa, Escrow, seller, lot)
    BY DEF ReclaimLot, Reclaimable, CanTransfer
<1>3. rwa \in Tokens /\ lot \in Nat /\ seller \in Accounts
    BY <1>1, TermsFacts
<1>4. /\ balance' \in Balances
      /\ balance'[rwa][Escrow] = balance[rwa][Escrow] - lot
      /\ \A t \in Tokens : t # rwa => balance'[t][Escrow] = balance[t][Escrow]
    <2>1. Escrow \in Holders /\ seller \in Holders /\ Escrow # seller
        BY <1>3, EscrowAssumption DEF Holders
    <2> HIDE DEF rwa, lot, seller
    <2> QED BY <1>1, <1>2, <1>3, <2>1, TransferFacts
<1>5. auctions'[id] = [a EXCEPT !.lot_reclaimed = TRUE] /\ auctions'[id] \in Auction
    BY <1>1, <1>2 DEF TypeOK, Auction
<1>6. TouchesOnly(id)
    <2> HIDE DEF a
    <2> QED BY <1>2, <1>5 DEF TouchesOnly, TypeOK
<1>7. EscrowFollows(id)
    <2> SUFFICES ASSUME NEW t \in Tokens
                 PROVE  balance'[t][Escrow] - balance[t][Escrow]
                            = Owed(auctions'[id], t) - Owed(a, t)
        BY DEF EscrowFollows
    <2>1. Owed(auctions'[id], t) = 0
        BY <1>1, <1>2, <1>5, OwedFacts DEF Auction
    <2>2. Owed(a, t) = IF t = rwa THEN lot ELSE 0
        BY <1>1, <1>2, OwedFacts
    <2>3. balance[t][Escrow] \in Nat
        BY <1>1 DEF Balances, Holders
    <2> HIDE DEF a, rwa, lot
    <2> QED BY <1>3, <1>4, <2>1, <2>2, <2>3
<1> QED BY <1>1, <1>2, <1>4, <1>5, <1>6, <1>7 DEF Auction

\* create_auction: a new entry, and its lot comes in.
LEMMA CreateAuctionFacts ==
    ASSUME TypeOK, NEW listing \in Listings, CreateAuction(listing)
    PROVE  /\ balance' \in Balances
           /\ nextAuctionId' = nextAuctionId + 1
           /\ AuctionIds' = AuctionIds \cup {nextAuctionId}
           /\ nextAuctionId \notin AuctionIds
           /\ auctions' \in [AuctionIds' -> Auction]
           /\ \A i \in AuctionIds : auctions'[i] = auctions[i]
           /\ auctions'[nextAuctionId].status = "Open"
           /\ \A t \in Tokens :
                balance'[t][Escrow] - balance[t][Escrow] = Owed(auctions'[nextAuctionId], t)
<1> DEFINE rwa == listing.rwa_token
           lot == listing.lot_amount
           seller == listing.seller
           new == NewAuction(listing)
<1>1. /\ auctions \in [AuctionIds -> Auction] /\ balance \in Balances
      /\ nextAuctionId \in Nat \ {0}
    BY DEF TypeOK, Balances
<1>2. /\ nextAuctionId' = nextAuctionId + 1
      /\ balance' = Transfer(balance, rwa, seller, Escrow, lot)
      /\ balance[rwa][seller] >= lot
      /\ auctions' = [id \in DOMAIN auctions \cup {nextAuctionId} |->
                         IF id = nextAuctionId THEN new ELSE auctions[id]]
      /\ listing \in AcceptedListings
    BY DEF CreateAuction, CanTransfer, AcceptedListings
<1>3. rwa \in Tokens /\ lot \in Nat /\ seller \in Accounts
    BY <1>2, ListingsAssumption DEF Listing, AcceptedListings
<1>4. AuctionIds' = AuctionIds \cup {nextAuctionId} /\ nextAuctionId \notin AuctionIds
    BY <1>1, <1>2 DEF AuctionIds
<1>5. new \in Auction /\ new.status = "Open" /\ Len(new.bids) = 0 /\ new.terms = listing
    BY <1>2 DEF NewAuction, Auction, Statuses
<1>6. /\ auctions' \in [AuctionIds' -> Auction]
      /\ \A i \in AuctionIds : auctions'[i] = auctions[i]
      /\ auctions'[nextAuctionId] = new
    <2> HIDE DEF new
    <2> QED BY <1>1, <1>2, <1>4, <1>5
<1>7. /\ balance' \in Balances
      /\ balance'[rwa][Escrow] = balance[rwa][Escrow] + lot
      /\ \A t \in Tokens : t # rwa => balance'[t][Escrow] = balance[t][Escrow]
    <2>1. Escrow \in Holders /\ seller \in Holders /\ Escrow # seller
        BY <1>3, EscrowAssumption DEF Holders
    <2> HIDE DEF rwa, lot, seller
    <2> QED BY <1>1, <1>2, <1>3, <2>1, TransferFacts
<1>8. ASSUME NEW t \in Tokens
      PROVE  balance'[t][Escrow] - balance[t][Escrow] = Owed(new, t)
    <2>1. Owed(new, t) = (IF t = listing.payment_token THEN listing.max_price * 0 ELSE 0)
                         + (IF t = rwa THEN lot ELSE 0)
        <3> HIDE DEF new
        <3> QED BY <1>5, OwedFacts
    <2>2. listing.max_price * 0 = 0
        BY <1>2, ListingsAssumption DEF AcceptedListings, Listing
    <2>3. balance[t][Escrow] \in Nat
        BY <1>1 DEF Balances, Holders
    <2> HIDE DEF new, rwa, lot
    <2> QED BY <1>3, <1>7, <2>1, <2>2, <2>3
<1> QED BY <1>2, <1>4, <1>5, <1>6, <1>7, <1>8

-----------------------------------------------------------------------------
\* The type invariant holds in every reachable state: in particular no holder's
\* balance is ever overdrawn, every stored commitment is a non-zero one, and an
\* AuctionSettled event exists exactly for the settled auctions.
THEOREM TypeCorrect == Spec => []TypeOK
<1>1. Init => TypeOK
    <2> SUFFICES ASSUME Init PROVE TypeOK
        OBVIOUS
    <2>1. AuctionIds = {}
        BY DEF Init, AuctionIds
    <2> QED BY <2>1, BoundsAssumption, EndowmentAssumption DEF Init, TypeOK
<1>2. TypeOK /\ [Next]_vars => TypeOK'
    <2> SUFFICES ASSUME TypeOK, [Next]_vars PROVE TypeOK'
        OBVIOUS
    <2>1. DOMAIN auctions = AuctionIds
        BY DEF TypeOK
    <2>2. ASSUME NEW listing \in Listings, CreateAuction(listing) PROVE TypeOK'
        <3>1. nextAuctionId' \in 1..(MaxAuctions + 1)
            BY <2>2, BoundsAssumption DEF CreateAuction, TypeOK
        <3>2. UNCHANGED <<now, settlements, trapping, refusing, outages>>
            BY <2>2 DEF CreateAuction
        <3> QED BY <2>2, <3>1, <3>2, CreateAuctionFacts DEF TypeOK, Balances
    <2>3. ASSUME NEW id \in AuctionIds, NEW bidder \in Accounts,
                 NEW commitment \in SealedBids \cup {EmptyCommitment},
                 NEW len \in EncryptedLengths, PlaceBid(id, bidder, commitment, len)
          PROVE  TypeOK'
        <3>1. UNCHANGED <<now, nextAuctionId, settlements, trapping, refusing, outages>>
            BY <2>3 DEF PlaceBid
        <3> QED BY <2>3, <3>1, PlaceBidFacts DEF TypeOK, Balances, TouchesOnly, AuctionIds
    <2>4. ASSUME NEW id \in AuctionIds, NEW w \in Slots, NEW p \in Prices, NEW x \in Accounts,
                 Settle(id, w, p, x)
          PROVE  TypeOK'
        <3>1. UNCHANGED <<now, nextAuctionId, trapping, refusing, outages>>
            BY <2>4 DEF Settle
        <3>2. settlements' = [i \in DOMAIN settlements \cup {id} |->
                                IF i = id THEN [winner |-> x, winning_price |-> p]
                                ELSE settlements[i]]
            BY <2>4 DEF Settle
        <3>3. /\ DOMAIN settlements' = {i \in AuctionIds : auctions'[i].status = "Settled"}
              /\ \A i \in DOMAIN settlements' :
                    settlements'[i] \in [winner : Accounts, winning_price : Prices]
            BY <2>4, <3>2, SettleFacts DEF TypeOK, TouchesOnly
        <3> QED BY <2>4, <3>1, <3>3, SettleFacts DEF TypeOK, Balances, TouchesOnly, AuctionIds
    <2>5. ASSUME NEW id \in AuctionIds, RefundAll(id) PROVE TypeOK'
        <3>1. UNCHANGED <<now, nextAuctionId, settlements, trapping, refusing, outages>>
            BY <2>5 DEF RefundAll
        <3> QED BY <2>5, <3>1, RefundAllFacts DEF TypeOK, Balances, TouchesOnly, AuctionIds
    <2>6. ASSUME NEW id \in AuctionIds, ReclaimLot(id) PROVE TypeOK'
        <3>1. UNCHANGED <<now, nextAuctionId, settlements, trapping, refusing, outages>>
            BY <2>6 DEF ReclaimLot
        <3> QED BY <2>6, <3>1, ReclaimLotFacts DEF TypeOK, Balances, TouchesOnly, AuctionIds
    <2>7. CASE Environment
        <3>1. CASE Tick
            BY <3>1, BoundsAssumption DEF Tick, TypeOK, AuctionIds
        <3>2. ASSUME NEW token \in MayTrap, StartTrapping(token) \/ StopTrapping(token)
              PROVE  TypeOK'
            <4>1. trapping' \subseteq MayTrap /\ outages' \in 0..MaxOutages
                BY <3>2, BoundsAssumption DEF StartTrapping, StopTrapping, TypeOK
            <4> QED BY <3>2, <4>1 DEF StartTrapping, StopTrapping, TypeOK, AuctionIds
        <3>3. ASSUME NEW pair \in MayRefuse,
                     StartRefusing(pair[1], pair[2]) \/ StopRefusing(pair[1], pair[2])
              PROVE  TypeOK'
            <4>1. pair = <<pair[1], pair[2]>>
                BY OutagesAssumption
            <4>2. refusing' \subseteq MayRefuse /\ outages' \in 0..MaxOutages
                BY <3>3, <4>1, BoundsAssumption DEF StartRefusing, StopRefusing, TypeOK
            <4> QED BY <3>3, <4>2 DEF StartRefusing, StopRefusing, TypeOK, AuctionIds
        <3> QED BY <2>7, <3>1, <3>2, <3>3 DEF Environment
    <2>8. CASE UNCHANGED vars
        BY <2>8 DEF vars, TypeOK, AuctionIds
    <2> QED BY <2>1, <2>2, <2>3, <2>4, <2>5, <2>6, <2>7, <2>8 DEF Next, ContractCall
<1> QED BY <1>1, <1>2, PTL DEF Spec

-----------------------------------------------------------------------------
\* A call that touches one auction and moves the escrow by what that auction is
\* owed keeps the pool equal to the sum of all that is owed.
LEMMA SolvencyKept ==
    ASSUME TypeOK, Solvency, NEW id \in AuctionIds, nextAuctionId' = nextAuctionId,
           balance' \in Balances, TouchesOnly(id), EscrowFollows(id)
    PROVE  Solvency'
<1> SUFFICES ASSUME NEW t \in Tokens
             PROVE  balance'[t][Escrow] = SumUpTo(OwedByAuction(t)', nextAuctionId - 1)
    BY DEF Solvency
<1> DEFINE n == nextAuctionId - 1
           old == OwedByAuction(t)
           new == OwedByAuction(t)'
<1>1. n \in Nat /\ AuctionIds = 1..n /\ AuctionIds' = 1..n
    BY DEF TypeOK, AuctionIds
<1>2. /\ \A i \in 1..n : old[i] = Owed(auctions[i], t) /\ new[i] = Owed(auctions'[i], t)
    BY <1>1 DEF OwedByAuction, Owed, LotHeld
<1>3. \A i \in 1..n : old[i] \in Int /\ new[i] \in Int
    <2>1. \A i \in 1..n : auctions[i] \in Auction /\ auctions'[i] \in Auction
        BY <1>1 DEF TypeOK, TouchesOnly
    <2> QED BY <1>2, <2>1, OwedFacts
<1>4. \A i \in 1..n : i # id => new[i] = old[i]
    BY <1>1, <1>2 DEF TouchesOnly
<1>5. SumUpTo(new, n) = SumUpTo(old, n) + (new[id] - old[id])
    <2> HIDE DEF n, old, new
    <2> QED BY <1>1, <1>3, <1>4, SumUpdate
<1>6. balance[t][Escrow] = SumUpTo(old, n)
    BY DEF Solvency
<1>7. balance'[t][Escrow] - balance[t][Escrow] = new[id] - old[id]
    BY <1>1, <1>2 DEF EscrowFollows
<1>8. balance[t][Escrow] \in Int /\ balance'[t][Escrow] \in Int
    BY DEF TypeOK, Balances, Holders
<1>9. new[id] \in Int /\ old[id] \in Int
    BY <1>1, <1>3
<1>10. balance'[t][Escrow] = SumUpTo(new, n)
    <2> HIDE DEF n, old, new
    <2> QED BY <1>5, <1>6, <1>7, <1>8, <1>9
<1> QED BY <1>10

\* At every moment the escrow holds, of every token, exactly what the open and
\* parked auctions are owed, however many there are and whatever tokens they
\* share.
THEOREM PoolIsSolvent == Spec => []Solvency
<1>1. Init => Solvency
    <2> SUFFICES ASSUME Init, NEW t \in Tokens
                 PROVE  balance[t][Escrow] = SumUpTo(OwedByAuction(t), nextAuctionId - 1)
        BY DEF Solvency
    <2>1. balance[t][Escrow] = 0 /\ nextAuctionId - 1 = 0
        BY EndowmentAssumption DEF Init
    <2> QED BY <2>1, SumEmpty
<1>2. TypeOK /\ TypeOK' /\ Solvency /\ [Next]_vars => Solvency'
    <2> SUFFICES ASSUME TypeOK, TypeOK', Solvency, [Next]_vars PROVE Solvency'
        OBVIOUS
    <2>1. DOMAIN auctions = AuctionIds
        BY DEF TypeOK
    <2>2. ASSUME NEW listing \in Listings, CreateAuction(listing) PROVE Solvency'
        <3> SUFFICES ASSUME NEW t \in Tokens
                     PROVE  balance'[t][Escrow]
                                = SumUpTo(OwedByAuction(t)', nextAuctionId' - 1)
            BY DEF Solvency
        <3> DEFINE n == nextAuctionId - 1
                   old == OwedByAuction(t)
                   new == OwedByAuction(t)'
        <3>1. /\ n \in Nat /\ n + 1 = nextAuctionId /\ nextAuctionId' - 1 = n + 1
              /\ AuctionIds = 1..n /\ AuctionIds' = 1..(n + 1)
            BY <2>2, CreateAuctionFacts DEF TypeOK, AuctionIds
        <3>2. /\ \A i \in 1..n : old[i] = Owed(auctions[i], t)
              /\ \A i \in 1..(n + 1) : new[i] = Owed(auctions'[i], t)
            BY <3>1 DEF OwedByAuction, Owed, LotHeld
        <3>3. \A i \in 1..n : old[i] \in Int /\ new[i] = old[i]
            <4>1. \A i \in 1..n : auctions[i] \in Auction /\ auctions'[i] = auctions[i]
                BY <2>2, <3>1, CreateAuctionFacts DEF TypeOK
            <4> QED BY <3>1, <3>2, <4>1, OwedFacts
        <3>4. new[n + 1] \in Int
            <4>1. auctions'[n + 1] \in Auction
                BY <2>2, <3>1, CreateAuctionFacts
            <4> QED BY <3>1, <3>2, <4>1, OwedFacts
        <3>5. SumUpTo(new, n + 1) = SumUpTo(old, n) + new[n + 1]
            <4> HIDE DEF n, old, new
            <4> QED BY <3>1, <3>3, <3>4, SumExtend
        <3>6. balance[t][Escrow] = SumUpTo(old, n)
            BY DEF Solvency
        <3>7. balance'[t][Escrow] - balance[t][Escrow] = new[n + 1]
            BY <2>2, <3>1, <3>2, CreateAuctionFacts
        <3>8. balance[t][Escrow] \in Int /\ balance'[t][Escrow] \in Int
            BY DEF TypeOK, Holders
        <3>9. balance'[t][Escrow] = SumUpTo(new, n + 1)
            <4> HIDE DEF n, old, new
            <4> QED BY <3>4, <3>5, <3>6, <3>7, <3>8
        <3> QED BY <3>1, <3>9
    <2>3. ASSUME NEW id \in AuctionIds, NEW bidder \in Accounts,
                 NEW commitment \in SealedBids \cup {EmptyCommitment},
                 NEW len \in EncryptedLengths, PlaceBid(id, bidder, commitment, len)
          PROVE  Solvency'
        <3>1. nextAuctionId' = nextAuctionId
            BY <2>3 DEF PlaceBid
        <3> QED BY <2>3, <3>1, PlaceBidFacts, SolvencyKept
    <2>4. ASSUME NEW id \in AuctionIds, NEW w \in Slots, NEW p \in Prices, NEW x \in Accounts,
                 Settle(id, w, p, x)
          PROVE  Solvency'
        <3>1. nextAuctionId' = nextAuctionId
            BY <2>4 DEF Settle
        <3> QED BY <2>4, <3>1, SettleFacts, SolvencyKept
    <2>5. ASSUME NEW id \in AuctionIds, RefundAll(id) PROVE Solvency'
        <3>1. nextAuctionId' = nextAuctionId
            BY <2>5 DEF RefundAll
        <3> QED BY <2>5, <3>1, RefundAllFacts, SolvencyKept
    <2>6. ASSUME NEW id \in AuctionIds, ReclaimLot(id) PROVE Solvency'
        <3>1. nextAuctionId' = nextAuctionId
            BY <2>6 DEF ReclaimLot
        <3> QED BY <2>6, <3>1, ReclaimLotFacts, SolvencyKept
    <2>7. CASE Environment \/ UNCHANGED vars
        <3>1. UNCHANGED <<nextAuctionId, auctions, balance>>
            BY <2>7 DEF Environment, Tick, StartTrapping, StopTrapping, StartRefusing,
                        StopRefusing, vars
        <3>2. \A t \in Tokens : OwedByAuction(t)' = OwedByAuction(t)
            BY <3>1 DEF OwedByAuction, AuctionIds, Owed, LotHeld
        <3> QED BY <3>1, <3>2 DEF Solvency
    <2> QED BY <2>1, <2>2, <2>3, <2>4, <2>5, <2>6, <2>7 DEF Next, ContractCall
<1> QED BY <1>1, <1>2, TypeCorrect, PTL DEF Spec

-----------------------------------------------------------------------------
(* What settle and refund_all may decide: the proof leaves its caller no   *)
(* choice, a proof once built stays usable, and a refund waits for the     *)
(* grace period.                                                           *)

\* One book of prices has one winner slot: two slots that hold the maximum,
\* each strictly above every slot below it, are the same slot.
LEMMA WinnerUnique ==
    ASSUME NEW price, \A i \in Slots : price[i] \in Nat,
           NEW w1 \in Slots, NEW w2 \in Slots,
           HoldsMaximum(price, w1), HoldsMaximum(price, w2)
    PROVE  w1 = w2
<1>1. w1 \in Nat /\ w2 \in Nat
    BY SlotsAssumption DEF Slots
<1>2. price[w1] \in Nat /\ price[w2] \in Nat
    OBVIOUS
<1>3. price[w1] >= price[w2] /\ price[w2] >= price[w1]
    BY DEF HoldsMaximum
<1>4. ~(w1 < w2)
    BY <1>2, <1>3 DEF HoldsMaximum
<1>5. ~(w2 < w1)
    BY <1>2, <1>3 DEF HoldsMaximum
<1> QED BY <1>1, <1>4, <1>5

\* Two instances of the circuit's statement over one book of prices name the
\* same winner and the same clearing price.
LEMMA StatementDetermines ==
    ASSUME NEW pub1, NEW pub2, NEW price, NEW salt1, NEW salt2,
           WinnerStatement(pub1, price, salt1), WinnerStatement(pub2, price, salt2)
    PROVE  /\ pub1.winnerIndex = pub2.winnerIndex
           /\ pub1.winningPrice = pub2.winningPrice
<1>1. \A i \in Slots : price[i] \in Nat
    BY U64Assumption DEF WinnerStatement
<1>2. /\ pub1.winnerIndex \in Slots /\ HoldsMaximum(price, pub1.winnerIndex)
      /\ pub2.winnerIndex \in Slots /\ HoldsMaximum(price, pub2.winnerIndex)
    BY DEF WinnerStatement
<1>3. pub1.winnerIndex = pub2.winnerIndex
    BY <1>1, <1>2, WinnerUnique
<1> QED BY <1>3 DEF WinnerStatement

\* Two provable claims about one auction are the same claim: the prices are
\* those the stored commitments open to, whoever proves.
LEMMA OneProvableOutcome ==
    ASSUME NEW id, NEW slot1 \in Slots, NEW price1, NEW slot2 \in Slots, NEW price2,
           Provable(id, slot1, price1), Provable(id, slot2, price2)
    PROVE  slot1 = slot2 /\ price1 = price2
<1> DEFINE pub1 == BuildPublicSignals(id, auctions[id], slot1, price1,
                                      auctions[id].bids[slot1].bidder)
           pub2 == BuildPublicSignals(id, auctions[id], slot2, price2,
                                      auctions[id].bids[slot2].bidder)
<1>1. pub1.commitments = pub2.commitments
    BY DEF BuildPublicSignals
<1>2. /\ pub1.winnerIndex = slot1 /\ pub1.winningPrice = price1
      /\ pub2.winnerIndex = slot2 /\ pub2.winningPrice = price2
    BY DEF BuildPublicSignals
<1>3. Verify(pub1) /\ Verify(pub2)
    BY DEF Provable
<1> HIDE DEF pub1, pub2
<1>4. pub1.winnerIndex = pub2.winnerIndex /\ pub1.winningPrice = pub2.winningPrice
    BY <1>1, <1>3, StatementDetermines DEF Verify
<1> QED BY <1>2, <1>4

\* Whatever the bids (ties, equal bids of one bidder, commitments copied from
\* other auctions), at most one slot and one price of an auction have a proof, so
\* the permissionless caller of settle decides nothing.
THEOREM OutcomeIsUnique == Spec => []AtMostOneOutcome
<1>1. AtMostOneOutcome
    <2> SUFFICES ASSUME NEW id \in AuctionIds
                 PROVE  Cardinality({o \in Slots \X Prices : Provable(id, o[1], o[2])}) <= 1
        BY DEF AtMostOneOutcome
    <2> DEFINE outcomes == {o \in Slots \X Prices : Provable(id, o[1], o[2])}
    <2>1. \A o1, o2 \in outcomes : o1 = o2
        <3> SUFFICES ASSUME NEW o1 \in outcomes, NEW o2 \in outcomes PROVE o1 = o2
            OBVIOUS
        <3>1. o1[1] = o2[1] /\ o1[2] = o2[2]
            BY OneProvableOutcome
        <3> QED BY <3>1
    <2>2. CASE outcomes = {}
        BY <2>2, FS_EmptySet
    <2>3. CASE outcomes # {}
        <3>1. PICK o \in outcomes : TRUE
            BY <2>3
        <3>2. outcomes = {o}
            BY <2>1, <3>1
        <3>3. Cardinality({o}) = 1
            BY FS_Singleton
        <3> HIDE DEF outcomes
        <3>4. Cardinality(outcomes) <= 1
            BY <3>2, <3>3
        <3> QED BY <3>4 DEF outcomes
    <2> QED BY <2>2, <2>3
<1> QED BY <1>1, PTL

-----------------------------------------------------------------------------
\* The bids of an auction are frozen from its deadline on, and its terms are
\* frozen from its creation on, whatever call lands.
BookFrozen ==
    \A id \in AuctionIds :
        /\ id \in AuctionIds'
        /\ auctions'[id].terms = auctions[id].terms
        /\ now >= auctions[id].terms.commit_deadline =>
                auctions'[id].bids = auctions[id].bids

LEMMA StepFreezesBook ==
    ASSUME TypeOK, [Next]_vars
    PROVE  BookFrozen
<1>1. DOMAIN auctions = AuctionIds /\ nextAuctionId \in Nat
    BY DEF TypeOK
<1>2. \A id \in AuctionIds : auctions[id] \in Auction
    BY DEF TypeOK
<1>3. ASSUME NEW listing \in Listings, CreateAuction(listing) PROVE BookFrozen
    BY <1>1, <1>3 DEF CreateAuction, BookFrozen, AuctionIds
<1>4. ASSUME NEW id \in AuctionIds, NEW bidder \in Accounts,
             NEW commitment \in SealedBids \cup {EmptyCommitment},
             NEW len \in EncryptedLengths, PlaceBid(id, bidder, commitment, len)
      PROVE  BookFrozen
    <2>1. AuctionIds' = AuctionIds
        BY <1>4 DEF PlaceBid, AuctionIds
    <2>2. \A i \in AuctionIds : i # id => auctions'[i] = auctions[i]
        BY <1>1, <1>4 DEF PlaceBid
    <2>3. auctions'[id].terms = auctions[id].terms
        BY <1>1, <1>2, <1>4 DEF PlaceBid, Auction
    <2>4. ~(now >= auctions[id].terms.commit_deadline)
        <3>1. auctions[id].terms.commit_deadline \in Nat
            BY <1>2, TermsFacts
        <3>2. now \in Nat
            BY BoundsAssumption DEF TypeOK
        <3> QED BY <1>4, <3>1, <3>2 DEF PlaceBid, BeforeDeadline
    <2> QED BY <2>1, <2>2, <2>3, <2>4 DEF BookFrozen
<1>5. ASSUME NEW id \in AuctionIds,
             \/ \E w \in Slots, p \in Prices, x \in Accounts : Settle(id, w, p, x)
             \/ RefundAll(id)
             \/ ReclaimLot(id)
      PROVE  BookFrozen
    <2>1. AuctionIds' = AuctionIds
        BY <1>5 DEF Settle, RefundAll, ReclaimLot, AuctionIds
    <2>2. \A i \in AuctionIds : i # id => auctions'[i] = auctions[i]
        BY <1>1, <1>5 DEF Settle, RefundAll, ReclaimLot
    <2>3. /\ auctions'[id].terms = auctions[id].terms
          /\ auctions'[id].bids = auctions[id].bids
        BY <1>1, <1>2, <1>5 DEF Settle, RefundAll, ReclaimLot, Auction
    <2> QED BY <2>1, <2>2, <2>3 DEF BookFrozen
<1>6. CASE Environment \/ UNCHANGED vars
    BY <1>6 DEF Environment, Tick, StartTrapping, StopTrapping, StartRefusing, StopRefusing,
                vars, BookFrozen, AuctionIds
<1> QED BY <1>1, <1>3, <1>4, <1>5, <1>6 DEF Next, ContractCall

\* A proof the operator can build once bidding is over is accepted after any
\* further steps: no call changes the signals the contract rebuilds.
THEOREM ProofsNeverGoStale == Spec => ProofsStayValid
<1>1. TypeOK /\ [Next]_vars => KeepsProofs
    <2> SUFFICES ASSUME TypeOK, [Next]_vars,
                        NEW id \in AuctionIds, NEW slot \in Slots, NEW price \in Prices,
                        now >= auctions[id].terms.commit_deadline,
                        Provable(id, slot, price)
                 PROVE  Provable(id, slot, price)'
        BY DEF KeepsProofs
    <2>1. /\ auctions'[id].terms = auctions[id].terms
          /\ auctions'[id].bids = auctions[id].bids
        BY StepFreezesBook DEF BookFrozen
    <2>2. Filled(auctions'[id]) = Filled(auctions[id])
        BY <2>1 DEF Filled
    <2>3. BuildPublicSignals(id, auctions'[id], slot, price, auctions'[id].bids[slot].bidder)
            = BuildPublicSignals(id, auctions[id], slot, price, auctions[id].bids[slot].bidder)
        BY <2>1 DEF BuildPublicSignals
    <2> QED BY <2>2, <2>3 DEF Provable
<1> QED BY <1>1, TypeCorrect, PTL DEF Spec, ProofsStayValid

-----------------------------------------------------------------------------
\* Only the environment moves the clock, and never back.
LEMMA ClockNeverTurnsBack ==
    ASSUME TypeOK, [Next]_vars
    PROVE  now' >= now
<1>1. now \in Nat
    BY BoundsAssumption DEF TypeOK
<1>2. CASE ContractCall
    <2>1. ASSUME NEW listing \in Listings, CreateAuction(listing) PROVE now' = now
        BY <2>1 DEF CreateAuction
    <2>2. ASSUME NEW id, NEW bidder, NEW commitment, NEW len,
                 PlaceBid(id, bidder, commitment, len)
          PROVE  now' = now
        BY <2>2 DEF PlaceBid
    <2>3. ASSUME NEW id, NEW w, NEW p, NEW x, Settle(id, w, p, x) PROVE now' = now
        BY <2>3 DEF Settle
    <2>4. ASSUME NEW id, RefundAll(id) PROVE now' = now
        BY <2>4 DEF RefundAll
    <2>5. ASSUME NEW id, ReclaimLot(id) PROVE now' = now
        BY <2>5 DEF ReclaimLot
    <2> QED BY <1>1, <1>2, <2>1, <2>2, <2>3, <2>4, <2>5 DEF ContractCall
<1>3. CASE Environment
    <2>1. CASE Tick
        BY <1>1, <2>1 DEF Tick
    <2>2. CASE UNCHANGED now
        BY <1>1, <2>2
    <2>3. \/ Tick
          \/ UNCHANGED now
        BY <1>3, Zenon DEF Environment, StartTrapping, StopTrapping, StartRefusing, StopRefusing
    <2> QED BY <2>1, <2>2, <2>3
<1>4. CASE UNCHANGED vars
    BY <1>1, <1>4 DEF vars
<1> QED BY <1>2, <1>3, <1>4 DEF Next

\* A new id is handed out by create_auction alone.
LEMMA IdsComeFromCreate ==
    ASSUME [Next]_vars, nextAuctionId' # nextAuctionId
    PROVE  \E listing \in Listings : CreateAuction(listing)
<1>1. ASSUME NEW id, NEW bidder, NEW commitment, NEW len, PlaceBid(id, bidder, commitment, len)
      PROVE  FALSE
    BY <1>1 DEF PlaceBid
<1>2. ASSUME NEW id, NEW w, NEW p, NEW x, Settle(id, w, p, x) PROVE FALSE
    BY <1>2 DEF Settle
<1>3. ASSUME NEW id, RefundAll(id) \/ ReclaimLot(id) PROVE FALSE
    BY <1>3 DEF RefundAll, ReclaimLot
<1>4. ~Environment /\ ~UNCHANGED vars
    BY DEF Environment, Tick, StartTrapping, StopTrapping, StartRefusing, StopRefusing, vars
<1> QED BY <1>1, <1>2, <1>3, <1>4 DEF Next, ContractCall

\* The saturating sum is reached only at the sum or at the end of the clock.
LEMMA UnlockTimeFacts ==
    ASSUME NEW a \in Auction, NEW time \in Nat, time >= RefundUnlockTime(a)
    PROVE  time >= a.terms.commit_deadline + a.terms.grace_period \/ time >= U64Max
BY TermsFacts, U64Assumption DEF RefundUnlockTime, SaturatingAdd

\* No refund is ever made before the deadline plus the whole grace period,
\* unless that sum does not fit the clock, and then not before its last value.
THEOREM RefundsWaitForGrace == Spec => []GraceHonoured
<1>1. Init => GraceHonoured
    BY DEF Init, GraceHonoured, AuctionIds
<1>2. TypeOK /\ TypeOK' /\ GraceHonoured /\ [Next]_vars => GraceHonoured'
    <2> SUFFICES ASSUME TypeOK, TypeOK', GraceHonoured, [Next]_vars,
                        NEW i \in AuctionIds', auctions'[i].status = "Refunded"
                 PROVE  \/ now' >= auctions'[i].terms.commit_deadline
                                    + auctions'[i].terms.grace_period
                        \/ now' >= U64Max
        BY DEF GraceHonoured
    <2>1. /\ DOMAIN auctions = AuctionIds /\ nextAuctionId \in Nat
          /\ \A id \in AuctionIds : auctions[id] \in Auction
        BY DEF TypeOK
    <2>2. now \in Nat /\ now' \in Nat /\ now' >= now
        <3>1. now \in Nat /\ now' \in Nat
            BY BoundsAssumption DEF TypeOK
        <3> QED BY <3>1, ClockNeverTurnsBack
    <2>3. CASE i \in AuctionIds /\ auctions[i].status = "Refunded"
        <3>1. auctions'[i].terms = auctions[i].terms
            BY <2>3, StepFreezesBook DEF BookFrozen
        <3>2. /\ auctions[i].terms.commit_deadline \in Nat
              /\ auctions[i].terms.grace_period \in Nat
            BY <2>1, <2>3, TermsFacts
        <3> QED BY <2>2, <2>3, <3>1, <3>2, U64Assumption DEF GraceHonoured
    <2>4. CASE i \in AuctionIds /\ auctions[i].status # "Refunded"
        <3>1. RefundAll(i)
            <4>1. ASSUME NEW listing \in Listings, CreateAuction(listing) PROVE FALSE
                BY <2>1, <2>4, <4>1 DEF CreateAuction, AuctionIds
            <4>2. ASSUME NEW id \in AuctionIds, NEW bidder \in Accounts,
                         NEW commitment \in SealedBids \cup {EmptyCommitment},
                         NEW len \in EncryptedLengths, PlaceBid(id, bidder, commitment, len)
                  PROVE  FALSE
                BY <2>1, <2>4, <4>2 DEF PlaceBid, Auction
            <4>3. ASSUME NEW id \in AuctionIds, NEW w \in Slots, NEW p \in Prices,
                         NEW x \in Accounts, Settle(id, w, p, x)
                  PROVE  FALSE
                BY <2>1, <2>4, <4>3 DEF Settle, Auction
            <4>4. ASSUME NEW id \in AuctionIds, ReclaimLot(id) PROVE FALSE
                BY <2>1, <2>4, <4>4 DEF ReclaimLot, Auction
            <4>5. ASSUME NEW id \in AuctionIds, RefundAll(id) PROVE RefundAll(i)
                <5>1. id = i
                    BY <2>1, <2>4, <4>5 DEF RefundAll, Auction
                <5> QED BY <4>5, <5>1
            <4>6. CASE Environment \/ UNCHANGED vars
                BY <2>4, <4>6 DEF Environment, Tick, StartTrapping, StopTrapping, StartRefusing,
                                  StopRefusing, vars
            <4> QED BY <2>1, <4>1, <4>2, <4>3, <4>4, <4>5, <4>6 DEF Next, ContractCall
        <3>2. now >= RefundUnlockTime(auctions[i]) /\ now' = now
            BY <3>1 DEF RefundAll
        <3>3. auctions'[i].terms = auctions[i].terms
            BY <2>4, StepFreezesBook DEF BookFrozen
        <3> QED BY <2>1, <2>2, <2>4, <3>2, <3>3, UnlockTimeFacts
    <2>5. CASE i \notin AuctionIds
        <3>1. PICK listing \in Listings : CreateAuction(listing)
            <4>1. nextAuctionId' # nextAuctionId
                BY <2>5 DEF AuctionIds
            <4> QED BY <4>1, IdsComeFromCreate
        <3>2. i = nextAuctionId
            BY <2>1, <2>5, <3>1 DEF CreateAuction, AuctionIds
        <3> QED BY <3>1, <3>2 DEF CreateAuction, NewAuction
    <2> QED BY <2>3, <2>4, <2>5
<1> QED BY <1>1, <1>2, TypeCorrect, PTL DEF Spec

-----------------------------------------------------------------------------
(* Transfers and payouts, as an account sees them.                         *)

LEMMA TransferAt ==
    ASSUME NEW bal \in Balances, NEW token \in Tokens, NEW from \in Holders, NEW to \in Holders,
           from # to, NEW amount \in Nat, bal[token][from] >= amount,
           NEW t \in Tokens, NEW x \in Holders
    PROVE  Transfer(bal, token, from, to, amount)[t][x] =
              bal[t][x] + (IF t = token /\ x = to THEN amount ELSE 0)
                        - (IF t = token /\ x = from THEN amount ELSE 0)
<1>1. bal[t][x] \in Nat
    BY DEF Balances
<1>2. CASE t = token /\ x = from
    BY <1>1, <1>2, TransferFacts
<1>3. CASE t = token /\ x = to
    BY <1>1, <1>3, TransferFacts
<1>4. CASE t # token \/ (x # from /\ x # to)
    BY <1>1, <1>4, TransferFacts
<1> QED BY <1>2, <1>3, <1>4

LEMMA PayOutAt ==
    ASSUME balance \in Balances, NEW token \in Tokens, NEW credit \in [Accounts -> Nat],
           NEW total, NEW t \in Tokens, NEW x \in Accounts
    PROVE  PayOut(token, credit, total)[t][x] =
              balance[t][x] + (IF t = token THEN credit[x] ELSE 0)
<1>1. x \in Holders /\ x # Escrow /\ balance[t][x] \in Nat
    BY EscrowAssumption DEF Holders, Balances
<1>2. CASE t = token
    BY <1>1, <1>2 DEF PayOut, Balances
<1>3. CASE t # token
    BY <1>1, <1>3 DEF PayOut, Balances
<1> QED BY <1>2, <1>3

-----------------------------------------------------------------------------
(* An account's deposits.                                                  *)

Deposits(a, x) == a.terms.max_price * Cardinality(SlotsOf(a, x))

LEMMA DepositsType ==
    ASSUME NEW a \in Auction, NEW x \in Accounts
    PROVE  /\ Deposits(a, x) \in Nat /\ a.terms.max_price \in Nat
           /\ Cardinality(SlotsOf(a, x)) \in Nat /\ IsFiniteSet(SlotsOf(a, x))
<1>1. a.terms.max_price \in Nat /\ Cardinality(SlotsOf(a, x)) \in Nat
    BY TermsFacts, SlotFacts
<1>2. IsFiniteSet(SlotsOf(a, x))
    <2>1. Len(a.bids) \in Nat
        BY TermsFacts
    <2>2. IsFiniteSet(Filled(a)) /\ SlotsOf(a, x) \in SUBSET Filled(a)
        BY <2>1, FS_Interval DEF Filled, SlotsOf
    <2> QED BY <2>2, FS_Subset
<1> QED BY <1>1, <1>2 DEF Deposits

\* All of a bidder's deposits but the winning one.
LEMMA DepositsWithout ==
    ASSUME NEW a \in Auction, NEW x \in Accounts, NEW w \in Filled(a)
    PROVE  a.terms.max_price * Cardinality(SlotsOf(a, x) \ {w}) =
              Deposits(a, x) - (IF x = a.bids[w].bidder THEN a.terms.max_price ELSE 0)
<1> DEFINE m == a.terms.max_price
           c == Cardinality(SlotsOf(a, x))
           d == Cardinality(SlotsOf(a, x) \ {w})
<1>1. m \in Nat /\ c \in Nat /\ IsFiniteSet(SlotsOf(a, x))
    BY DepositsType
<1>2. w \in SlotsOf(a, x) <=> x = a.bids[w].bidder
    BY DEF SlotsOf
<1>3. d = IF x = a.bids[w].bidder THEN c - 1 ELSE c
    BY <1>1, <1>2, FS_RemoveElement
<1> HIDE DEF m, c, d
<1>4. m * (c - 1) = m * c - m
    BY <1>1
<1>5. m * d = m * c - (IF x = a.bids[w].bidder THEN m ELSE 0)
    <2>1. m * c \in Nat
        BY <1>1
    <2>2. CASE x = a.bids[w].bidder
        BY <1>3, <1>4, <2>2
    <2>3. CASE x # a.bids[w].bidder
        BY <1>3, <2>1, <2>3
    <2> QED BY <2>2, <2>3
<1> QED BY <1>5 DEF m, c, d, Deposits

\* One more bid is one more deposit of its bidder.
LEMMA DepositsWith ==
    ASSUME NEW a \in Auction, NEW b \in Bid, NEW new \in Auction,
           new.terms = a.terms, new.bids = Append(a.bids, b), NEW x \in Accounts
    PROVE  Deposits(new, x) =
              Deposits(a, x) + (IF x = b.bidder THEN a.terms.max_price ELSE 0)
<1> DEFINE m == a.terms.max_price
           c == Cardinality(SlotsOf(a, x))
           d == Cardinality(SlotsOf(new, x))
           n == Len(a.bids)
<1>1. m \in Nat /\ c \in Nat /\ IsFiniteSet(SlotsOf(a, x))
    BY DepositsType
<1>2. a.bids \in Seq(Bid) /\ n \in Nat /\ Len(new.bids) = n + 1
    BY DEF Auction
<1>3. /\ \A i \in 1..n : new.bids[i] = a.bids[i]
      /\ new.bids[n + 1] = b
    BY <1>2
<1>4. SlotsOf(new, x) = IF x = b.bidder THEN SlotsOf(a, x) \cup {n + 1} ELSE SlotsOf(a, x)
    <2>1. Filled(new) = Filled(a) \cup {n + 1} /\ n + 1 \notin Filled(a) /\ Filled(a) = 1..n
        BY <1>2 DEF Filled
    <2> HIDE DEF n
    <2> QED BY <1>3, <2>1 DEF SlotsOf
<1>5. n + 1 \notin SlotsOf(a, x)
    BY <1>2 DEF SlotsOf, Filled
<1>6. d = IF x = b.bidder THEN c + 1 ELSE c
    BY <1>1, <1>4, <1>5, FS_AddElement
<1> HIDE DEF m, c, d
<1>7. m * (c + 1) = m * c + m /\ m * c \in Nat
    BY <1>1
<1>8. m * d = m * c + (IF x = b.bidder THEN m ELSE 0)
    BY <1>6, <1>7
<1> QED BY <1>8 DEF m, c, d, Deposits

\* A fresh auction holds no deposits.
LEMMA DepositsNone ==
    ASSUME NEW a \in Auction, Len(a.bids) = 0, NEW x \in Accounts
    PROVE  Deposits(a, x) = 0
<1>1. SlotsOf(a, x) = {}
    BY DEF SlotsOf, Filled
<1>2. a.terms.max_price \in Nat
    BY TermsFacts
<1> QED BY <1>1, <1>2, FS_EmptySet DEF Deposits

-----------------------------------------------------------------------------
(* Claims and trades, by status.                                           *)

LEMMA ClaimFacts ==
    ASSUME NEW a \in Auction, NEW t \in Tokens, NEW x \in Accounts
    PROVE  /\ Claim(a, t, x) \in Nat
           /\ a.status = "Open" =>
                Claim(a, t, x) =
                    (IF t = a.terms.payment_token THEN Deposits(a, x) ELSE 0)
                    + (IF t = a.terms.rwa_token /\ x = a.terms.seller
                       THEN a.terms.lot_amount ELSE 0)
           /\ a.status = "Settled" => Claim(a, t, x) = 0
           /\ a.status = "Refunded" =>
                Claim(a, t, x) = IF t = a.terms.rwa_token /\ x = a.terms.seller /\ ~a.lot_reclaimed
                                 THEN a.terms.lot_amount ELSE 0
<1> DEFINE d == Deposits(a, x)
<1>1. d \in Nat /\ a.terms.lot_amount \in Nat
    BY DepositsType, TermsFacts
<1>2. Claim(a, t, x) =
        (IF a.status = "Open" /\ a.terms.payment_token = t THEN d ELSE 0)
        + (IF LotHeld(a) /\ a.terms.rwa_token = t /\ a.terms.seller = x
           THEN a.terms.lot_amount ELSE 0)
    BY DEF Claim, Deposits
<1>3. /\ a.status = "Open" => LotHeld(a)
      /\ a.status = "Settled" => ~LotHeld(a)
      /\ a.status = "Refunded" => (LotHeld(a) <=> ~a.lot_reclaimed)
    BY DEF LotHeld
<1> HIDE DEF d
<1>4. Claim(a, t, x) \in Nat
    BY <1>1, <1>2
<1>5. a.status = "Open" =>
        Claim(a, t, x) =
            (IF t = a.terms.payment_token THEN d ELSE 0)
            + (IF t = a.terms.rwa_token /\ x = a.terms.seller THEN a.terms.lot_amount ELSE 0)
    BY <1>1, <1>2, <1>3
<1>6. a.status = "Settled" => Claim(a, t, x) = 0
    BY <1>1, <1>2, <1>3
<1>7. a.status = "Refunded" =>
        Claim(a, t, x) = IF t = a.terms.rwa_token /\ x = a.terms.seller /\ ~a.lot_reclaimed
                         THEN a.terms.lot_amount ELSE 0
    BY <1>1, <1>2, <1>3
<1> QED BY <1>4, <1>5, <1>6, <1>7 DEF d

\* What a sale gave an account, without the variables.
Trade(a, sale, t, x) ==
    LET gain(token, who, amount) == IF token = t /\ who = x THEN amount ELSE 0
    IN  IF a.status # "Settled" THEN 0
        ELSE gain(a.terms.payment_token, a.terms.seller, sale.winning_price)
             - gain(a.terms.payment_token, sale.winner, sale.winning_price)
             + gain(a.terms.rwa_token, sale.winner, a.terms.lot_amount)
             - gain(a.terms.rwa_token, a.terms.seller, a.terms.lot_amount)

LEMMA TradedIsTrade ==
    ASSUME NEW id, NEW t, NEW x
    PROVE  /\ Traded(id, t, x) = Trade(auctions[id], settlements[id], t, x)
           /\ Traded(id, t, x)' = Trade(auctions'[id], settlements'[id], t, x)
BY DEF Traded, Trade

LEMMA TradeType ==
    ASSUME NEW a \in Auction, NEW sale, NEW t, NEW x,
           a.status = "Settled" => sale.winning_price \in Int
    PROVE  Trade(a, sale, t, x) \in Int
<1>1. a.terms.lot_amount \in Int
    BY TermsFacts
<1> QED BY <1>1 DEF Trade

\* What the invocations on one auction do to an account's wealth: its balance
\* and its claim together move by its part of the sale.
WealthFollows(id) ==
    \A t \in Tokens, x \in Accounts :
        (balance'[t][x] - balance[t][x])
          + (Claim(auctions'[id], t, x) - Claim(auctions[id], t, x))
        = Trade(auctions'[id], settlements'[id], t, x)
          - Trade(auctions[id], settlements[id], t, x)

LEMMA BalanceType ==
    ASSUME TypeOK, NEW t \in Tokens, NEW x \in Accounts
    PROVE  balance \in Balances /\ balance[t][x] \in Nat /\ x \in Holders /\ x # Escrow
BY EscrowAssumption DEF TypeOK, Balances, Holders

LEMMA PlaceBidWealth ==
    ASSUME TypeOK, NEW id \in AuctionIds, NEW bidder \in Accounts,
           NEW commitment \in SealedBids \cup {EmptyCommitment}, NEW len,
           PlaceBid(id, bidder, commitment, len)
    PROVE  WealthFollows(id)
<1> SUFFICES ASSUME NEW t \in Tokens, NEW x \in Accounts
             PROVE  (balance'[t][x] - balance[t][x])
                      + (Claim(auctions'[id], t, x) - Claim(auctions[id], t, x))
                    = Trade(auctions'[id], settlements'[id], t, x)
                      - Trade(auctions[id], settlements[id], t, x)
    BY DEF WealthFollows
<1> DEFINE a == auctions[id]
           new == auctions'[id]
           b == [bidder |-> bidder, commitment |-> commitment]
           pay == a.terms.payment_token
           m == a.terms.max_price
           lot == IF t = a.terms.rwa_token /\ x = a.terms.seller THEN a.terms.lot_amount ELSE 0
           put == IF x = bidder THEN m ELSE 0
<1>1. a \in Auction /\ new \in Auction /\ a.status = "Open" /\ new.status = "Open"
    BY PlaceBidFacts DEF TypeOK, TouchesOnly
<1>2. b \in Bid /\ new = [a EXCEPT !.bids = Append(a.bids, b)]
    BY <1>1 DEF PlaceBid, AcceptsCommitment, Bid, TypeOK
<1>3. new.terms = a.terms /\ new.bids = Append(a.bids, b)
    BY <1>1, <1>2 DEF Auction
<1>4. m \in Nat /\ a.terms.lot_amount \in Nat /\ pay \in Tokens
    BY <1>1, TermsFacts
<1>5. Deposits(a, x) \in Nat /\ Deposits(new, x) = Deposits(a, x) + put
    <2>1. b.bidder = bidder
        OBVIOUS
    <2> HIDE DEF a, b, new
    <2> QED BY <1>1, <1>2, <1>3, <2>1, DepositsType, DepositsWith
<1>6. /\ Claim(a, t, x) = (IF t = pay THEN Deposits(a, x) ELSE 0) + lot
      /\ Claim(new, t, x) = (IF t = pay THEN Deposits(new, x) ELSE 0) + lot
    BY <1>1, <1>3, ClaimFacts
<1>7. balance'[t][x] = balance[t][x] - (IF t = pay /\ x = bidder THEN m ELSE 0)
    <2>1. /\ balance' = Transfer(balance, pay, bidder, Escrow, m) /\ balance[pay][bidder] >= m
        BY DEF PlaceBid, CanTransfer
    <2>2. bidder \in Holders /\ Escrow \in Holders /\ bidder # Escrow
        BY EscrowAssumption DEF Holders
    <2>3. balance \in Balances /\ balance[t][x] \in Nat /\ x \in Holders /\ x # Escrow
        BY BalanceType
    <2> HIDE DEF pay, m
    <2>4. balance'[t][x] = balance[t][x] + (IF t = pay /\ x = Escrow THEN m ELSE 0)
                           - (IF t = pay /\ x = bidder THEN m ELSE 0)
        BY <1>4, <2>1, <2>2, <2>3, TransferAt
    <2> QED BY <1>4, <2>3, <2>4
<1>8. Trade(new, settlements'[id], t, x) = 0 /\ Trade(a, settlements[id], t, x) = 0
    BY <1>1 DEF Trade
<1>9. balance[t][x] \in Nat
    BY BalanceType
<1>10. lot \in Nat /\ put \in Nat
    BY <1>4
<1>11. put = IF x = bidder THEN m ELSE 0
    OBVIOUS
<1> HIDE DEF a, new, pay, m, lot, put
<1> QED BY <1>4, <1>5, <1>6, <1>7, <1>8, <1>9, <1>10, <1>11 DEF a, new

\* What settle pays out is a natural number of tokens.
LEMMA SettleTotalType ==
    ASSUME NEW a \in Auction, NEW w \in Filled(a), NEW p \in Nat, p <= a.terms.max_price
    PROVE  SettleTotal(a, w, p) \in Nat
<1> DEFINE m == a.terms.max_price
           losers == Cardinality(Filled(a) \ {w})
<1>1. m \in Nat /\ losers \in Nat
    <2>1. Len(a.bids) \in Nat /\ losers = Len(a.bids) - 1
        BY TermsFacts, SlotFacts
    <2>2. Len(a.bids) >= 1
        BY <2>1 DEF Filled
    <2> QED BY <2>1, <2>2, TermsFacts
<1>2. SettleTotal(a, w, p) = p + (m - p) + m * losers
    BY DEF SettleTotal
<1>3. m - p \in Nat
    BY <1>1
<1> HIDE DEF m, losers
<1>4. m * losers \in Nat
    BY <1>1
<1> QED BY <1>2, <1>3, <1>4

LEMMA SettleWealth ==
    ASSUME TypeOK, NEW id \in AuctionIds, NEW w \in Slots, NEW p \in Prices,
           NEW winner \in Accounts, Settle(id, w, p, winner)
    PROVE  WealthFollows(id)
<1> SUFFICES ASSUME NEW t \in Tokens, NEW x \in Accounts
             PROVE  (balance'[t][x] - balance[t][x])
                      + (Claim(auctions'[id], t, x) - Claim(auctions[id], t, x))
                    = Trade(auctions'[id], settlements'[id], t, x)
                      - Trade(auctions[id], settlements[id], t, x)
    BY DEF WealthFollows
<1> DEFINE a == auctions[id]
           new == auctions'[id]
           sale == [winner |-> winner, winning_price |-> p]
           pay == a.terms.payment_token
           rwa == a.terms.rwa_token
           seller == a.terms.seller
           m == a.terms.max_price
           lot == a.terms.lot_amount
           credit == SettleCredit(a, w, p)
           total == SettleTotal(a, w, p)
           paid == PayOut(pay, credit, total)
           d == Deposits(a, x)
<1>1. a \in Auction /\ new \in Auction /\ a.status = "Open" /\ new.status = "Settled"
    BY SettleFacts DEF TypeOK, TouchesOnly
<1>2. /\ w \in Filled(a) /\ p > 0 /\ p <= m /\ a.bids[w].bidder = winner
      /\ CanPayOut(pay, credit, total) /\ CanTransfer(paid, rwa, Escrow, winner, lot)
      /\ balance' = Transfer(paid, rwa, Escrow, winner, lot)
      /\ auctions' = [auctions EXCEPT ![id].status = "Settled"]
      /\ settlements'[id] = sale
    BY DEF Settle
<1>3. new.terms = a.terms
    BY <1>1, <1>2 DEF TypeOK, Auction
<1>4. /\ m \in Nat /\ lot \in Nat /\ pay \in Tokens /\ rwa \in Tokens /\ seller \in Accounts
      /\ p \in Nat /\ d \in Nat
    BY <1>1, <1>2, TermsFacts, DepositsType, PricesAssumption
<1>5. /\ Claim(a, t, x) = (IF t = pay THEN d ELSE 0) + (IF t = rwa /\ x = seller THEN lot ELSE 0)
      /\ Claim(new, t, x) = 0
    BY <1>1, ClaimFacts
<1>6. credit \in [Accounts -> Nat]
    <2> DEFINE lost(y) == m * Cardinality(SlotsOf(a, y) \ {w})
               sold(y) == IF y = seller THEN p ELSE 0
               won(y) == IF y = a.bids[w].bidder THEN m - p ELSE 0
    <2>1. \A y \in Accounts : Cardinality(SlotsOf(a, y) \ {w}) \in Nat
        BY <1>1, SlotFacts
    <2>2. \A y \in Accounts : lost(y) \in Nat /\ sold(y) \in Nat /\ won(y) \in Nat
        BY <1>2, <1>4, <2>1
    <2>3. credit = [y \in Accounts |-> sold(y) + won(y) + lost(y)]
        BY DEF SettleCredit
    <2> HIDE DEF lost, sold, won, credit
    <2>4. \A y \in Accounts : sold(y) + won(y) + lost(y) \in Nat
        BY <2>2
    <2> QED BY <2>3, <2>4
<1>7. credit[x] = (IF x = seller THEN p ELSE 0) - (IF x = winner THEN p ELSE 0) + d
    <2>1. credit[x] = (IF x = seller THEN p ELSE 0) + (IF x = winner THEN m - p ELSE 0)
                      + m * Cardinality(SlotsOf(a, x) \ {w})
        BY <1>2 DEF SettleCredit
    <2>2. m * Cardinality(SlotsOf(a, x) \ {w}) = d - (IF x = winner THEN m ELSE 0)
        BY <1>1, <1>2, DepositsWithout
    <2> HIDE DEF a, m, d, credit, seller
    <2> QED BY <1>4, <2>1, <2>2
<1>8. balance \in Balances /\ balance[t][x] \in Nat /\ x \in Holders /\ x # Escrow
    BY BalanceType
<1>9. paid \in Balances /\ paid[t][x] = balance[t][x] + (IF t = pay THEN credit[x] ELSE 0)
    <2>1. total \in Nat
        BY <1>1, <1>2, <1>4, SettleTotalType
    <2> HIDE DEF pay, credit, total
    <2> QED BY <1>2, <1>4, <1>6, <1>8, <2>1, PayOutFacts, PayOutAt
<1>10. balance'[t][x] = paid[t][x] + (IF t = rwa /\ x = winner THEN lot ELSE 0)
    <2>1. Escrow \in Holders /\ winner \in Holders /\ Escrow # winner
        BY EscrowAssumption DEF Holders
    <2>2. paid[rwa][Escrow] >= lot
        BY <1>2 DEF CanTransfer
    <2> HIDE DEF paid, rwa, lot
    <2>3. balance'[t][x] = paid[t][x] + (IF t = rwa /\ x = winner THEN lot ELSE 0)
                           - (IF t = rwa /\ x = Escrow THEN lot ELSE 0)
        BY <1>2, <1>4, <1>8, <1>9, <2>1, <2>2, TransferAt
    <2>4. paid[t][x] \in Nat
        BY <1>8, <1>9 DEF Balances
    <2> QED BY <1>4, <1>8, <2>3, <2>4
<1>11. Trade(a, settlements[id], t, x) = 0
    BY <1>1 DEF Trade
<1>12. Trade(new, settlements'[id], t, x) =
            (IF pay = t /\ seller = x THEN p ELSE 0) - (IF pay = t /\ winner = x THEN p ELSE 0)
            + (IF rwa = t /\ winner = x THEN lot ELSE 0) - (IF rwa = t /\ seller = x THEN lot ELSE 0)
    <2>1. sale.winner = winner /\ sale.winning_price = p
        OBVIOUS
    <2> HIDE DEF sale
    <2> QED BY <1>1, <1>2, <1>3, <2>1 DEF Trade
<1>13. credit[x] \in Nat
    BY <1>6
<1> HIDE DEF a, new, pay, rwa, seller, m, lot, credit, paid, d
<1> QED BY <1>4, <1>5, <1>7, <1>8, <1>9, <1>10, <1>11, <1>12, <1>13 DEF a, new

LEMMA RefundAllWealth ==
    ASSUME TypeOK, NEW id \in AuctionIds, RefundAll(id)
    PROVE  WealthFollows(id)
<1> SUFFICES ASSUME NEW t \in Tokens, NEW x \in Accounts
             PROVE  (balance'[t][x] - balance[t][x])
                      + (Claim(auctions'[id], t, x) - Claim(auctions[id], t, x))
                    = Trade(auctions'[id], settlements'[id], t, x)
                      - Trade(auctions[id], settlements[id], t, x)
    BY DEF WealthFollows
<1> DEFINE a == auctions[id]
           new == auctions'[id]
           pay == a.terms.payment_token
           rwa == a.terms.rwa_token
           lot == a.terms.lot_amount
           seller == a.terms.seller
           credit == RefundCredit(a)
           total == RefundTotal(a)
           paid == PayOut(pay, credit, total)
           returns == CanTransfer(paid, rwa, Escrow, seller, lot)
           d == Deposits(a, x)
<1>1. a \in Auction /\ new \in Auction /\ a.status = "Open" /\ new.status = "Refunded"
    BY RefundAllFacts DEF TypeOK, TouchesOnly
<1>2. /\ CanPayOut(pay, credit, total)
      /\ auctions' = [auctions EXCEPT ![id].status = "Refunded", ![id].lot_reclaimed = returns]
      /\ balance' = IF returns THEN Transfer(paid, rwa, Escrow, seller, lot) ELSE paid
    BY DEF RefundAll, DepositsReturnable
<1>3. new.terms = a.terms /\ new.lot_reclaimed = returns
    <2>1. new = [a EXCEPT !.status = "Refunded", !.lot_reclaimed = returns]
        <3> HIDE DEF returns
        <3> QED BY <1>2 DEF TypeOK
    <2> HIDE DEF returns, a, new
    <2> QED BY <1>1, <2>1 DEF Auction
<1>4. /\ pay \in Tokens /\ rwa \in Tokens /\ lot \in Nat /\ seller \in Accounts
      /\ d \in Nat /\ a.terms.max_price \in Nat /\ Len(a.bids) \in Nat
    BY <1>1, TermsFacts, DepositsType
<1>5. /\ Claim(a, t, x) = (IF t = pay THEN d ELSE 0) + (IF t = rwa /\ x = seller THEN lot ELSE 0)
      /\ Claim(new, t, x) = IF t = rwa /\ x = seller /\ ~returns THEN lot ELSE 0
    <2> HIDE DEF returns
    <2> QED BY <1>1, <1>3, ClaimFacts
<1>6. credit \in [Accounts -> Nat] /\ credit[x] = d /\ total \in Nat
    <2>1. \A y \in Accounts : Deposits(a, y) \in Nat
        BY <1>1, DepositsType
    <2>2. credit = [y \in Accounts |-> Deposits(a, y)]
        BY DEF RefundCredit, Deposits
    <2>3. total \in Nat
        BY <1>4 DEF RefundTotal
    <2> HIDE DEF credit, total, a
    <2> QED BY <2>1, <2>2, <2>3
<1>7. balance \in Balances /\ balance[t][x] \in Nat /\ x \in Holders /\ x # Escrow
    BY BalanceType
<1>8. paid \in Balances /\ paid[t][x] = balance[t][x] + (IF t = pay THEN credit[x] ELSE 0)
    <2> HIDE DEF pay, credit, total
    <2> QED BY <1>2, <1>4, <1>6, <1>7, PayOutFacts, PayOutAt
<1>9. balance'[t][x] = paid[t][x] + (IF t = rwa /\ x = seller /\ returns THEN lot ELSE 0)
    <2>1. Escrow \in Holders /\ seller \in Holders /\ Escrow # seller
        BY <1>4, EscrowAssumption DEF Holders
    <2>2. returns => paid[rwa][Escrow] >= lot
        BY DEF CanTransfer
    <2>3. paid[t][x] \in Nat
        BY <1>7, <1>8 DEF Balances
    <2> HIDE DEF paid, rwa, lot, seller, returns
    <2>4. CASE returns
        <3>1. balance'[t][x] = paid[t][x] + (IF t = rwa /\ x = seller THEN lot ELSE 0)
                               - (IF t = rwa /\ x = Escrow THEN lot ELSE 0)
            BY <1>2, <1>4, <1>7, <1>8, <2>1, <2>2, <2>4, TransferAt
        <3> QED BY <1>4, <1>7, <2>3, <2>4, <3>1
    <2>5. CASE ~returns
        BY <1>2, <2>3, <2>5
    <2> QED BY <2>4, <2>5
<1>10. Trade(new, settlements'[id], t, x) = 0 /\ Trade(a, settlements[id], t, x) = 0
    BY <1>1 DEF Trade
<1> HIDE DEF a, new, pay, rwa, lot, seller, credit, paid, returns, d
<1> QED BY <1>4, <1>5, <1>6, <1>7, <1>8, <1>9, <1>10 DEF a, new

LEMMA ReclaimLotWealth ==
    ASSUME TypeOK, NEW id \in AuctionIds, ReclaimLot(id)
    PROVE  WealthFollows(id)
<1> SUFFICES ASSUME NEW t \in Tokens, NEW x \in Accounts
             PROVE  (balance'[t][x] - balance[t][x])
                      + (Claim(auctions'[id], t, x) - Claim(auctions[id], t, x))
                    = Trade(auctions'[id], settlements'[id], t, x)
                      - Trade(auctions[id], settlements[id], t, x)
    BY DEF WealthFollows
<1> DEFINE a == auctions[id]
           new == auctions'[id]
           rwa == a.terms.rwa_token
           lot == a.terms.lot_amount
           seller == a.terms.seller
<1>1. a \in Auction /\ new \in Auction /\ a.status = "Refunded" /\ new.status = "Refunded"
    BY ReclaimLotFacts DEF TypeOK, TouchesOnly
<1>2. /\ ~a.lot_reclaimed /\ balance[rwa][Escrow] >= lot
      /\ auctions' = [auctions EXCEPT ![id].lot_reclaimed = TRUE]
      /\ balance' = Transfer(balance, rwa, Escrow, seller, lot)
    BY DEF ReclaimLot, Reclaimable, CanTransfer
<1>3. new.terms = a.terms /\ new.lot_reclaimed
    BY <1>1, <1>2 DEF TypeOK, Auction
<1>4. rwa \in Tokens /\ lot \in Nat /\ seller \in Accounts
    BY <1>1, TermsFacts
<1>5. /\ Claim(a, t, x) = IF t = rwa /\ x = seller THEN lot ELSE 0
      /\ Claim(new, t, x) = 0
    <2> HIDE DEF a, new
    <2>1. Claim(a, t, x) = IF t = rwa /\ x = seller THEN lot ELSE 0
        BY <1>1, <1>2, <1>4, ClaimFacts
    <2>2. Claim(new, t, x) = 0
        BY <1>1, <1>3, ClaimFacts
    <2> QED BY <2>1, <2>2
<1>6. balance \in Balances /\ balance[t][x] \in Nat /\ x \in Holders /\ x # Escrow
    BY BalanceType
<1>7. balance'[t][x] = balance[t][x] + (IF t = rwa /\ x = seller THEN lot ELSE 0)
    <2>1. Escrow \in Holders /\ seller \in Holders /\ Escrow # seller
        BY <1>4, EscrowAssumption DEF Holders
    <2> HIDE DEF rwa, lot, seller
    <2>2. balance'[t][x] = balance[t][x] + (IF t = rwa /\ x = seller THEN lot ELSE 0)
                           - (IF t = rwa /\ x = Escrow THEN lot ELSE 0)
        BY <1>2, <1>4, <1>6, <2>1, TransferAt
    <2> QED BY <1>4, <1>6, <2>2
<1>8. Trade(new, settlements'[id], t, x) = 0 /\ Trade(a, settlements[id], t, x) = 0
    BY <1>1 DEF Trade
<1> HIDE DEF a, new, rwa, lot, seller
<1> QED BY <1>4, <1>5, <1>6, <1>7, <1>8 DEF a, new

\* A new auction's lot moves from its seller's balance to its claim.
LEMMA CreateAuctionWealth ==
    ASSUME TypeOK, NEW listing \in Listings, CreateAuction(listing)
    PROVE  \A t \in Tokens, x \in Accounts :
              /\ (balance'[t][x] - balance[t][x]) + Claim(auctions'[nextAuctionId], t, x) = 0
              /\ Trade(auctions'[nextAuctionId], settlements'[nextAuctionId], t, x) = 0
<1> SUFFICES ASSUME NEW t \in Tokens, NEW x \in Accounts
             PROVE  /\ (balance'[t][x] - balance[t][x]) + Claim(auctions'[nextAuctionId], t, x) = 0
                    /\ Trade(auctions'[nextAuctionId], settlements'[nextAuctionId], t, x) = 0
    OBVIOUS
<1> DEFINE new == auctions'[nextAuctionId]
           rwa == listing.rwa_token
           lot == listing.lot_amount
           seller == listing.seller
<1>1. new \in Auction /\ new.status = "Open"
    BY CreateAuctionFacts
<1>2. new.terms = listing /\ Len(new.bids) = 0
    BY DEF CreateAuction, NewAuction
<1>3. rwa \in Tokens /\ lot \in Nat /\ seller \in Accounts
    BY <1>1, <1>2, TermsFacts
<1>4. Claim(new, t, x) = IF t = rwa /\ x = seller THEN lot ELSE 0
    <2>1. Deposits(new, x) = 0
        BY <1>1, <1>2, DepositsNone
    <2>2. Claim(new, t, x) = (IF t = new.terms.payment_token THEN 0 ELSE 0)
                             + (IF t = rwa /\ x = seller THEN lot ELSE 0)
        <3> HIDE DEF new
        <3> QED BY <1>1, <1>2, <2>1, ClaimFacts
    <2> HIDE DEF new, rwa, lot, seller
    <2> QED BY <1>3, <2>2
<1>5. balance \in Balances /\ balance[t][x] \in Nat /\ x \in Holders /\ x # Escrow
    BY BalanceType
<1>6. balance'[t][x] = balance[t][x] - (IF t = rwa /\ x = seller THEN lot ELSE 0)
    <2>1. Escrow \in Holders /\ seller \in Holders /\ Escrow # seller
        BY <1>3, EscrowAssumption DEF Holders
    <2>2. balance' = Transfer(balance, rwa, seller, Escrow, lot) /\ balance[rwa][seller] >= lot
        BY DEF CreateAuction, CanTransfer
    <2> HIDE DEF rwa, lot, seller
    <2>3. balance'[t][x] = balance[t][x] + (IF t = rwa /\ x = Escrow THEN lot ELSE 0)
                           - (IF t = rwa /\ x = seller THEN lot ELSE 0)
        BY <1>3, <1>5, <2>1, <2>2, TransferAt
    <2> QED BY <1>3, <1>5, <2>3
<1>7. Trade(new, settlements'[nextAuctionId], t, x) = 0
    BY <1>1 DEF Trade
<1> HIDE DEF new, rwa, lot, seller
<1> QED BY <1>3, <1>4, <1>5, <1>6, <1>7 DEF new

-----------------------------------------------------------------------------
(* Every account is whole.                                                 *)

Claims(t, x) == [id \in AuctionIds |-> Claim(auctions[id], t, x)]
Trades(t, x) == [id \in AuctionIds |-> Traded(id, t, x)]

\* The terms of both sums, before and after a step.
LEMMA TermsOfSums ==
    ASSUME NEW t, NEW x
    PROVE  /\ \A id \in AuctionIds : Claims(t, x)[id] = Claim(auctions[id], t, x)
           /\ \A id \in AuctionIds : Trades(t, x)[id] = Trade(auctions[id], settlements[id], t, x)
           /\ \A id \in AuctionIds' : Claims(t, x)'[id] = Claim(auctions'[id], t, x)
           /\ \A id \in AuctionIds' : Trades(t, x)'[id] = Trade(auctions'[id], settlements'[id], t, x)
<1>1. \A id \in AuctionIds' : Claims(t, x)'[id] = Claim(auctions'[id], t, x)
    BY DEF Claims, Claim, LotHeld, SlotsOf, Filled
<1>2. \A id \in AuctionIds' : Trades(t, x)'[id] = Trade(auctions'[id], settlements'[id], t, x)
    BY DEF Trades, Traded, Trade
<1> QED BY <1>1, <1>2, TradedIsTrade DEF Claims, Trades

\* The terms are integers.
LEMMA SumTypes ==
    ASSUME TypeOK, NEW id \in AuctionIds, NEW t \in Tokens, NEW x \in Accounts
    PROVE  /\ Claim(auctions[id], t, x) \in Int
           /\ Trade(auctions[id], settlements[id], t, x) \in Int
<1>1. auctions[id] \in Auction
    BY DEF TypeOK
<1>2. auctions[id].status = "Settled" => settlements[id].winning_price \in Int
    BY PricesAssumption DEF TypeOK
<1> QED BY <1>1, <1>2, ClaimFacts, TradeType

\* Wholeness in terms of the two sums.
LEMMA WholeIsSums ==
    /\ EveryoneWhole <=>
         \A t \in Tokens, x \in Accounts :
            balance[t][x] + SumUpTo(Claims(t, x), nextAuctionId - 1)
              = Endowment[t][x] + SumUpTo(Trades(t, x), nextAuctionId - 1)
    /\ EveryoneWhole' <=>
         \A t \in Tokens, x \in Accounts :
            balance'[t][x] + SumUpTo(Claims(t, x)', nextAuctionId' - 1)
              = Endowment[t][x] + SumUpTo(Trades(t, x)', nextAuctionId' - 1)
BY DEF EveryoneWhole, Claims, Trades

\* A call that touches one auction, and moves every balance by what that
\* auction's claims and trades moved, keeps everybody whole.
LEMMA WholeKept ==
    ASSUME TypeOK, TypeOK', EveryoneWhole, NEW id \in AuctionIds,
           nextAuctionId' = nextAuctionId, TouchesOnly(id), WealthFollows(id),
           \A i \in AuctionIds :
              i # id /\ auctions[i].status = "Settled" => settlements'[i] = settlements[i]
    PROVE  EveryoneWhole'
<1> SUFFICES ASSUME NEW t \in Tokens, NEW x \in Accounts
             PROVE  balance'[t][x] + SumUpTo(Claims(t, x)', nextAuctionId' - 1)
                      = Endowment[t][x] + SumUpTo(Trades(t, x)', nextAuctionId' - 1)
    BY WholeIsSums
<1> DEFINE n == nextAuctionId - 1
           claims == Claims(t, x)
           nextClaims == Claims(t, x)'
           trades == Trades(t, x)
           nextTrades == Trades(t, x)'
<1>1. n \in Nat /\ AuctionIds = 1..n /\ AuctionIds' = 1..n /\ nextAuctionId' - 1 = n
    BY DEF TypeOK, AuctionIds
<1>2. \A i \in 1..n :
         /\ claims[i] = Claim(auctions[i], t, x)
         /\ nextClaims[i] = Claim(auctions'[i], t, x)
         /\ trades[i] = Trade(auctions[i], settlements[i], t, x)
         /\ nextTrades[i] = Trade(auctions'[i], settlements'[i], t, x)
    BY <1>1, TermsOfSums
<1>3. \A i \in 1..n :
         claims[i] \in Int /\ nextClaims[i] \in Int /\ trades[i] \in Int /\ nextTrades[i] \in Int
    <2> SUFFICES ASSUME NEW i \in 1..n
                 PROVE  /\ claims[i] \in Int /\ nextClaims[i] \in Int
                        /\ trades[i] \in Int /\ nextTrades[i] \in Int
        OBVIOUS
    <2>1. auctions'[i] \in Auction
        BY <1>1 DEF TypeOK
    <2>2. auctions'[i].status = "Settled" => settlements'[i].winning_price \in Int
        BY <1>1, PricesAssumption DEF TypeOK
    <2> HIDE DEF n, claims, nextClaims, trades, nextTrades
    <2>3. Claim(auctions'[i], t, x) \in Int
        BY <2>1, ClaimFacts
    <2>4. Trade(auctions'[i], settlements'[i], t, x) \in Int
        BY <2>1, <2>2, TradeType
    <2>5. Claim(auctions[i], t, x) \in Int /\ Trade(auctions[i], settlements[i], t, x) \in Int
        BY <1>1, SumTypes
    <2> QED BY <1>2, <2>3, <2>4, <2>5
<1>4. \A i \in 1..n : i # id => nextClaims[i] = claims[i] /\ nextTrades[i] = trades[i]
    <2> SUFFICES ASSUME NEW i \in 1..n, i # id
                 PROVE  nextClaims[i] = claims[i] /\ nextTrades[i] = trades[i]
        OBVIOUS
    <2>1. auctions'[i] = auctions[i]
        BY <1>1 DEF TouchesOnly
    <2>2. auctions[i].status = "Settled" => settlements'[i] = settlements[i]
        BY <1>1
    <2> HIDE DEF n, claims, nextClaims, trades, nextTrades
    <2>3. Trade(auctions'[i], settlements'[i], t, x) = Trade(auctions[i], settlements[i], t, x)
        BY <2>1, <2>2 DEF Trade
    <2> QED BY <1>2, <2>1, <2>3
<1>5. (balance'[t][x] - balance[t][x]) + (nextClaims[id] - claims[id])
        = nextTrades[id] - trades[id]
    BY <1>1, <1>2 DEF WealthFollows
<1>6. balance[t][x] + SumUpTo(claims, n) = Endowment[t][x] + SumUpTo(trades, n)
    BY WholeIsSums
<1>7. balance[t][x] \in Int /\ balance'[t][x] \in Int /\ Endowment[t][x] \in Int
    BY EndowmentAssumption DEF TypeOK, Holders
<1> HIDE DEF n, claims, nextClaims, trades, nextTrades
<1>8. SumUpTo(nextClaims, n) = SumUpTo(claims, n) + (nextClaims[id] - claims[id])
    <2>1. n \in Nat /\ id \in 1..n
        BY <1>1
    <2>2. \A i \in 1..n : claims[i] \in Int /\ nextClaims[i] \in Int
        BY <1>3
    <2>3. \A i \in 1..n : i # id => nextClaims[i] = claims[i]
        BY <1>4
    <2> QED BY <2>1, <2>2, <2>3, SumUpdate
<1>9. SumUpTo(nextTrades, n) = SumUpTo(trades, n) + (nextTrades[id] - trades[id])
    <2>1. n \in Nat /\ id \in 1..n
        BY <1>1
    <2>2. \A i \in 1..n : trades[i] \in Int /\ nextTrades[i] \in Int
        BY <1>3
    <2>3. \A i \in 1..n : i # id => nextTrades[i] = trades[i]
        BY <1>4
    <2> QED BY <2>1, <2>2, <2>3, SumUpdate
<1>10. SumUpTo(claims, n) \in Int /\ SumUpTo(trades, n) \in Int
    BY <1>1, <1>3, SumType
<1>11. /\ claims[id] \in Int /\ nextClaims[id] \in Int
       /\ trades[id] \in Int /\ nextTrades[id] \in Int
    BY <1>1, <1>3
<1>12. balance'[t][x] + SumUpTo(nextClaims, n) = Endowment[t][x] + SumUpTo(nextTrades, n)
    BY <1>5, <1>6, <1>7, <1>8, <1>9, <1>10, <1>11
<1> QED BY <1>1, <1>12 DEF nextClaims, nextTrades

\* Across any number of auctions, shared tokens and outages, an account's wealth
\* with its claims on the escrow changes only by the announced sales.
THEOREM EveryAccountIsWhole == Spec => []EveryoneWhole
<1>1. Init => EveryoneWhole
    <2> SUFFICES ASSUME Init, NEW t \in Tokens, NEW x \in Accounts
                 PROVE  balance[t][x] + SumUpTo(Claims(t, x), nextAuctionId - 1)
                          = Endowment[t][x] + SumUpTo(Trades(t, x), nextAuctionId - 1)
        BY WholeIsSums
    <2>1. balance = Endowment /\ nextAuctionId - 1 = 0
        BY DEF Init
    <2> QED BY <2>1, SumEmpty
<1>2. TypeOK /\ TypeOK' /\ EveryoneWhole /\ [Next]_vars => EveryoneWhole'
    <2> SUFFICES ASSUME TypeOK, TypeOK', EveryoneWhole, [Next]_vars PROVE EveryoneWhole'
        OBVIOUS
    <2>1. DOMAIN auctions = AuctionIds
        BY DEF TypeOK
    <2>2. ASSUME NEW listing \in Listings, CreateAuction(listing) PROVE EveryoneWhole'
        <3> SUFFICES ASSUME NEW t \in Tokens, NEW x \in Accounts
                     PROVE  balance'[t][x] + SumUpTo(Claims(t, x)', nextAuctionId' - 1)
                              = Endowment[t][x] + SumUpTo(Trades(t, x)', nextAuctionId' - 1)
            BY WholeIsSums
        <3> DEFINE n == nextAuctionId - 1
                   claims == Claims(t, x)
                   nextClaims == Claims(t, x)'
                   trades == Trades(t, x)
                   nextTrades == Trades(t, x)'
        <3>1. /\ n \in Nat /\ n + 1 = nextAuctionId /\ nextAuctionId' - 1 = n + 1
              /\ AuctionIds = 1..n /\ AuctionIds' = 1..(n + 1)
            <4>1. nextAuctionId \in Nat \ {0}
                BY DEF TypeOK
            <4>2. nextAuctionId' = nextAuctionId + 1
                BY <2>2, CreateAuctionFacts
            <4> QED BY <4>1, <4>2 DEF AuctionIds
        <3>2. \A i \in 1..n : /\ claims[i] = Claim(auctions[i], t, x)
                              /\ trades[i] = Trade(auctions[i], settlements[i], t, x)
            BY <3>1, TermsOfSums
        <3>3. \A i \in 1..(n + 1) :
                 /\ nextClaims[i] = Claim(auctions'[i], t, x)
                 /\ nextTrades[i] = Trade(auctions'[i], settlements'[i], t, x)
            BY <3>1, TermsOfSums
        <3>4. \A i \in 1..n : /\ claims[i] \in Int /\ nextClaims[i] = claims[i]
                              /\ trades[i] \in Int /\ nextTrades[i] = trades[i]
            <4> SUFFICES ASSUME NEW i \in 1..n
                         PROVE  /\ claims[i] \in Int /\ nextClaims[i] = claims[i]
                                /\ trades[i] \in Int /\ nextTrades[i] = trades[i]
                OBVIOUS
            <4>1. i \in AuctionIds /\ i \in 1..(n + 1)
                BY <3>1
            <4>2. auctions'[i] = auctions[i] /\ settlements' = settlements
                BY <2>2, <4>1, CreateAuctionFacts DEF CreateAuction
            <4>3. Claim(auctions[i], t, x) \in Int /\ Trade(auctions[i], settlements[i], t, x) \in Int
                BY <4>1, SumTypes
            <4> HIDE DEF n, claims, nextClaims, trades, nextTrades
            <4> QED BY <3>2, <3>3, <4>1, <4>2, <4>3
        <3>5. /\ (balance'[t][x] - balance[t][x]) + nextClaims[n + 1] = 0
              /\ nextTrades[n + 1] = 0
            <4> HIDE DEF claims, nextClaims, trades, nextTrades
            <4> QED BY <2>2, <3>1, <3>3, CreateAuctionWealth
        <3>6. nextClaims[n + 1] \in Int
            <4>1. n + 1 \in AuctionIds' /\ n + 1 \in 1..(n + 1)
                BY <3>1
            <4>2. auctions'[n + 1] \in Auction
                BY <4>1 DEF TypeOK
            <4> HIDE DEF n, claims, nextClaims, trades, nextTrades
            <4> QED BY <3>3, <4>1, <4>2, ClaimFacts
        <3>7. balance[t][x] + SumUpTo(claims, n) = Endowment[t][x] + SumUpTo(trades, n)
            BY WholeIsSums
        <3>8. balance[t][x] \in Int /\ balance'[t][x] \in Int /\ Endowment[t][x] \in Int
            BY EndowmentAssumption DEF TypeOK, Holders
        <3> HIDE DEF n, claims, nextClaims, trades, nextTrades
        <3>9. SumUpTo(nextClaims, n + 1) = SumUpTo(claims, n) + nextClaims[n + 1]
            BY <3>1, <3>4, <3>6, SumExtend
        <3>10. SumUpTo(nextTrades, n + 1) = SumUpTo(trades, n) + nextTrades[n + 1]
            <4>1. nextTrades[n + 1] \in Int
                BY <3>5
            <4> QED BY <3>1, <3>4, <4>1, SumExtend
        <3>11. SumUpTo(claims, n) \in Int /\ SumUpTo(trades, n) \in Int
            BY <3>1, <3>4, SumType
        <3>12. balance'[t][x] + SumUpTo(nextClaims, n + 1)
                 = Endowment[t][x] + SumUpTo(nextTrades, n + 1)
            BY <3>5, <3>6, <3>7, <3>8, <3>9, <3>10, <3>11
        <3> QED BY <3>1, <3>12 DEF nextClaims, nextTrades
    <2>3. ASSUME NEW id \in AuctionIds, NEW bidder \in Accounts,
                 NEW commitment \in SealedBids \cup {EmptyCommitment},
                 NEW len \in EncryptedLengths, PlaceBid(id, bidder, commitment, len)
          PROVE  EveryoneWhole'
        <3>1. nextAuctionId' = nextAuctionId /\ settlements' = settlements
            BY <2>3 DEF PlaceBid
        <3> QED BY <2>3, <3>1, PlaceBidFacts, PlaceBidWealth, WholeKept
    <2>4. ASSUME NEW id \in AuctionIds, NEW w \in Slots, NEW p \in Prices, NEW x \in Accounts,
                 Settle(id, w, p, x)
          PROVE  EveryoneWhole'
        <3>1. nextAuctionId' = nextAuctionId
            BY <2>4 DEF Settle
        <3>2. \A i \in AuctionIds :
                 i # id /\ auctions[i].status = "Settled" => settlements'[i] = settlements[i]
            BY <2>4 DEF Settle, TypeOK
        <3> QED BY <2>4, <3>1, <3>2, SettleFacts, SettleWealth, WholeKept
    <2>5. ASSUME NEW id \in AuctionIds, RefundAll(id) PROVE EveryoneWhole'
        <3>1. nextAuctionId' = nextAuctionId /\ settlements' = settlements
            BY <2>5 DEF RefundAll
        <3> QED BY <2>5, <3>1, RefundAllFacts, RefundAllWealth, WholeKept
    <2>6. ASSUME NEW id \in AuctionIds, ReclaimLot(id) PROVE EveryoneWhole'
        <3>1. nextAuctionId' = nextAuctionId /\ settlements' = settlements
            BY <2>6 DEF ReclaimLot
        <3> QED BY <2>6, <3>1, ReclaimLotFacts, ReclaimLotWealth, WholeKept
    <2>7. CASE Environment \/ UNCHANGED vars
        <3>1. UNCHANGED <<nextAuctionId, auctions, balance, settlements>>
            BY <2>7 DEF Environment, Tick, StartTrapping, StopTrapping, StartRefusing,
                        StopRefusing, vars
        <3>2. \A t \in Tokens, x \in Accounts :
                 Claims(t, x)' = Claims(t, x) /\ Trades(t, x)' = Trades(t, x)
            BY <3>1 DEF Claims, Trades, AuctionIds, Claim, LotHeld, SlotsOf, Filled, Traded
        <3> QED BY <3>1, <3>2, WholeIsSums
    <2> QED BY <2>1, <2>2, <2>3, <2>4, <2>5, <2>6, <2>7 DEF Next, ContractCall
<1> QED BY <1>1, <1>2, TypeCorrect, PTL DEF Spec
=============================================================================
