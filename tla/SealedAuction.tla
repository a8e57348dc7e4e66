--------------------------- MODULE SealedAuction ----------------------------
(***************************************************************************)
(* The escrow contract, contracts/auction/src/lib.rs.  One instance holds  *)
(* the lots and the deposits of every auction in one pool per token.       *)
(*                                                                         *)
(* A Soroban invocation is atomic: an error return or a trapping token     *)
(* transfer rolls the whole call back, so a failed call is a stuttering    *)
(* step and an action below is one successful invocation.  Its guard is    *)
(* the conjunction of the handler's early returns, in the code's order.    *)
(* Any account may call settle, refund_all and reclaim_lot, so the caller  *)
(* is no parameter of those actions.                                       *)
(*                                                                         *)
(* Tokens are external contracts with the SEP-41 transfer.  A token may    *)
(* trap on every transfer, or refuse one receiver (a removed trustline, a  *)
(* revoked authorization); the environment decides when.                   *)
(***************************************************************************)
EXTENDS AuctionWinner, Sequences, Sums

CONSTANTS
    Accounts,               \* sellers and bidders
    Escrow,                 \* the contract's own address
    Tokens,
    Listings,               \* the argument lists create_auction may be given
    SealedBids,             \* the non-zero commitments a bidder may submit
    EncryptedLengths,       \* lengths of the encrypted_bid argument
    MAX_ENCRYPTED_BID_BYTES,
    Prices,                 \* winning_price arguments a caller of settle tries
    Endowment,              \* token -> holder -> initial balance
    MayTrap,                \* tokens that may start trapping
    MayRefuse,              \* <<token, account>> pairs that may stop receiving
    MaxOutages,             \* bound: outages the environment may start
    MaxAuctions,            \* bound: auctions created
    MaxTime                 \* bound: the last ledger timestamp

\* Definitions named ...Faulty are plausible slips of the definition after them;
\* no action uses them, they are there to be swapped in.

Holders == Accounts \cup {Escrow}

Listing == [seller : Accounts, rwa_token : Tokens, lot_amount : Int,
            payment_token : Tokens, max_price : Int, commit_deadline : 0..U64Max,
            grace_period : 0..U64Max, whitelist_root : SUBSET Accounts]

ASSUME EscrowAssumption == Escrow \notin Accounts
ASSUME ListingsAssumption == Listings \subseteq Listing
ASSUME CommitmentsAssumption == EmptyCommitment \notin SealedBids
ASSUME PricesAssumption == Prices \subseteq Int
ASSUME EndowmentAssumption ==
    /\ Endowment \in [Tokens -> [Holders -> Nat]]
    /\ \A t \in Tokens : Endowment[t][Escrow] = 0
ASSUME BoundsAssumption ==
    /\ MaxOutages \in Nat /\ MaxAuctions \in Nat /\ MaxTime \in Nat
ASSUME OutagesAssumption ==
    /\ MayTrap \subseteq Tokens
    /\ MayRefuse \subseteq Tokens \X Accounts

VARIABLES
    now,            \* env.ledger().timestamp()
    nextAuctionId,  \* DataKey::NextAuctionId
    auctions,       \* DataKey::Auction(id), for the ids in use
    settlements,    \* the AuctionSettled events published, by auction id
    balance,        \* token -> holder -> amount
    trapping,       \* tokens on which every transfer traps
    refusing,       \* <<token, account>>: a transfer to the account traps
    outages         \* outages started so far, at most MaxOutages

vars == <<now, nextAuctionId, auctions, settlements, balance, trapping,
          refusing, outages>>

-----------------------------------------------------------------------------
(* Stored types and helpers.                                               *)

Bid == [bidder : Accounts, commitment : SealedBids]

Statuses == {"Open", "Settled", "Refunded"}

\* Listings whose amounts create_auction lets through.
AcceptedListings ==
    {l \in Listings : l.lot_amount > 0 /\ l.max_price > 0 /\ l.max_price <= U64Max}

Auction == [terms : AcceptedListings, status : Statuses, bids : Seq(Bid), lot_reclaimed : BOOLEAN]

NewAuction(listing) ==
    [terms |-> listing, status |-> "Open", bids |-> <<>>, lot_reclaimed |-> FALSE]

\* ensure_open: AlreadySettled, AlreadyRefunded.
EnsureOpenFaulty(a) == a.status # "Settled"
EnsureOpen(a) == a.status = "Open"

\* place_bid's BidAfterDeadline against settle's SettleBeforeDeadline.
BeforeDeadlineFaulty(a) == now <= a.terms.commit_deadline
BeforeDeadline(a) == now < a.terms.commit_deadline

\* u64::saturating_add.
SaturatingAddFaulty(a, b) == (a + b) % (U64Max + 1)
SaturatingAdd(a, b) == IF a + b > U64Max THEN U64Max ELSE a + b

RefundUnlockTime(a) == SaturatingAdd(a.terms.commit_deadline, a.terms.grace_period)

\* ReclaimRequiresRefundedAuction, LotAlreadyReclaimed.
ReclaimableFaulty(a) == EnsureOpen(a) /\ ~a.lot_reclaimed
Reclaimable(a) == a.status = "Refunded" /\ ~a.lot_reclaimed

\* The slots of an auction that hold a bid, and those of one bidder.
Filled(a) == 1..Len(a.bids)

SlotsOf(a, x) == {i \in Filled(a) : a.bids[i].bidder = x}

\* CommitmentIsEmptyMarker, DuplicateCommitment.
AcceptsCommitmentFaulty(a, commitment) ==
    \A i \in Filled(a) : a.bids[i].commitment # commitment
AcceptsCommitment(a, commitment) ==
    /\ commitment # EmptyCommitment
    /\ \A i \in Filled(a) : a.bids[i].commitment # commitment

\* The 13 public signals, rebuilt from storage and the caller's claim.
BuildPublicSignals(id, a, winner_index, winning_price, winner_address) ==
    [auctionId      |-> id,
     commitments    |-> [i \in Slots |-> IF i <= Len(a.bids) THEN a.bids[i].commitment
                                         ELSE EmptyCommitment],
     winnerIndex    |-> winner_index,
     winningPrice   |-> winning_price,
     whitelistRoot  |-> a.terms.whitelist_root,
     winnerAddrHash |-> winner_address]

-----------------------------------------------------------------------------
(* The token contracts.                                                    *)

\* Whether a transfer of amount to the holder goes through.
CanTransfer(bal, token, from, to, amount) ==
    /\ token \notin trapping
    /\ <<token, to>> \notin refusing
    /\ bal[token][from] >= amount

Transfer(bal, token, from, to, amount) ==
    [bal EXCEPT ![token] =
        [h \in Holders |-> IF h = from THEN bal[token][h] - amount
                           ELSE IF h = to THEN bal[token][h] + amount
                           ELSE bal[token][h]]]

\* A run of transfers out of escrow in one invocation: credit maps each account
\* to what it gets.  The first leg that traps rolls all of them back, so the
\* order of the legs is immaterial.
CanPayOut(token, credit, total) ==
    /\ total > 0 => token \notin trapping
    /\ \A x \in Accounts : credit[x] > 0 => <<token, x>> \notin refusing
    /\ balance[token][Escrow] >= total

PayOut(token, credit, total) ==
    [balance EXCEPT ![token] =
        [h \in Holders |-> IF h = Escrow THEN balance[token][h] - total
                           ELSE balance[token][h] + credit[h]]]

-----------------------------------------------------------------------------
Init ==
    /\ now = 0
    /\ nextAuctionId = 1
    /\ auctions = [id \in {} |-> id]
    /\ settlements = [id \in {} |-> id]
    /\ balance = Endowment
    /\ trapping = {}
    /\ refusing = {}
    /\ outages = 0

CreateAuction(listing) ==
    /\ nextAuctionId <= MaxAuctions
    /\ listing.lot_amount > 0
    /\ listing.max_price > 0
    /\ listing.max_price <= U64Max
    /\ listing.commit_deadline > now
    /\ listing.grace_period # 0
    /\ CanTransfer(balance, listing.rwa_token, listing.seller, Escrow, listing.lot_amount)
    /\ nextAuctionId' = nextAuctionId + 1
    /\ balance' = Transfer(balance, listing.rwa_token, listing.seller, Escrow,
                           listing.lot_amount)
    /\ auctions' = [id \in DOMAIN auctions \cup {nextAuctionId} |->
                        IF id = nextAuctionId THEN NewAuction(listing) ELSE auctions[id]]
    /\ UNCHANGED <<now, settlements, trapping, refusing, outages>>

PlaceBid(id, bidder, commitment, encrypted_len) ==
    LET a == auctions[id] IN
    /\ EnsureOpen(a)
    /\ BeforeDeadline(a)
    /\ Len(a.bids) < MaxBidSlots
    /\ AcceptsCommitment(a, commitment)
    /\ encrypted_len <= MAX_ENCRYPTED_BID_BYTES
    /\ CanTransfer(balance, a.terms.payment_token, bidder, Escrow, a.terms.max_price)
    /\ balance' = Transfer(balance, a.terms.payment_token, bidder, Escrow,
                           a.terms.max_price)
    /\ auctions' = [auctions EXCEPT ![id].bids =
                        Append(a.bids, [bidder |-> bidder, commitment |-> commitment])]
    /\ UNCHANGED <<now, nextAuctionId, settlements, trapping, refusing, outages>>

SettleCreditFaulty(a, winner_index, winning_price) ==
    [x \in Accounts |->
        (IF x = a.terms.seller THEN a.terms.max_price ELSE 0)
        + a.terms.max_price * Cardinality(SlotsOf(a, x) \ {winner_index})]

\* What settle pays in the payment token: the clearing price to the seller, the
\* rest of the winner's deposit back to the winner, every other deposit back.
SettleCredit(a, winner_index, winning_price) ==
    [x \in Accounts |->
        (IF x = a.terms.seller THEN winning_price ELSE 0)
        + (IF x = a.bids[winner_index].bidder THEN a.terms.max_price - winning_price ELSE 0)
        + a.terms.max_price * Cardinality(SlotsOf(a, x) \ {winner_index})]

SettleTotal(a, winner_index, winning_price) ==
    winning_price + (a.terms.max_price - winning_price)
        + a.terms.max_price * Cardinality(Filled(a) \ {winner_index})

Settle(id, winner_index, winning_price, winner_address) ==
    LET a      == auctions[id]
        credit == SettleCredit(a, winner_index, winning_price)
        total  == SettleTotal(a, winner_index, winning_price)
        paid   == PayOut(a.terms.payment_token, credit, total)
    IN
    /\ EnsureOpen(a)
    /\ now >= a.terms.commit_deadline
    /\ winner_index \in Filled(a)
    /\ winning_price > 0
    /\ winning_price <= a.terms.max_price
    /\ a.bids[winner_index].bidder = winner_address
    /\ Verify(BuildPublicSignals(id, a, winner_index, winning_price, winner_address))
    /\ CanPayOut(a.terms.payment_token, credit, total)
    /\ CanTransfer(paid, a.terms.rwa_token, Escrow, winner_address, a.terms.lot_amount)
    /\ auctions' = [auctions EXCEPT ![id].status = "Settled"]
    /\ balance' = Transfer(paid, a.terms.rwa_token, Escrow, winner_address,
                           a.terms.lot_amount)
    /\ settlements' = [i \in DOMAIN settlements \cup {id} |->
                          IF i = id THEN [winner |-> winner_address,
                                          winning_price |-> winning_price]
                          ELSE settlements[i]]
    /\ UNCHANGED <<now, nextAuctionId, trapping, refusing, outages>>

RefundCredit(a) ==
    [x \in Accounts |-> a.terms.max_price * Cardinality(SlotsOf(a, x))]

RefundTotal(a) == a.terms.max_price * Len(a.bids)

\* All deposits can go back.  The lot's leg takes no part in it.
DepositsReturnableFaulty(a) ==
    /\ CanPayOut(a.terms.payment_token, RefundCredit(a), RefundTotal(a))
    /\ CanTransfer(PayOut(a.terms.payment_token, RefundCredit(a), RefundTotal(a)),
                   a.terms.rwa_token, Escrow, a.terms.seller, a.terms.lot_amount)
DepositsReturnable(a) ==
    CanPayOut(a.terms.payment_token, RefundCredit(a), RefundTotal(a))

\* The deposits go back or the call reverts; the lot's own transfer is a
\* try_transfer whose failure only leaves the lot parked in escrow.
RefundAll(id) ==
    LET a    == auctions[id]
        paid == PayOut(a.terms.payment_token, RefundCredit(a), RefundTotal(a))
        lot_returns == CanTransfer(paid, a.terms.rwa_token, Escrow, a.terms.seller,
                                   a.terms.lot_amount)
    IN
    /\ EnsureOpen(a)
    /\ now >= RefundUnlockTime(a)
    /\ DepositsReturnable(a)
    /\ auctions' = [auctions EXCEPT ![id].status = "Refunded",
                                    ![id].lot_reclaimed = lot_returns]
    /\ balance' = IF lot_returns
                  THEN Transfer(paid, a.terms.rwa_token, Escrow, a.terms.seller,
                                a.terms.lot_amount)
                  ELSE paid
    /\ UNCHANGED <<now, nextAuctionId, settlements, trapping, refusing, outages>>

ReclaimLot(id) ==
    LET a == auctions[id] IN
    /\ Reclaimable(a)
    /\ CanTransfer(balance, a.terms.rwa_token, Escrow, a.terms.seller, a.terms.lot_amount)
    /\ auctions' = [auctions EXCEPT ![id].lot_reclaimed = TRUE]
    /\ balance' = Transfer(balance, a.terms.rwa_token, Escrow, a.terms.seller,
                           a.terms.lot_amount)
    /\ UNCHANGED <<now, nextAuctionId, settlements, trapping, refusing, outages>>

-----------------------------------------------------------------------------
(* The environment: the ledger's clock and the tokens' issuers.            *)

Tick ==
    /\ now < MaxTime
    /\ now' = now + 1
    /\ UNCHANGED <<nextAuctionId, auctions, settlements, balance, trapping, refusing, outages>>

StartTrapping(token) ==
    /\ outages < MaxOutages
    /\ token \notin trapping
    /\ trapping' = trapping \cup {token}
    /\ outages' = outages + 1
    /\ UNCHANGED <<now, nextAuctionId, auctions, settlements, balance, refusing>>

StopTrapping(token) ==
    /\ token \in trapping
    /\ trapping' = trapping \ {token}
    /\ UNCHANGED <<now, nextAuctionId, auctions, settlements, balance, refusing, outages>>

StartRefusing(token, account) ==
    /\ outages < MaxOutages
    /\ <<token, account>> \notin refusing
    /\ refusing' = refusing \cup {<<token, account>>}
    /\ outages' = outages + 1
    /\ UNCHANGED <<now, nextAuctionId, auctions, settlements, balance, trapping>>

StopRefusing(token, account) ==
    /\ <<token, account>> \in refusing
    /\ refusing' = refusing \ {<<token, account>>}
    /\ UNCHANGED <<now, nextAuctionId, auctions, settlements, balance, trapping, outages>>

ContractCall ==
    \/ \E listing \in Listings : CreateAuction(listing)
    \/ \E id \in DOMAIN auctions :
        \/ \E bidder \in Accounts, commitment \in SealedBids \cup {EmptyCommitment},
              encrypted_len \in EncryptedLengths :
                PlaceBid(id, bidder, commitment, encrypted_len)
        \/ \E winner_index \in Slots, winning_price \in Prices, winner_address \in Accounts :
                Settle(id, winner_index, winning_price, winner_address)
        \/ RefundAll(id)
        \/ ReclaimLot(id)

Environment ==
    \/ Tick
    \/ \E token \in MayTrap : StartTrapping(token) \/ StopTrapping(token)
    \/ \E pair \in MayRefuse : \/ StartRefusing(pair[1], pair[2])
                               \/ StopRefusing(pair[1], pair[2])

Next == ContractCall \/ Environment

Spec == Init /\ [][Next]_vars

-----------------------------------------------------------------------------
(* Correctness.                                                            *)

AuctionIds == 1..(nextAuctionId - 1)

TypeOK ==
    /\ now \in 0..MaxTime
    /\ nextAuctionId \in 1..(MaxAuctions + 1)
    /\ auctions \in [AuctionIds -> Auction]
    /\ DOMAIN settlements = {id \in AuctionIds : auctions[id].status = "Settled"}
    /\ \A id \in DOMAIN settlements :
            settlements[id] \in [winner : Accounts, winning_price : Prices]
    /\ balance \in [Tokens -> [Holders -> Nat]]
    /\ trapping \subseteq MayTrap
    /\ refusing \subseteq MayRefuse
    /\ outages \in 0..MaxOutages

\* What the pool holds for one auction: every deposit while it is open, and the
\* lot until it is sold or has gone back.
LotHeld(a) == a.status = "Open" \/ (a.status = "Refunded" /\ ~a.lot_reclaimed)

Owed(a, t) ==
    (IF a.status = "Open" /\ a.terms.payment_token = t
     THEN a.terms.max_price * Len(a.bids) ELSE 0)
    + (IF LotHeld(a) /\ a.terms.rwa_token = t THEN a.terms.lot_amount ELSE 0)

OwedByAuction(t) == [id \in AuctionIds |-> Owed(auctions[id], t)]

\* The escrow pools the tokens of all auctions, and one auction's lot may be
\* another's payment token.  At every moment it holds exactly what the open and
\* parked auctions are owed: no payout draws on another auction's funds, and
\* nothing is left behind (the transfers of create_auction, place_bid, settle,
\* refund_all and reclaim_lot).
Solvency ==
    \A t \in Tokens : balance[t][Escrow] = SumUpTo(OwedByAuction(t), nextAuctionId - 1)

\* What one account still has in escrow for one auction, and what a settlement
\* gave and took.
Claim(a, t, x) ==
    (IF a.status = "Open" /\ a.terms.payment_token = t
     THEN a.terms.max_price * Cardinality(SlotsOf(a, x)) ELSE 0)
    + (IF LotHeld(a) /\ a.terms.rwa_token = t /\ a.terms.seller = x
       THEN a.terms.lot_amount ELSE 0)

Traded(id, t, x) ==
    LET a    == auctions[id]
        sale == settlements[id]
        gain(token, who, amount) == IF token = t /\ who = x THEN amount ELSE 0
    IN  IF a.status # "Settled" THEN 0
        ELSE gain(a.terms.payment_token, a.terms.seller, sale.winning_price)
             - gain(a.terms.payment_token, sale.winner, sale.winning_price)
             + gain(a.terms.rwa_token, sale.winner, a.terms.lot_amount)
             - gain(a.terms.rwa_token, a.terms.seller, a.terms.lot_amount)

\* Across any number of auctions an account's wealth, counting what it has in
\* escrow, changes only by the announced sales: the winner pays the clearing
\* price once and gets the lot, the seller the reverse, and every loser, every
\* refunded bidder and every seller of an unsold lot ends with what it started
\* with (the payout legs of settle, refund_all and reclaim_lot).
EveryoneWhole ==
    \A t \in Tokens, x \in Accounts :
        balance[t][x]
          + SumUpTo([id \in AuctionIds |-> Claim(auctions[id], t, x)], nextAuctionId - 1)
        = Endowment[t][x]
          + SumUpTo([id \in AuctionIds |-> Traded(id, t, x)], nextAuctionId - 1)

\* A proof exists for this slot as the winner at this price.
Provable(id, slot, price) ==
    /\ slot \in Filled(auctions[id])
    /\ Verify(BuildPublicSignals(id, auctions[id], slot, price, auctions[id].bids[slot].bidder))

\* settle is permissionless and its caller names the winner and the price: the
\* book alone must leave no choice of either (ties, equal bids of one bidder,
\* commitments replayed from another auction).
AtMostOneOutcome ==
    \A id \in AuctionIds :
        Cardinality({o \in Slots \X Prices : Provable(id, o[1], o[2])}) <= 1

\* The operator reads the book after the deadline and takes minutes to prove:
\* no call that lands meanwhile changes the signals under that proof (place_bid's
\* deadline check against settle's).
KeepsProofs ==
    \A id \in AuctionIds, slot \in Slots, price \in Prices :
        now >= auctions[id].terms.commit_deadline /\ Provable(id, slot, price)
        => Provable(id, slot, price)'

ProofsStayValid == [][KeepsProofs]_vars

\* A refund never cuts the operator's grace period short, whatever period the
\* seller chose: the unlock time saturates, it does not wrap.
GraceHonoured ==
    \A id \in AuctionIds :
        auctions[id].status = "Refunded" =>
            \/ now >= auctions[id].terms.commit_deadline + auctions[id].terms.grace_period
            \/ now >= U64Max

-----------------------------------------------------------------------------
(* The refinement of IdealAuction: a sealed bid is an offer of the price   *)
(* it commits to, valid when it was sealed for this auction and in range.  *)

OffersOf(id) ==
    [i \in 1..Len(auctions[id].bids) |->
        LET c == auctions[id].bids[i].commitment
        IN  [bidder |-> auctions[id].bids[i].bidder,
             price  |-> c.price,
             valid  |-> c.auctionId = id /\ c.price <= U64Max]]

PhaseOf(a) ==
    CASE a.status = "Settled"  -> "sold"
      [] a.status = "Refunded" -> "returned"
      [] a.status = "Open"     -> IF now < a.terms.commit_deadline THEN "bidding" ELSE "closed"

HouseOf ==
    [id \in DOMAIN auctions |->
        LET a == auctions[id]
        IN  [terms   |-> a.terms,
             phase   |-> PhaseOf(a),
             offers  |-> OffersOf(id),
             deal    |-> IF a.status = "Settled" THEN settlements[id] ELSE EmptyCommitment,
             custody |-> IF LotHeld(a) THEN "house"
                         ELSE IF a.status = "Settled" THEN "winner" ELSE "seller"]]

Ideal == INSTANCE IdealAuction WITH
    Bidders <- Accounts, Terms <- Listings, MaxOffers <- MaxBidSlots,
    OfferPrices <- {c.price : c \in SealedBids}, LotNumbers <- 1..MaxAuctions,
    NoSale <- EmptyCommitment, house <- HouseOf

\* Every behaviour of the contract is one of the trusted auction house: each
\* lot is sold at most once, to the highest sealed price at the best rival
\* price, on the terms it was listed under, and no outcome is ever revised.
ImplementsIdealAuction == Ideal!Spec
=============================================================================
