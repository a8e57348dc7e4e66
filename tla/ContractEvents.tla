--------------------------- MODULE ContractEvents ---------------------------
(***************************************************************************)
(* The escrow contract as its readers see it: the stored auctions, which   *)
(* get_auction returns, and the log of the events that contracts/auction/  *)
(* src/lib.rs publishes.  Amounts, deadlines and commitments are left out; *)
(* SealedAuction has them.  A ledger holds at most one call here, so a     *)
(* ledger with several calls is a run of consecutive ledgers, and a call   *)
(* may be made whenever some choice of deadlines would allow it.           *)
(***************************************************************************)
EXTENDS Integers, Sequences

CONSTANTS
    Bidders,
    MAX_BID_SLOTS,
    MaxAuctions,        \* bound: auctions created
    MaxCalls            \* bound: ledgers that hold a call

ASSUME ContractAssumption ==
    /\ MAX_BID_SLOTS \in Nat \ {0}
    /\ MaxAuctions \in Nat /\ MaxCalls \in Nat

VARIABLES
    auctions,           \* the stored auctions, densely numbered from 1
    events              \* the events published, oldest first

chain == <<auctions, events>>

Ids == 1..MaxAuctions
Statuses == {"Open", "Settled", "Refunded"}

Auction == [status : Statuses, bids : Seq(Bidders), lot_reclaimed : BOOLEAN]

\* The number of the latest closed ledger.
LatestLedger == IF events = <<>> THEN 1 ELSE events[Len(events)].ledger

\* An event carries the ledger it is in, its topics and the data readers use.
AuctionCreated(id) ==
    [name |-> "auction_created", ledger |-> LatestLedger + 1, auction_id |-> id]
BidPlaced(id, slot, who) ==
    [name |-> "bid_placed", ledger |-> LatestLedger + 1, auction_id |-> id,
     slot_index |-> slot, bidder |-> who]
AuctionSettled(id, who) ==
    [name |-> "auction_settled", ledger |-> LatestLedger + 1, auction_id |-> id,
     winner |-> who]
AuctionRefunded(id) ==
    [name |-> "auction_refunded", ledger |-> LatestLedger + 1, auction_id |-> id]
LotReturnFailed(id) ==
    [name |-> "lot_return_failed", ledger |-> LatestLedger + 1, auction_id |-> id]
LotReclaimed(id) ==
    [name |-> "lot_reclaimed", ledger |-> LatestLedger + 1, auction_id |-> id]

Publish(published) ==
    /\ LatestLedger <= MaxCalls
    /\ events' = events \o published

-----------------------------------------------------------------------------
ChainInit ==
    /\ auctions = <<>>
    /\ events = <<>>

CreateAuction ==
    /\ Len(auctions) < MaxAuctions
    /\ auctions' = Append(auctions, [status |-> "Open", bids |-> <<>>,
                                     lot_reclaimed |-> FALSE])
    /\ Publish(<<AuctionCreated(Len(auctions) + 1)>>)

PlaceBid(id, who) ==
    /\ auctions[id].status = "Open"
    /\ Len(auctions[id].bids) < MAX_BID_SLOTS
    /\ auctions' = [auctions EXCEPT ![id].bids = Append(auctions[id].bids, who)]
    /\ Publish(<<BidPlaced(id, Len(auctions[id].bids), who)>>)

\* The winner's slot holds a bid, and the price it pays is another bid's.
Settle(id, slot) ==
    /\ auctions[id].status = "Open"
    /\ Len(auctions[id].bids) > 1
    /\ slot \in DOMAIN auctions[id].bids
    /\ auctions' = [auctions EXCEPT ![id].status = "Settled"]
    /\ Publish(<<AuctionSettled(id, auctions[id].bids[slot])>>)

\* The deposits go back and so does the lot; a lot token that traps leaves the
\* lot in escrow.  Only the second case publishes an event about the lot.
RefundAll(id, lot_returned) ==
    /\ auctions[id].status = "Open"
    /\ auctions' = [auctions EXCEPT ![id].status = "Refunded",
                                    ![id].lot_reclaimed = lot_returned]
    /\ Publish(IF lot_returned THEN <<AuctionRefunded(id)>>
               ELSE <<LotReturnFailed(id), AuctionRefunded(id)>>)

ReclaimLot(id) ==
    /\ auctions[id].status = "Refunded"
    /\ ~auctions[id].lot_reclaimed
    /\ auctions' = [auctions EXCEPT ![id].lot_reclaimed = TRUE]
    /\ Publish(<<LotReclaimed(id)>>)

ContractCall ==
    \/ CreateAuction
    \/ \E id \in DOMAIN auctions :
        \/ \E who \in Bidders : PlaceBid(id, who)
        \/ \E slot \in 1..MAX_BID_SLOTS : Settle(id, slot)
        \/ \E lot_returned \in BOOLEAN : RefundAll(id, lot_returned)
        \/ ReclaimLot(id)
=============================================================================
