--------------------------- MODULE IndexerProofs ----------------------------
(***************************************************************************)
(* The index, for any number of auctions, bidders and faults and any page  *)
(* sizes: no row shows what the chain does not have, none takes back what  *)
(* it showed, and the cursor passes no event that was not brought.         *)
(*                                                                         *)
(* What makes the first inductive: facts about an auction are never taken  *)
(* back by the contract (Grows), so an event or a read that was true when  *)
(* it was taken is still true when it is applied, however late.            *)
(***************************************************************************)
EXTENDS Indexer, FiniteSetTheorems, TLAPS

\* Later: b is what the stored auction a may have become.
Later(a, b) ==
    /\ a.status # "Open" => b.status = a.status
    /\ a.lot_reclaimed => b.lot_reclaimed
    /\ Len(a.bids) <= Len(b.bids)
    /\ \A k \in 1..Len(a.bids) : b.bids[k] = a.bids[k]

Grows(from, to) ==
    /\ Len(from) <= Len(to)
    /\ \A id \in 1..Len(from) : Later(from[id], to[id])

\* An event, in its three shapes.
LoggedEvent ==
    [name : {"auction_created", "auction_refunded", "lot_return_failed", "lot_reclaimed"},
     ledger : Nat, auction_id : Nat]
    \cup [name : {"bid_placed"}, ledger : Nat, auction_id : Nat, slot_index : Nat,
          bidder : Bidders]
    \cup [name : {"auction_settled"}, ledger : Nat, auction_id : Nat, winner : Bidders]

\* What an event says is so on the chain named from.
Holds(e, from) ==
    /\ e.auction_id \in 1..Len(from)
    /\ e.name = "bid_placed" =>
            /\ e.slot_index \in 0..(Len(from[e.auction_id].bids) - 1)
            /\ e.bidder = from[e.auction_id].bids[e.slot_index + 1]
    /\ e.name = "auction_settled" => from[e.auction_id].status = "Settled"
    /\ e.name = "auction_refunded" => from[e.auction_id].status = "Refunded"
    /\ e.name = "lot_reclaimed" => from[e.auction_id].lot_reclaimed

LogHolds(log, from) == \A i \in 1..Len(log) : Holds(log[i], from)

\* What a row and the recorded bids of an auction say is so.
WinnerLogged(who, id, log) ==
    \E i \in 1..Len(log) :
        /\ log[i].name = "auction_settled" /\ log[i].auction_id = id
        /\ log[i].winner = who

RowHolds(row, id, from, log) ==
    /\ id \in 1..Len(from)
    /\ row.status # "Open" => row.status = from[id].status
    /\ row.winner # NoWinner => WinnerLogged(row.winner, id, log)
    /\ row.lot_reclaimed => from[id].lot_reclaimed
    /\ row.filled_slots <= Len(from[id].bids)

BookHolds(recorded, id, from) ==
    \A b \in recorded :
        /\ id \in 1..Len(from)
        /\ b.slot_index \in 0..(Len(from[id].bids) - 1)
        /\ b.bidder = from[id].bids[b.slot_index + 1]

RowShape == [status : Statuses, filled_slots : Nat, lot_reclaimed : BOOLEAN,
             winner : Bidders \cup {NoWinner}]

BidShape == [slot_index : Nat, bidder : Bidders]

-----------------------------------------------------------------------------
(* Facts about the chain only grow.                                        *)

LEMMA LaterTransitive ==
    ASSUME NEW a \in Auction, NEW b \in Auction, NEW c \in Auction,
           Later(a, b), Later(b, c)
    PROVE  Later(a, c)
<1>1. /\ a.status # "Open" => c.status = a.status
      /\ a.lot_reclaimed => c.lot_reclaimed
    BY DEF Later
<1>2. Len(a.bids) \in Nat /\ Len(b.bids) \in Nat /\ Len(c.bids) \in Nat
    BY DEF Auction
<1>3. Len(a.bids) <= Len(c.bids)
    BY <1>2 DEF Later
<1>4. \A k \in 1..Len(a.bids) : c.bids[k] = a.bids[k]
    BY <1>2 DEF Later
<1>5. QED
    BY <1>1, <1>3, <1>4 DEF Later

LEMMA HoldsStays ==
    ASSUME NEW from \in Seq(Auction), NEW to \in Seq(Auction), Grows(from, to),
           NEW e \in LoggedEvent, Holds(e, from)
    PROVE  Holds(e, to)
<1> DEFINE id == e.auction_id
<1>1. id \in 1..Len(from) /\ id \in 1..Len(to) /\ Later(from[id], to[id])
    BY DEF Holds, Grows
<1>2. from[id] \in Auction /\ to[id] \in Auction
    BY <1>1
<1>3. Len(from[id].bids) \in Nat /\ Len(to[id].bids) \in Nat
    BY <1>2 DEF Auction
<1>4. ASSUME e.name = "bid_placed"
      PROVE  /\ e.slot_index \in 0..(Len(to[id].bids) - 1)
             /\ e.bidder = to[id].bids[e.slot_index + 1]
    <2>1. /\ e.slot_index \in 0..(Len(from[id].bids) - 1)
          /\ e.bidder = from[id].bids[e.slot_index + 1]
        BY <1>4 DEF Holds
    <2>2. e.slot_index + 1 \in 1..Len(from[id].bids)
        BY <2>1, <1>3
    <2>3. to[id].bids[e.slot_index + 1] = from[id].bids[e.slot_index + 1]
        BY <2>2, <1>1 DEF Later
    <2>4. QED
        BY <2>1, <2>3, <1>1, <1>3 DEF Later
<1>5. /\ e.name = "auction_settled" => to[id].status = "Settled"
      /\ e.name = "auction_refunded" => to[id].status = "Refunded"
      /\ e.name = "lot_reclaimed" => to[id].lot_reclaimed
    BY <1>1 DEF Holds, Later
<1>6. QED
    BY <1>1, <1>4, <1>5 DEF Holds

LEMMA RowHoldsStays ==
    ASSUME NEW from \in Seq(Auction), NEW to \in Seq(Auction), Grows(from, to),
           NEW log, NEW log2, Len(log) \in Nat, Len(log2) \in Nat, Len(log) <= Len(log2),
           \A i \in 1..Len(log) : log2[i] = log[i],
           NEW id, NEW row \in RowShape, RowHolds(row, id, from, log)
    PROVE  RowHolds(row, id, to, log2)
<1>1. id \in 1..Len(from) /\ id \in 1..Len(to) /\ Later(from[id], to[id])
    BY DEF RowHolds, Grows
<1>2. from[id] \in Auction /\ to[id] \in Auction
    BY <1>1
<1>3. row.filled_slots \in Nat /\ Len(from[id].bids) \in Nat /\ Len(to[id].bids) \in Nat
    BY <1>2 DEF Auction, RowShape
<1>4. row.filled_slots <= Len(to[id].bids)
    BY <1>1, <1>3 DEF Later, RowHolds
<1>5. row.winner # NoWinner => WinnerLogged(row.winner, id, log2)
    BY DEF RowHolds, WinnerLogged
<1>6. /\ row.status # "Open" => row.status = to[id].status
      /\ row.lot_reclaimed => to[id].lot_reclaimed
    BY <1>1 DEF RowHolds, Later
<1>7. QED
    BY <1>1, <1>4, <1>5, <1>6 DEF RowHolds

LEMMA BookHoldsStays ==
    ASSUME NEW from \in Seq(Auction), NEW to \in Seq(Auction), Grows(from, to),
           NEW id, NEW recorded, BookHolds(recorded, id, from)
    PROVE  BookHolds(recorded, id, to)
<1> SUFFICES ASSUME NEW b \in recorded
             PROVE  /\ id \in 1..Len(to)
                    /\ b.slot_index \in 0..(Len(to[id].bids) - 1)
                    /\ b.bidder = to[id].bids[b.slot_index + 1]
    BY DEF BookHolds
<1>1. /\ id \in 1..Len(from)
      /\ b.slot_index \in 0..(Len(from[id].bids) - 1)
      /\ b.bidder = from[id].bids[b.slot_index + 1]
    BY DEF BookHolds
<1>2. id \in 1..Len(to) /\ Later(from[id], to[id])
    BY <1>1 DEF Grows
<1>3. from[id] \in Auction /\ to[id] \in Auction
    BY <1>1, <1>2
<1>4. Len(from[id].bids) \in Nat /\ Len(to[id].bids) \in Nat
    BY <1>3 DEF Auction
<1>5. b.slot_index + 1 \in 1..Len(from[id].bids)
    BY <1>1, <1>4
<1>6. to[id].bids[b.slot_index + 1] = from[id].bids[b.slot_index + 1]
    BY <1>2, <1>5 DEF Later
<1>7. QED
    BY <1>1, <1>2, <1>4, <1>6 DEF Later

\* At most one bid is recorded per bid of the chain.
LEMMA BookIsSmall ==
    ASSUME NEW from \in Seq(Auction), NEW id \in 1..Len(from),
           NEW recorded \in SUBSET BidShape, BookHolds(recorded, id, from)
    PROVE  /\ IsFiniteSet(recorded) /\ Cardinality(recorded) \in Nat
           /\ Cardinality(recorded) <= Len(from[id].bids)
<1> DEFINE n == Len(from[id].bids)
           f == [b \in recorded |-> b.slot_index]
<1>0. n \in Nat
    <2>1. from[id] \in Auction
        OBVIOUS
    <2>2. QED
        BY <2>1 DEF Auction
<1>1. f \in [recorded -> 0..(n - 1)]
    BY DEF BookHolds
<1>2. ASSUME NEW b \in recorded, NEW c \in recorded, f[b] = f[c]
      PROVE  b = c
    <2>1. b.slot_index = c.slot_index
        BY <1>2
    <2>2. b.bidder = c.bidder
        BY <2>1 DEF BookHolds
    <2>3. b \in BidShape /\ c \in BidShape
        OBVIOUS
    <2>4. QED
        BY <2>1, <2>2, <2>3 DEF BidShape
<1>3. f \in Injection(recorded, 0..(n - 1))
    BY <1>1, <1>2, Zenon DEF Injection, IsInjective
<1>4. IsFiniteSet(0..(n - 1)) /\ Cardinality(0..(n - 1)) = n
    <2>1. 0 \in Int /\ n - 1 \in Int
        BY <1>0
    <2> HIDE DEF n
    <2>2. Cardinality(0..(n - 1)) = IF 0 > n - 1 THEN 0 ELSE n - 1 - 0 + 1
        BY <2>1, FS_Interval, Zenon
    <2>3. IsFiniteSet(0..(n - 1))
        BY <2>1, FS_Interval
    <2>4. QED
        BY <1>0, <2>2, <2>3
<1>5. IsFiniteSet(recorded) /\ Cardinality(recorded) <= n
    <2> HIDE DEF n, f
    <2>1. IsFiniteSet(recorded) /\ Cardinality(recorded) <= Cardinality(0..(n - 1))
        BY <1>3, <1>4, FS_Injection
    <2>2. QED
        BY <2>1, <1>4
<1>6. QED
    BY <1>5, FS_CardinalityType
-----------------------------------------------------------------------------
(* Every call keeps the log true and takes nothing back.                   *)

\* An open auction's lot is in escrow.
LotsKept(from) ==
    \A id \in 1..Len(from) : from[id].status = "Open" => ~from[id].lot_reclaimed

ChainInv ==
    /\ auctions \in Seq(Auction)
    /\ LotsKept(auctions)
    /\ Len(auctions) <= MaxAuctions
    /\ events \in Seq(LoggedEvent)
    /\ LogHolds(events, auctions)

LogGrows(log, longer) ==
    /\ Len(log) <= Len(longer)
    /\ \A i \in 1..Len(log) : longer[i] = log[i]

ChainGrows ==
    /\ Grows(auctions, auctions')
    /\ LogGrows(events, events')

LEMMA LedgerIsNat ==
    ASSUME events \in Seq(LoggedEvent)
    PROVE  LatestLedger + 1 \in Nat
<1>1. CASE events = <<>>
    BY <1>1 DEF LatestLedger
<1>2. CASE events # <<>>
    <2>1. Len(events) \in 1..Len(events)
        BY <1>2
    <2>2. events[Len(events)] \in LoggedEvent
        BY <2>1
    <2>3. events[Len(events)].ledger \in Nat
        BY <2>2 DEF LoggedEvent
    <2>4. QED
        BY <1>2, <2>3 DEF LatestLedger
<1>3. QED
    BY <1>1, <1>2

LEMMA Appended ==
    ASSUME NEW from \in Seq(Auction), NEW to \in Seq(Auction), Grows(from, to),
           NEW log \in Seq(LoggedEvent), NEW added \in Seq(LoggedEvent),
           LogHolds(log, from), LogHolds(added, to)
    PROVE  /\ log \o added \in Seq(LoggedEvent)
           /\ LogHolds(log \o added, to)
           /\ LogGrows(log, log \o added)
<1>1. log \o added \in Seq(LoggedEvent)
    OBVIOUS
<1>2. ASSUME NEW i \in 1..Len(log \o added)
      PROVE  Holds((log \o added)[i], to)
    <2>1. CASE i <= Len(log)
        <3>1. i \in 1..Len(log) /\ (log \o added)[i] = log[i]
            BY <2>1
        <3>2. log[i] \in LoggedEvent /\ Holds(log[i], from)
            BY <3>1 DEF LogHolds
        <3>3. QED
            BY <3>1, <3>2, HoldsStays
    <2>2. CASE i > Len(log)
        <3>1. i - Len(log) \in 1..Len(added) /\ (log \o added)[i] = added[i - Len(log)]
            BY <2>2
        <3>2. QED
            BY <3>1 DEF LogHolds
    <2>3. QED
        BY <2>1, <2>2
<1>3. LogHolds(log \o added, to)
    BY <1>2 DEF LogHolds
<1>4. LogGrows(log, log \o added)
    BY DEF LogGrows
<1>5. QED
    BY <1>1, <1>3, <1>4

LEMMA LaterReflexive ==
    ASSUME NEW a \in Auction
    PROVE  Later(a, a)
BY DEF Later, Auction

LEMMA OneChanges ==
    ASSUME NEW from \in Seq(Auction), NEW id \in 1..Len(from), NEW a \in Auction,
           Later(from[id], a)
    PROVE  /\ [from EXCEPT ![id] = a] \in Seq(Auction)
           /\ Len([from EXCEPT ![id] = a]) = Len(from)
           /\ [from EXCEPT ![id] = a][id] = a
           /\ Grows(from, [from EXCEPT ![id] = a])
<1> DEFINE to == [from EXCEPT ![id] = a]
<1>1. to \in Seq(Auction) /\ Len(to) = Len(from) /\ to[id] = a
    OBVIOUS
<1>2. ASSUME NEW k \in 1..Len(from)
      PROVE  Later(from[k], to[k])
    <2>1. CASE k = id
        BY <1>1, <2>1
    <2>2. CASE k # id
        <3>1. to[k] = from[k] /\ from[k] \in Auction
            BY <2>2
        <3>2. QED
            BY <3>1, LaterReflexive
    <2>3. QED
        BY <2>1, <2>2
<1>3. QED
    BY <1>1, <1>2 DEF Grows

LEMMA OneEvent ==
    ASSUME NEW to, NEW e \in LoggedEvent, Holds(e, to)
    PROVE  <<e>> \in Seq(LoggedEvent) /\ LogHolds(<<e>>, to)
<1>1. <<e>> \in Seq(LoggedEvent) /\ Len(<<e>>) = 1 /\ <<e>>[1] = e
    OBVIOUS
<1>2. QED
    BY <1>1 DEF LogHolds

LEMMA TwoEvents ==
    ASSUME NEW to, NEW d \in LoggedEvent, NEW e \in LoggedEvent, Holds(d, to), Holds(e, to)
    PROVE  <<d, e>> \in Seq(LoggedEvent) /\ LogHolds(<<d, e>>, to)
<1>1. /\ <<d, e>> \in Seq(LoggedEvent) /\ Len(<<d, e>>) = 2
      /\ <<d, e>>[1] = d /\ <<d, e>>[2] = e
    OBVIOUS
<1>2. QED
    BY <1>1 DEF LogHolds

LEMMA CallPublishes ==
    ASSUME ChainInv, auctions' \in Seq(Auction), Len(auctions') <= MaxAuctions,
           LotsKept(auctions'), Grows(auctions, auctions'),
           NEW added \in Seq(LoggedEvent), events' = events \o added,
           LogHolds(added, auctions')
    PROVE  ChainInv' /\ ChainGrows
<1>1. /\ events' \in Seq(LoggedEvent)
      /\ LogHolds(events', auctions')
      /\ LogGrows(events, events')
    BY Appended DEF ChainInv
<1>2. ChainInv'
    BY <1>1 DEF ChainInv
<1>3. QED
    BY <1>1, <1>2 DEF ChainGrows

LEMMA CreateAuctionKeeps ==
    ASSUME ChainInv, CreateAuction
    PROVE  ChainInv' /\ ChainGrows
<1> DEFINE a == [status |-> "Open", bids |-> <<>>, lot_reclaimed |-> FALSE]
           e == AuctionCreated(Len(auctions) + 1)
<1>1. a \in Auction
    BY DEF Auction, Statuses
<1>2. auctions' = Append(auctions, a) /\ Len(auctions) < MaxAuctions /\ events' = events \o <<e>>
    BY DEF CreateAuction, Publish
<1>3. auctions \in Seq(Auction) /\ events \in Seq(LoggedEvent)
    BY DEF ChainInv
<1> HIDE DEF a
<1>4. /\ auctions' \in Seq(Auction) /\ Len(auctions') = Len(auctions) + 1
      /\ \A id \in 1..Len(auctions) : auctions'[id] = auctions[id] /\ auctions[id] \in Auction
    BY <1>1, <1>2, <1>3
<1>5. Grows(auctions, auctions')
    BY <1>3, <1>4, LaterReflexive DEF Grows
<1>6. e \in LoggedEvent
    BY <1>3, LedgerIsNat DEF AuctionCreated, LoggedEvent
<1>7. Holds(e, auctions')
    BY <1>3, <1>4 DEF AuctionCreated, Holds
<1> HIDE DEF e
<1>8. <<e>> \in Seq(LoggedEvent) /\ LogHolds(<<e>>, auctions')
    BY <1>6, <1>7, OneEvent
<1>9. Len(auctions') <= MaxAuctions
    BY <1>2, <1>3, <1>4, ContractAssumption
<1>10. LotsKept(auctions')
    <2> SUFFICES ASSUME NEW id \in 1..Len(auctions'), auctions'[id].status = "Open"
                 PROVE  ~auctions'[id].lot_reclaimed
        BY DEF LotsKept
    <2>1. CASE id \in 1..Len(auctions)
        BY <1>4, <2>1 DEF ChainInv, LotsKept
    <2>2. CASE id = Len(auctions) + 1
        BY <1>2, <1>3, <2>2 DEF a
    <2>3. QED
        BY <1>3, <1>4, <2>1, <2>2
<1>11. QED
    BY <1>2, <1>4, <1>5, <1>8, <1>9, <1>10, CallPublishes

\* The auction id becomes a later a, and the events added say what a is.
LEMMA ChangeKeeps ==
    ASSUME ChainInv, NEW id \in 1..Len(auctions), NEW a \in Auction,
           Later(auctions[id], a), a.status = "Open" => ~a.lot_reclaimed,
           auctions' = [auctions EXCEPT ![id] = a],
           NEW added \in Seq(LoggedEvent), events' = events \o added,
           LogHolds(added, auctions')
    PROVE  ChainInv' /\ ChainGrows
<1>1. auctions \in Seq(Auction) /\ Len(auctions) <= MaxAuctions
    BY DEF ChainInv
<1>2. /\ auctions' \in Seq(Auction)
      /\ Len(auctions') = Len(auctions)
      /\ Grows(auctions, auctions')
    BY <1>1, OneChanges
<1>3. LotsKept(auctions')
    BY <1>1, <1>2 DEF ChainInv, LotsKept
<1>4. QED
    BY <1>1, <1>2, <1>3, CallPublishes

LEMMA PlaceBidKeeps ==
    ASSUME ChainInv, NEW id \in DOMAIN auctions, NEW who \in Bidders, PlaceBid(id, who)
    PROVE  ChainInv' /\ ChainGrows
<1> DEFINE a == [auctions[id] EXCEPT !.bids = Append(auctions[id].bids, who)]
           e == BidPlaced(id, Len(auctions[id].bids), who)
<1>1. auctions \in Seq(Auction) /\ events \in Seq(LoggedEvent) /\ id \in 1..Len(auctions)
    BY DEF ChainInv
<1>2. auctions[id] \in Auction
    BY <1>1
<1>3. auctions[id].bids \in Seq(Bidders)
    BY <1>2 DEF Auction
<1>4. /\ a \in Auction
      /\ a.status = auctions[id].status /\ a.lot_reclaimed = auctions[id].lot_reclaimed
      /\ a.bids = Append(auctions[id].bids, who)
    BY <1>2, <1>3 DEF Auction
<1>5. auctions' = [auctions EXCEPT ![id] = a] /\ events' = events \o <<e>>
    BY DEF PlaceBid, Publish
<1> HIDE DEF a
<1>6. /\ Len(a.bids) = Len(auctions[id].bids) + 1
      /\ a.bids[Len(auctions[id].bids) + 1] = who
      /\ \A k \in 1..Len(auctions[id].bids) : a.bids[k] = auctions[id].bids[k]
    BY <1>3, <1>4
<1>7. Later(auctions[id], a)
    BY <1>3, <1>4, <1>6 DEF Later
<1>8. auctions'[id] = a /\ Len(auctions') = Len(auctions)
    BY <1>1, <1>4, <1>5, <1>7, OneChanges
<1>9. e \in LoggedEvent
    BY <1>1, <1>3, LedgerIsNat DEF BidPlaced, LoggedEvent
<1>10. Holds(e, auctions')
    BY <1>1, <1>3, <1>6, <1>8 DEF BidPlaced, Holds
<1> HIDE DEF e
<1>11. <<e>> \in Seq(LoggedEvent) /\ LogHolds(<<e>>, auctions')
    BY <1>9, <1>10, OneEvent
<1>12. ~a.lot_reclaimed
    BY <1>1, <1>4 DEF PlaceBid, ChainInv, LotsKept
<1>13. QED
    BY <1>1, <1>4, <1>5, <1>7, <1>11, <1>12, ChangeKeeps

LEMMA SettleKeeps ==
    ASSUME ChainInv, NEW id \in DOMAIN auctions, NEW slot \in 1..MAX_BID_SLOTS,
           Settle(id, slot)
    PROVE  ChainInv' /\ ChainGrows
<1> DEFINE a == [auctions[id] EXCEPT !.status = "Settled"]
           e == AuctionSettled(id, auctions[id].bids[slot])
<1>1. auctions \in Seq(Auction) /\ events \in Seq(LoggedEvent) /\ id \in 1..Len(auctions)
    BY DEF ChainInv
<1>2. auctions[id] \in Auction
    BY <1>1
<1>3. auctions[id].bids \in Seq(Bidders) /\ slot \in 1..Len(auctions[id].bids)
    BY <1>2 DEF Auction, Settle
<1>4. /\ a \in Auction
      /\ a.status = "Settled" /\ a.lot_reclaimed = auctions[id].lot_reclaimed
      /\ a.bids = auctions[id].bids
    BY <1>2 DEF Auction, Statuses
<1>5. /\ auctions' = [auctions EXCEPT ![id] = a] /\ events' = events \o <<e>>
      /\ auctions[id].status = "Open"
    BY DEF Settle, Publish
<1> HIDE DEF a
<1>6. Later(auctions[id], a)
    BY <1>3, <1>4, <1>5 DEF Later
<1>7. auctions'[id] = a /\ Len(auctions') = Len(auctions)
    BY <1>1, <1>4, <1>5, <1>6, OneChanges
<1>8. auctions[id].bids[slot] \in Bidders
    BY <1>3
<1>9. e \in LoggedEvent
    BY <1>1, <1>8, LedgerIsNat DEF AuctionSettled, LoggedEvent
<1>10. Holds(e, auctions')
    BY <1>1, <1>4, <1>7 DEF AuctionSettled, Holds
<1> HIDE DEF e
<1>11. <<e>> \in Seq(LoggedEvent) /\ LogHolds(<<e>>, auctions')
    BY <1>9, <1>10, OneEvent
<1>12. QED
    BY <1>1, <1>4, <1>5, <1>6, <1>11, ChangeKeeps

LEMMA RefundAllKeeps ==
    ASSUME ChainInv, NEW id \in DOMAIN auctions, NEW lot_returned \in BOOLEAN,
           RefundAll(id, lot_returned)
    PROVE  ChainInv' /\ ChainGrows
<1> DEFINE a == [auctions[id] EXCEPT !.status = "Refunded", !.lot_reclaimed = lot_returned]
           d == LotReturnFailed(id)
           e == AuctionRefunded(id)
           added == IF lot_returned THEN <<e>> ELSE <<d, e>>
<1>1. auctions \in Seq(Auction) /\ events \in Seq(LoggedEvent) /\ id \in 1..Len(auctions)
    BY DEF ChainInv
<1>2. auctions[id] \in Auction
    BY <1>1
<1>3. auctions[id].bids \in Seq(Bidders)
    BY <1>2 DEF Auction
<1>4. /\ a \in Auction
      /\ a.status = "Refunded" /\ a.lot_reclaimed = lot_returned
      /\ a.bids = auctions[id].bids
    BY <1>2 DEF Auction, Statuses
<1>5. /\ auctions' = [auctions EXCEPT ![id] = a] /\ events' = events \o added
      /\ auctions[id].status = "Open" /\ ~auctions[id].lot_reclaimed
    BY <1>1 DEF RefundAll, Publish, ChainInv, LotsKept
<1> HIDE DEF a
<1>6. Later(auctions[id], a)
    BY <1>3, <1>4, <1>5 DEF Later
<1>7. auctions'[id] = a /\ Len(auctions') = Len(auctions)
    BY <1>1, <1>4, <1>5, <1>6, OneChanges
<1>9. d \in LoggedEvent /\ e \in LoggedEvent
    BY <1>1, LedgerIsNat DEF LotReturnFailed, AuctionRefunded, LoggedEvent
<1>10. Holds(d, auctions') /\ Holds(e, auctions')
    BY <1>1, <1>4, <1>7 DEF LotReturnFailed, AuctionRefunded, Holds
<1> HIDE DEF d, e
<1>11. added \in Seq(LoggedEvent) /\ LogHolds(added, auctions')
    BY <1>9, <1>10, OneEvent, TwoEvents
<1>12. QED
    BY <1>1, <1>4, <1>5, <1>6, <1>11, ChangeKeeps

LEMMA ReclaimLotKeeps ==
    ASSUME ChainInv, NEW id \in DOMAIN auctions, ReclaimLot(id)
    PROVE  ChainInv' /\ ChainGrows
<1> DEFINE a == [auctions[id] EXCEPT !.lot_reclaimed = TRUE]
           e == LotReclaimed(id)
<1>1. auctions \in Seq(Auction) /\ events \in Seq(LoggedEvent) /\ id \in 1..Len(auctions)
    BY DEF ChainInv
<1>2. auctions[id] \in Auction
    BY <1>1
<1>3. auctions[id].bids \in Seq(Bidders)
    BY <1>2 DEF Auction
<1>4. /\ a \in Auction
      /\ a.status = auctions[id].status /\ a.lot_reclaimed
      /\ a.bids = auctions[id].bids
    BY <1>2 DEF Auction
<1>5. auctions' = [auctions EXCEPT ![id] = a] /\ events' = events \o <<e>>
    BY DEF ReclaimLot, Publish
<1> HIDE DEF a
<1>6. Later(auctions[id], a)
    BY <1>3, <1>4 DEF Later
<1>7. auctions'[id] = a /\ Len(auctions') = Len(auctions)
    BY <1>1, <1>4, <1>5, <1>6, OneChanges
<1>9. e \in LoggedEvent
    BY <1>1, LedgerIsNat DEF LotReclaimed, LoggedEvent
<1>10. Holds(e, auctions')
    BY <1>1, <1>4, <1>7 DEF LotReclaimed, Holds
<1> HIDE DEF e
<1>11. <<e>> \in Seq(LoggedEvent) /\ LogHolds(<<e>>, auctions')
    BY <1>9, <1>10, OneEvent
<1>12. a.status # "Open"
    BY <1>4 DEF ReclaimLot
<1>13. QED
    BY <1>1, <1>4, <1>5, <1>6, <1>11, <1>12, ChangeKeeps

LEMMA CallKeeps ==
    ASSUME ChainInv, ContractCall
    PROVE  ChainInv' /\ ChainGrows
BY CreateAuctionKeeps, PlaceBidKeeps, SettleKeeps, RefundAllKeeps, ReclaimLotKeeps
   DEF ContractCall
-----------------------------------------------------------------------------
(* The writes of the store.                                                *)

RowsHold(row, id, from, log) ==
    /\ row \in RowShape \cup {NoRow}
    /\ row # NoRow => RowHolds(row, id, from, log)

LEMMA UpsertHolds ==
    ASSUME NEW from \in Seq(Auction), NEW id \in 1..Len(from), NEW log,
           NEW a \in Auction, Later(a, from[id]), NEW row, RowsHold(row, id, from, log)
    PROVE  RowsHold(UpsertRow(row, a), id, from, log)
<1>1. from[id] \in Auction
    OBVIOUS
<1>2. Len(from[id].bids) \in Nat /\ a.status \in Statuses /\ a.lot_reclaimed \in BOOLEAN
    BY <1>1 DEF Auction
<1>3. /\ a.status # "Open" => a.status = from[id].status
      /\ a.lot_reclaimed => from[id].lot_reclaimed
    BY DEF Later
<1>4. CASE row = NoRow
    <2> DEFINE fresh == [status |-> a.status, filled_slots |-> 0,
                         lot_reclaimed |-> a.lot_reclaimed, winner |-> NoWinner]
    <2>1. UpsertRow(row, a) = fresh
        BY <1>4 DEF UpsertRow
    <2>2. fresh \in RowShape
        BY <1>2 DEF RowShape
    <2>3. RowHolds(fresh, id, from, log)
        BY <1>2, <1>3 DEF RowHolds
    <2>4. QED
        BY <2>1, <2>2, <2>3 DEF RowsHold
<1>5. CASE row # NoRow
    <2> DEFINE new_row == [row EXCEPT !.status = a.status, !.lot_reclaimed = a.lot_reclaimed]
    <2>1. UpsertRow(row, a) = new_row /\ row \in RowShape /\ RowHolds(row, id, from, log)
        BY <1>5 DEF UpsertRow, RowsHold
    <2>2. /\ new_row \in RowShape
          /\ new_row.status = a.status /\ new_row.lot_reclaimed = a.lot_reclaimed
          /\ new_row.winner = row.winner /\ new_row.filled_slots = row.filled_slots
        BY <1>2, <2>1 DEF RowShape
    <2> HIDE DEF new_row
    <2>3. RowHolds(new_row, id, from, log)
        BY <1>3, <2>1, <2>2 DEF RowHolds
    <2>4. QED
        BY <2>1, <2>2, <2>3 DEF RowsHold
<1>6. QED
    BY <1>4, <1>5

LEMMA CountHolds ==
    ASSUME NEW from \in Seq(Auction), NEW id \in Ids, NEW log, NEW row,
           RowsHold(row, id, from, log),
           NEW recorded \in SUBSET BidShape, BookHolds(recorded, id, from)
    PROVE  RowsHold(RefreshCount(row, recorded), id, from, log)
<1>1. CASE row = NoRow
    BY <1>1 DEF RefreshCount, Updated, RowsHold
<1>2. CASE row # NoRow
    <2> DEFINE new_row == [row EXCEPT !.filled_slots = Cardinality(recorded)]
    <2>1. RefreshCount(row, recorded) = new_row
        BY <1>2 DEF RefreshCount, Updated
    <2>2. row \in RowShape /\ RowHolds(row, id, from, log)
        BY <1>2 DEF RowsHold
    <2>3. Cardinality(recorded) \in Nat /\ Cardinality(recorded) <= Len(from[id].bids)
        BY <2>2, BookIsSmall DEF RowHolds
    <2>4. /\ new_row \in RowShape /\ new_row.filled_slots = Cardinality(recorded)
          /\ new_row.status = row.status /\ new_row.lot_reclaimed = row.lot_reclaimed
          /\ new_row.winner = row.winner
        BY <2>2, <2>3 DEF RowShape
    <2> HIDE DEF new_row
    <2>5. RowHolds(new_row, id, from, log)
        BY <2>2, <2>3, <2>4 DEF RowHolds
    <2>6. QED
        BY <2>1, <2>4, <2>5 DEF RowsHold
<1>3. QED
    BY <1>1, <1>2

LEMMA InsertHolds ==
    ASSUME NEW from, NEW id \in 1..Len(from),
           NEW recorded \in SUBSET BidShape, BookHolds(recorded, id, from),
           NEW slot \in Nat, NEW who \in Bidders,
           slot \in 0..(Len(from[id].bids) - 1), who = from[id].bids[slot + 1]
    PROVE  /\ InsertBid(recorded, slot, who) \in SUBSET BidShape
           /\ BookHolds(InsertBid(recorded, slot, who), id, from)
<1> DEFINE b == [slot_index |-> slot, bidder |-> who]
<1>1. b \in BidShape /\ b.slot_index = slot /\ b.bidder = who
    BY DEF BidShape
<1>2. InsertBid(recorded, slot, who) \subseteq recorded \cup {b}
    BY DEF InsertBid
<1> HIDE DEF b
<1>3. BookHolds(recorded \cup {b}, id, from)
    BY <1>1 DEF BookHolds
<1>4. QED
    BY <1>1, <1>2, <1>3 DEF BookHolds

-----------------------------------------------------------------------------
(* The inductive invariant.                                                *)

StoreInv ==
    /\ rows \in [Ids -> RowShape \cup {NoRow}]
    /\ bids \in [Ids -> SUBSET BidShape]
    /\ \A id \in Ids : RowsHold(rows[id], id, auctions, events)
    /\ \A id \in Ids : BookHolds(bids[id], id, auctions)

FetchInv ==
    /\ auctionId \in Nat \ {0}
    /\ next \in Nat \ {0}
    /\ upto \in Nat
    /\ upto <= Len(events)

\* The auction that is being read.
Target == IF pc = "backfill" THEN auctionId ELSE events[next].auction_id

ReadInv ==
    read # Nothing =>
        /\ read \in Auction
        /\ pc = "backfill" \/ (pc = "applying" /\ next <= upto)
        /\ Target \in 1..Len(auctions)
        /\ Later(read, auctions[Target])

IInv == ChainInv /\ StoreInv /\ FetchInv /\ ReadInv

LEMMA StoreGrows ==
    ASSUME ChainInv, ChainInv', ChainGrows, StoreInv, UNCHANGED <<rows, bids>>
    PROVE  StoreInv'
<1>1. /\ auctions \in Seq(Auction) /\ auctions' \in Seq(Auction)
      /\ Len(events) \in Nat /\ Len(events') \in Nat
      /\ Grows(auctions, auctions') /\ LogGrows(events, events')
    BY DEF ChainInv, ChainGrows
<1>2. ASSUME NEW id \in Ids
      PROVE  RowsHold(rows[id], id, auctions', events')
    <2>1. CASE rows[id] = NoRow
        BY <2>1 DEF RowsHold
    <2>2. CASE rows[id] # NoRow
        <3>1. rows[id] \in RowShape /\ RowHolds(rows[id], id, auctions, events)
            BY <2>2 DEF StoreInv, RowsHold
        <3>2. RowHolds(rows[id], id, auctions', events')
            BY <1>1, <3>1, RowHoldsStays DEF LogGrows
        <3>3. QED
            BY <3>1, <3>2 DEF RowsHold
    <2>3. QED
        BY <2>1, <2>2
<1>3. ASSUME NEW id \in Ids
      PROVE  BookHolds(bids[id], id, auctions')
    BY <1>1, BookHoldsStays DEF StoreInv
<1>4. QED
    BY <1>2, <1>3 DEF StoreInv

\* A write to one auction's row and bids.
LEMMA OneRowChanges ==
    ASSUME StoreInv, UNCHANGED chain, NEW id \in Ids, NEW row, NEW recorded,
           rows' = [rows EXCEPT ![id] = row], bids' = [bids EXCEPT ![id] = recorded],
           RowsHold(row, id, auctions, events),
           recorded \in SUBSET BidShape, BookHolds(recorded, id, auctions)
    PROVE  StoreInv'
<1>1. auctions' = auctions /\ events' = events
    BY DEF chain
<1>2. /\ rows' \in [Ids -> RowShape \cup {NoRow}]
      /\ \A i \in Ids : rows'[i] = IF i = id THEN row ELSE rows[i]
    BY DEF StoreInv, RowsHold
<1>3. /\ bids' \in [Ids -> SUBSET BidShape]
      /\ \A i \in Ids : bids'[i] = IF i = id THEN recorded ELSE bids[i]
    BY DEF StoreInv
<1>4. \A i \in Ids : RowsHold(rows'[i], i, auctions, events)
    BY <1>2 DEF StoreInv
<1>5. \A i \in Ids : BookHolds(bids'[i], i, auctions)
    BY <1>3 DEF StoreInv
<1>6. QED
    BY <1>1, <1>2, <1>3, <1>4, <1>5 DEF StoreInv

LEMMA StoreReadKeeps ==
    ASSUME ChainInv, StoreInv, UNCHANGED chain, NEW id \in 1..Len(auctions),
           read \in Auction, Later(read, auctions[id]),
           NEW n \in 0..Len(read.bids), StoreRead(id, n)
    PROVE  StoreInv'
<1> DEFINE row == UpsertRow(rows[id], read)
           recorded == BidsAfter(id, n)
<1>1. auctions \in Seq(Auction) /\ Len(auctions) <= MaxAuctions /\ id \in Ids
    BY ContractAssumption DEF ChainInv, Ids
<1>2. auctions[id] \in Auction
    BY <1>1
<1>3. Len(read.bids) \in Nat /\ Len(auctions[id].bids) \in Nat
    BY <1>2 DEF Auction
<1>4. RowsHold(row, id, auctions, events)
    BY <1>1, UpsertHolds DEF StoreInv
<1>5. recorded \in SUBSET BidShape
    BY <1>1, <1>3 DEF BidsAfter, BidShape, StoreInv
<1>6. BookHolds(recorded, id, auctions)
    <2> SUFFICES ASSUME NEW b \in recorded
                 PROVE  /\ b.slot_index \in 0..(Len(auctions[id].bids) - 1)
                        /\ b.bidder = auctions[id].bids[b.slot_index + 1]
        BY DEF BookHolds
    <2>1. CASE b \in bids[id]
        BY <1>1, <2>1 DEF StoreInv, BookHolds
    <2>2. CASE b \notin bids[id]
        <3>1. b \in [slot_index : 0..(n - 1), bidder : Bidders]
              /\ b.bidder = read.bids[b.slot_index + 1]
            BY <2>2 DEF BidsAfter
        <3>2. b.slot_index \in 0..(n - 1)
            BY <3>1
        <3>3. b.slot_index + 1 \in 1..Len(read.bids)
            BY <1>3, <3>2
        <3>4. auctions[id].bids[b.slot_index + 1] = read.bids[b.slot_index + 1]
            BY <3>3 DEF Later
        <3>5. Len(read.bids) <= Len(auctions[id].bids)
            BY DEF Later
        <3>6. QED
            BY <1>3, <3>1, <3>2, <3>4, <3>5
    <2>3. QED
        BY <2>1, <2>2
<1>7. RowsHold(RefreshCount(row, recorded), id, auctions, events)
    BY <1>1, <1>4, <1>5, <1>6, CountHolds
<1>8. /\ bids' = [bids EXCEPT ![id] = recorded]
      /\ rows' = [rows EXCEPT ![id] = IF n = 0 THEN row ELSE RefreshCount(row, recorded)]
    BY DEF StoreRead
<1> HIDE DEF row, recorded
<1>9. RowsHold(IF n = 0 THEN row ELSE RefreshCount(row, recorded), id, auctions, events)
    BY <1>4, <1>7
<1>10. QED
    BY <1>1, <1>5, <1>6, <1>8, <1>9, OneRowChanges

LEMMA EventIsTrue ==
    ASSUME ChainInv, FetchInv, Applying
    PROVE  /\ next \in 1..Len(events)
           /\ Event \in LoggedEvent
           /\ Holds(Event, auctions)
           /\ Event.auction_id \in 1..Len(auctions) /\ Event.auction_id \in Ids
<1>1. next \in 1..Len(events) /\ events \in Seq(LoggedEvent)
    BY DEF ChainInv, FetchInv, Applying
<1>2. Event \in LoggedEvent /\ Holds(Event, auctions)
    BY <1>1 DEF Event, ChainInv, LogHolds
<1>3. Event.auction_id \in 1..Len(auctions)
    BY <1>2 DEF Holds
<1>4. Event.auction_id \in Ids
    BY <1>3, ContractAssumption DEF ChainInv, Ids
<1>5. QED
    BY <1>1, <1>2, <1>3, <1>4

LEMMA BidPlacedKeeps ==
    ASSUME ChainInv, FetchInv, StoreInv, ApplyBidPlaced
    PROVE  StoreInv'
<1> DEFINE id == Event.auction_id
           recorded == InsertBid(bids[id], Event.slot_index, Event.bidder)
<1>1. Applying /\ Event.name = "bid_placed" /\ UNCHANGED chain
    BY DEF ApplyBidPlaced, Applied
<1>2. Event \in LoggedEvent /\ Holds(Event, auctions) /\ id \in 1..Len(auctions) /\ id \in Ids
    BY <1>1, EventIsTrue
<1>3. Event.slot_index \in Nat /\ Event.bidder \in Bidders
    BY <1>1, <1>2 DEF LoggedEvent
<1>4. /\ Event.slot_index \in 0..(Len(auctions[id].bids) - 1)
      /\ Event.bidder = auctions[id].bids[Event.slot_index + 1]
    BY <1>1, <1>2 DEF Holds
<1>5. recorded \in SUBSET BidShape /\ BookHolds(recorded, id, auctions)
    BY <1>2, <1>3, <1>4, InsertHolds DEF StoreInv
<1>6. RowsHold(rows[id], id, auctions, events) /\ auctions \in Seq(Auction)
    BY <1>2 DEF StoreInv, ChainInv
<1>7. RowsHold(RefreshCount(rows[id], recorded), id, auctions, events)
    BY <1>2, <1>5, <1>6, CountHolds
<1>8. /\ bids' = [bids EXCEPT ![id] = recorded]
      /\ rows' = [rows EXCEPT ![id] = RefreshCount(rows[id], recorded)]
    BY DEF ApplyBidPlaced, recordBid
<1> HIDE DEF id, recorded
<1>9. QED
    BY <1>1, <1>2, <1>5, <1>7, <1>8, OneRowChanges

\* A row after an event that tells the truth still does.
LEMMA EndingHolds ==
    ASSUME NEW from \in Seq(Auction), NEW log, NEW i \in 1..Len(log),
           NEW e \in LoggedEvent, log[i] = e, e.name \in Endings, Holds(e, from),
           NEW row \in RowShape, RowHolds(row, e.auction_id, from, log)
    PROVE  /\ RowAfter(row, e) \in RowShape
           /\ RowHolds(RowAfter(row, e), e.auction_id, from, log)
<1> DEFINE after == RowAfter(row, e)
<1>1. CASE e.name = "auction_settled"
    <2>1. e.winner \in Bidders /\ WinnerLogged(e.winner, e.auction_id, log)
        BY <1>1 DEF LoggedEvent, WinnerLogged
    <2>2. after = [row EXCEPT !.status = "Settled", !.winner = e.winner]
        BY <1>1 DEF RowAfter
    <2>3. /\ after \in RowShape /\ after.status = "Settled" /\ after.winner = e.winner
          /\ after.filled_slots = row.filled_slots /\ after.lot_reclaimed = row.lot_reclaimed
        BY <2>1, <2>2 DEF RowShape, Statuses
    <2>4. from[e.auction_id].status = "Settled"
        BY <1>1 DEF Holds
    <2> HIDE DEF after
    <2>5. RowHolds(after, e.auction_id, from, log)
        BY <2>1, <2>3, <2>4 DEF RowHolds
    <2>6. QED
        BY <2>3, <2>5 DEF after
<1>2. CASE e.name = "auction_refunded"
    <2>1. after = [row EXCEPT !.status = "Refunded"]
        BY <1>2 DEF RowAfter
    <2>2. /\ after \in RowShape /\ after.status = "Refunded" /\ after.winner = row.winner
          /\ after.filled_slots = row.filled_slots /\ after.lot_reclaimed = row.lot_reclaimed
        BY <2>1 DEF RowShape, Statuses
    <2>3. from[e.auction_id].status = "Refunded"
        BY <1>2 DEF Holds
    <2> HIDE DEF after
    <2>4. RowHolds(after, e.auction_id, from, log)
        BY <2>2, <2>3 DEF RowHolds
    <2>5. QED
        BY <2>2, <2>4 DEF after
<1>3. CASE e.name = "lot_return_failed"
    <2>1. after = [row EXCEPT !.lot_reclaimed = FALSE]
        BY <1>3 DEF RowAfter
    <2>2. /\ after \in RowShape /\ after.status = row.status /\ after.winner = row.winner
          /\ after.filled_slots = row.filled_slots /\ ~after.lot_reclaimed
        BY <2>1 DEF RowShape
    <2> HIDE DEF after
    <2>3. RowHolds(after, e.auction_id, from, log)
        BY <2>2 DEF RowHolds
    <2>4. QED
        BY <2>2, <2>3 DEF after
<1>4. CASE e.name = "lot_reclaimed"
    <2>1. after = [row EXCEPT !.lot_reclaimed = TRUE]
        BY <1>4 DEF RowAfter
    <2>2. /\ after \in RowShape /\ after.status = row.status /\ after.winner = row.winner
          /\ after.filled_slots = row.filled_slots
        BY <2>1 DEF RowShape
    <2>3. from[e.auction_id].lot_reclaimed
        BY <1>4 DEF Holds
    <2> HIDE DEF after
    <2>4. RowHolds(after, e.auction_id, from, log)
        BY <2>2, <2>3 DEF RowHolds
    <2>5. QED
        BY <2>2, <2>4 DEF after
<1>5. QED
    BY <1>1, <1>2, <1>3, <1>4 DEF Endings

LEMMA EndingKeeps ==
    ASSUME ChainInv, FetchInv, StoreInv, ApplyEnding
    PROVE  StoreInv'
<1> DEFINE id == Event.auction_id
           row == Updated(rows[id], RowAfter(rows[id], Event))
<1>1. Applying /\ Event.name \in Endings /\ UNCHANGED chain /\ bids' = bids
    BY DEF ApplyEnding, Applied
<1>2. /\ next \in 1..Len(events) /\ events[next] = Event
      /\ Event \in LoggedEvent /\ Holds(Event, auctions)
      /\ id \in Ids
    BY <1>1, EventIsTrue DEF Event
<1>3. auctions \in Seq(Auction) /\ RowsHold(rows[id], id, auctions, events)
    BY <1>2 DEF ChainInv, StoreInv
<1>4. RowsHold(row, id, auctions, events)
    <2>1. CASE rows[id] = NoRow
        BY <1>3, <2>1 DEF Updated
    <2>2. CASE rows[id] # NoRow
        <3>1. rows[id] \in RowShape /\ RowHolds(rows[id], id, auctions, events)
            BY <1>3, <2>2 DEF RowsHold
        <3>2. /\ RowAfter(rows[id], Event) \in RowShape
              /\ RowHolds(RowAfter(rows[id], Event), id, auctions, events)
            BY <1>1, <1>2, <1>3, <3>1, EndingHolds
        <3>3. row = RowAfter(rows[id], Event)
            BY <2>2 DEF Updated
        <3>4. QED
            BY <3>2, <3>3 DEF RowsHold
    <2>3. QED
        BY <2>1, <2>2
<1>5. rows' = [rows EXCEPT ![id] = row]
    BY DEF ApplyEnding
<1>6. bids[id] \in SUBSET BidShape /\ BookHolds(bids[id], id, auctions)
    BY <1>2 DEF StoreInv
<1>7. bids' = [bids EXCEPT ![id] = bids[id]]
    BY <1>1, <1>2 DEF StoreInv
<1> HIDE DEF id, row
<1>8. QED
    BY <1>1, <1>2, <1>4, <1>5, <1>6, <1>7, OneRowChanges

-----------------------------------------------------------------------------
(* The initial states and the steps, one lemma per step.                    *)

LEMMA InitHolds ==
    ASSUME Init
    PROVE  IInv
<1>1. auctions = <<>> /\ events = <<>>
    BY DEF Init, ChainInit
<1>2. ChainInv
    BY <1>1, ContractAssumption DEF ChainInv, LotsKept, LogHolds
<1>3. \A id \in Ids : rows[id] = NoRow /\ bids[id] = {}
    BY DEF Init
<1>4. StoreInv
    <2>1. rows \in [Ids -> RowShape \cup {NoRow}] /\ bids \in [Ids -> SUBSET BidShape]
        BY DEF Init
    <2>2. QED
        BY <1>3, <2>1 DEF StoreInv, RowsHold, BookHolds
<1>5. FetchInv
    BY <1>1 DEF Init, FetchInv
<1>6. ReadInv
    BY DEF Init, ReadInv
<1>7. QED
    BY <1>2, <1>4, <1>5, <1>6 DEF IInv

\* A step that leaves the chain alone and holds no auction read.
LEMMA StoredKeeps ==
    ASSUME IInv, UNCHANGED chain, StoreInv', FetchInv', read' = Nothing
    PROVE  IInv'
<1>1. ChainInv'
    BY DEF IInv, ChainInv, chain
<1>2. ReadInv'
    BY DEF ReadInv
<1>3. QED
    BY <1>1, <1>2 DEF IInv

LEMMA StoreStays ==
    ASSUME StoreInv, UNCHANGED <<chain, rows, bids>>
    PROVE  StoreInv'
BY DEF StoreInv, chain

LEMMA FetchStays ==
    ASSUME FetchInv, UNCHANGED <<chain, auctionId, next, upto>>
    PROVE  FetchInv'
BY DEF FetchInv, chain

LEMMA SyncCleared ==
    ASSUME IInv, UNCHANGED chain, ClearSync
    PROVE  FetchInv' /\ read' = Nothing
<1>1. Len(events) \in Nat /\ events' = events
    BY DEF IInv, ChainInv, chain
<1>2. QED
    BY <1>1 DEF ClearSync, FetchInv

LEMMA CallsKeep ==
    ASSUME IInv, Calls
    PROVE  IInv'
<1>1. ChainInv' /\ ChainGrows
    BY CallKeeps DEF IInv, Calls
<1>2. UNCHANGED <<rows, bids, pc, auctionId, read, next, upto>>
    BY DEF Calls, store, locals
<1>3. StoreInv'
    BY <1>1, <1>2, StoreGrows DEF IInv
<1>4. Len(events) \in Nat /\ Len(events') \in Nat /\ LogGrows(events, events')
    BY <1>1 DEF IInv, ChainInv, ChainGrows
<1>5. FetchInv'
    BY <1>2, <1>4 DEF IInv, FetchInv, LogGrows
<1>6. ReadInv'
    <2> SUFFICES ASSUME read # Nothing
                 PROVE  /\ read \in Auction
                        /\ pc = "backfill" \/ (pc = "applying" /\ next <= upto)
                        /\ Target' \in 1..Len(auctions')
                        /\ Later(read, auctions'[Target'])
        BY <1>2 DEF ReadInv
    <2>1. /\ read \in Auction
          /\ pc = "backfill" \/ (pc = "applying" /\ next <= upto)
          /\ Target \in 1..Len(auctions)
          /\ Later(read, auctions[Target])
        BY DEF IInv, ReadInv
    <2>2. Target' = Target
        <3>1. CASE pc = "backfill"
            BY <1>2, <3>1 DEF Target
        <3>2. CASE pc = "applying" /\ next <= upto
            <4>1. next \in 1..Len(events)
                BY <1>4, <3>2 DEF IInv, FetchInv
            <4>2. events'[next] = events[next]
                BY <1>4, <4>1 DEF LogGrows
            <4>3. QED
                BY <1>2, <3>2, <4>2 DEF Target
        <3>3. QED
            BY <2>1, <3>1, <3>2
    <2>3. auctions \in Seq(Auction) /\ auctions' \in Seq(Auction) /\ Grows(auctions, auctions')
        BY <1>1 DEF IInv, ChainInv, ChainGrows
    <2>4. Target \in 1..Len(auctions') /\ Later(auctions[Target], auctions'[Target])
        BY <2>1, <2>3 DEF Grows
    <2>5. auctions[Target] \in Auction /\ auctions'[Target] \in Auction
        BY <2>1, <2>3, <2>4
    <2>6. Later(read, auctions'[Target])
        BY <2>1, <2>4, <2>5, LaterTransitive
    <2>7. QED
        BY <2>1, <2>2, <2>4, <2>6
<1>7. QED
    BY <1>1, <1>3, <1>5, <1>6 DEF IInv

LEMMA BootKeeps ==
    ASSUME IInv, Boot
    PROVE  IInv'
<1>1. UNCHANGED <<chain, rows, bids, auctionId, read, next, upto>> /\ pc = "down"
    BY DEF Boot, store, locals
<1>2. read' = Nothing
    BY <1>1 DEF IInv, ReadInv
<1>3. QED
    BY <1>1, <1>2, StoreStays, FetchStays, StoredKeeps DEF IInv

\* The auction just read is the chain's.
LEMMA ReadKeeps ==
    ASSUME IInv, UNCHANGED <<chain, rows, bids, pc, auctionId, next, upto>>,
           Target \in 1..Len(auctions), read' = auctions[Target],
           pc = "backfill" \/ (pc = "applying" /\ next <= upto)
    PROVE  IInv'
<1>1. UNCHANGED <<auctions, events>>
    BY DEF chain
<1>2. ChainInv' /\ StoreInv' /\ FetchInv'
    BY <1>1, StoreStays, FetchStays DEF IInv, ChainInv
<1>3. auctions[Target] \in Auction
    BY DEF IInv, ChainInv
<1>4. Later(auctions[Target], auctions[Target])
    BY <1>3, LaterReflexive
<1>5. Target' = Target
    BY <1>1 DEF Target
<1>6. ReadInv'
    BY <1>1, <1>3, <1>4, <1>5 DEF ReadInv
<1>7. QED
    BY <1>2, <1>6 DEF IInv

LEMMA BackfillReadKeeps ==
    ASSUME IInv, BackfillRead
    PROVE  IInv'
<1>1. /\ UNCHANGED <<chain, rows, bids, pc, auctionId, next, upto>>
      /\ pc = "backfill" /\ auctionId <= Len(auctions) /\ read' = auctions[auctionId]
    BY DEF BackfillRead, Probing, store
<1>2. Target = auctionId
    BY <1>1 DEF Target
<1>3. Target \in 1..Len(auctions)
    BY <1>1, <1>2 DEF IInv, ChainInv, FetchInv
<1>4. QED
    BY <1>1, <1>2, <1>3, ReadKeeps

LEMMA BackfillSkipsKeeps ==
    ASSUME IInv, BackfillSkips
    PROVE  IInv'
<1>1. /\ UNCHANGED <<chain, rows, bids, next, upto>>
      /\ auctionId' = auctionId + 1 /\ read' = Nothing
    BY DEF BackfillSkips, store
<1>2. FetchInv'
    BY <1>1 DEF IInv, FetchInv, chain
<1>3. QED
    BY <1>1, <1>2, StoreStays, StoredKeeps DEF IInv

LEMMA BackfillStoresKeeps ==
    ASSUME IInv, BackfillStores
    PROVE  IInv'
<1>1. /\ UNCHANGED <<chain, next, upto>> /\ pc = "backfill" /\ read # Nothing
      /\ StoreRead(auctionId, Len(read.bids))
      /\ auctionId' = auctionId + 1 /\ read' = Nothing
    BY DEF BackfillStores
<1>2. Target = auctionId
    BY <1>1 DEF Target
<1>3. read \in Auction /\ auctionId \in 1..Len(auctions) /\ Later(read, auctions[auctionId])
    BY <1>1, <1>2 DEF IInv, ReadInv
<1>4. Len(read.bids) \in 0..Len(read.bids)
    BY <1>3 DEF Auction
<1>5. StoreInv'
    BY <1>1, <1>3, <1>4, StoreReadKeeps DEF IInv
<1>6. FetchInv'
    BY <1>1 DEF IInv, FetchInv, chain
<1>7. QED
    BY <1>1, <1>5, <1>6, StoredKeeps

LEMMA ClearingKeeps ==
    ASSUME IInv, UNCHANGED <<chain, rows, bids>>, ClearSync
    PROVE  IInv'
BY SyncCleared, StoreStays, StoredKeeps DEF IInv

LEMMA StartSyncKeeps ==
    ASSUME IInv, StartSync
    PROVE  IInv'
<1> DEFINE old == {i \in DOMAIN events : events[i].ledger < StartLedger}
<1>1. /\ UNCHANGED <<chain, rows, bids, auctionId, read>> /\ pc = "idle"
      /\ upto' = Cardinality(old) /\ next' = upto' + 1
    BY DEF StartSync, EventsBefore, store
<1>2. read' = Nothing
    BY <1>1 DEF IInv, ReadInv
<1>3. Len(events) \in Nat /\ DOMAIN events = 1..Len(events)
    BY DEF IInv, ChainInv
<1>4. old \subseteq 1..Len(events)
    BY <1>3
<1> HIDE DEF old
<1>5. IsFiniteSet(1..Len(events)) /\ Cardinality(1..Len(events)) = Len(events)
    <2> DEFINE n == Len(events)
    <2>1. n \in Nat /\ 1 \in Int /\ n \in Int
        BY <1>3
    <2> HIDE DEF n
    <2>2. Cardinality(1..n) = IF 1 > n THEN 0 ELSE n - 1 + 1
        BY <2>1, FS_Interval, Zenon
    <2>3. IsFiniteSet(1..n)
        BY <2>1, FS_Interval
    <2>4. Cardinality(1..n) = n
        BY <2>1, <2>2
    <2>5. QED
        BY <2>3, <2>4 DEF n
<1>6. IsFiniteSet(old) /\ Cardinality(old) <= Cardinality(1..Len(events))
    BY <1>4, <1>5, FS_Subset
<1>7. Cardinality(old) \in Nat
    BY <1>6, FS_CardinalityType
<1>8. FetchInv'
    <2>1. upto' \in Nat /\ upto' <= Len(events) /\ next' \in Nat \ {0}
        BY <1>1, <1>5, <1>6, <1>7
    <2>2. QED
        BY <1>1, <2>1 DEF IInv, FetchInv, chain
<1>9. QED
    BY <1>1, <1>2, <1>8, StoreStays, StoredKeeps DEF IInv

LEMMA FetchPageKeeps ==
    ASSUME IInv, NEW no_cursor \in BOOLEAN, FetchPage(no_cursor)
    PROVE  IInv'
<1>1. /\ UNCHANGED <<chain, rows, bids, auctionId, read, next>> /\ pc = "fetching"
      /\ upto' = PageEnd(upto)
    BY DEF FetchPage, store
<1>2. read' = Nothing
    BY <1>1 DEF IInv, ReadInv
<1>3. Len(events) \in Nat /\ upto \in Nat
    BY DEF IInv, ChainInv, FetchInv
<1>4. upto' \in Nat /\ upto' <= Len(events)
    BY <1>1, <1>3, IndexerAssumption DEF PageEnd
<1>5. FetchInv'
    BY <1>1, <1>4 DEF IInv, FetchInv, chain
<1>6. QED
    BY <1>1, <1>2, <1>5, StoreStays, StoredKeeps DEF IInv

LEMMA EnrichReadKeeps ==
    ASSUME IInv, EnrichRead
    PROVE  IInv'
<1>1. /\ UNCHANGED <<chain, rows, bids, pc, auctionId, next, upto>>
      /\ Applying /\ read' = auctions[Event.auction_id]
    BY DEF EnrichRead, store
<1>2. Target = Event.auction_id
    BY <1>1 DEF Target, Applying, Event
<1>3. Event.auction_id \in 1..Len(auctions)
    BY <1>1, EventIsTrue DEF IInv
<1>4. QED
    BY <1>1, <1>2, <1>3, ReadKeeps DEF Applying

\* The event is done with.
LEMMA AppliedKeeps ==
    ASSUME IInv, StoreInv', Applied
    PROVE  IInv'
<1>1. UNCHANGED <<chain, auctionId, upto>> /\ next' = next + 1 /\ read' = Nothing
    BY DEF Applied
<1>2. FetchInv'
    BY <1>1 DEF IInv, FetchInv, chain
<1>3. QED
    BY <1>1, <1>2, StoredKeeps

LEMMA NothingStored ==
    ASSUME IInv, Applied, UNCHANGED <<rows, bids>>
    PROVE  IInv'
<1>1. UNCHANGED chain
    BY DEF Applied
<1>2. StoreInv'
    BY <1>1, StoreStays DEF IInv
<1>3. QED
    BY <1>2, AppliedKeeps

LEMMA EnrichStoresKeeps ==
    ASSUME IInv, EnrichStores
    PROVE  IInv'
<1>1. /\ UNCHANGED chain /\ Applying /\ Applied /\ read # Nothing
      /\ StoreRead(Event.auction_id, Len(read.bids))
    BY DEF EnrichStores, Applied
<1>2. Target = Event.auction_id
    BY <1>1 DEF Target, Applying, Event
<1>3. /\ read \in Auction /\ Event.auction_id \in 1..Len(auctions)
      /\ Later(read, auctions[Event.auction_id])
    BY <1>1, <1>2 DEF IInv, ReadInv
<1>4. Len(read.bids) \in 0..Len(read.bids)
    BY <1>3 DEF Auction
<1>5. StoreInv'
    BY <1>1, <1>3, <1>4, StoreReadKeeps DEF IInv
<1>6. QED
    BY <1>1, <1>5, AppliedKeeps

\* A crash in the middle of a store leaves a part of what is so.
LEMMA CrashKeeps ==
    ASSUME IInv, Crash
    PROVE  IInv'
<1>1. UNCHANGED chain /\ ClearSync
    BY DEF Crash
<1>2. CASE UNCHANGED <<rows, bids>>
    BY <1>1, <1>2, ClearingKeeps
<1>3. CASE /\ read # Nothing
           /\ \E n \in 0..(Len(read.bids) - 1) :
                StoreRead(IF pc = "backfill" THEN auctionId ELSE Event.auction_id, n)
    <2>1. PICK n \in 0..(Len(read.bids) - 1) :
            StoreRead(IF pc = "backfill" THEN auctionId ELSE Event.auction_id, n)
        BY <1>3
    <2>2. StoreRead(Target, n)
        BY <2>1 DEF Target, Event
    <2>3. read \in Auction /\ Target \in 1..Len(auctions) /\ Later(read, auctions[Target])
        BY <1>3 DEF IInv, ReadInv
    <2>4. n \in 0..Len(read.bids)
        BY <2>3 DEF Auction
    <2>5. StoreInv'
        BY <1>1, <2>2, <2>3, <2>4, StoreReadKeeps DEF IInv
    <2>6. QED
        BY <1>1, <2>5, SyncCleared, StoredKeeps
<1>4. QED
    BY <1>2, <1>3 DEF Crash

LEMMA StutterKeeps ==
    ASSUME IInv, UNCHANGED vars
    PROVE  IInv'
<1>1. UNCHANGED <<auctions, events, rows, bids, pc, auctionId, read, next, upto>>
    BY DEF vars
<1>2. ChainInv' /\ StoreInv' /\ FetchInv'
    BY <1>1, StoreStays, FetchStays DEF IInv, ChainInv, chain
<1>3. Target' = Target
    BY <1>1 DEF Target
<1>4. ReadInv'
    BY <1>1, <1>3 DEF IInv, ReadInv
<1>5. QED
    BY <1>2, <1>4 DEF IInv

LEMMA StepHolds ==
    ASSUME IInv, [Next]_vars
    PROVE  IInv'
<1>1. CASE Calls
    BY <1>1, CallsKeep
<1>2. CASE Boot
    BY <1>2, BootKeeps
<1>3. CASE BackfillRead \/ BackfillStores \/ BackfillSkips
    BY <1>3, BackfillReadKeeps, BackfillStoresKeeps, BackfillSkipsKeeps
<1>4. CASE BackfillEnds \/ SyncFails \/ SaveCursor
    <2>1. UNCHANGED <<chain, rows, bids>> /\ ClearSync
        BY <1>4 DEF BackfillEnds, SyncFails, SaveCursor, store
    <2>2. QED
        BY <2>1, ClearingKeeps
<1>5. CASE StartSync
    BY <1>5, StartSyncKeeps
<1>6. CASE \E no_cursor \in BOOLEAN : FetchPage(no_cursor)
    BY <1>6, FetchPageKeeps
<1>7. CASE EnrichRead
    BY <1>7, EnrichReadKeeps
<1>8. CASE EnrichSkips \/ KnownAuction
    <2>1. Applied /\ UNCHANGED <<rows, bids>>
        BY <1>8 DEF EnrichSkips, KnownAuction
    <2>2. QED
        BY <2>1, NothingStored
<1>9. CASE EnrichStores
    BY <1>9, EnrichStoresKeeps
<1>10. CASE ApplyBidPlaced
    <2>1. StoreInv' /\ Applied
        BY <1>10, BidPlacedKeeps DEF IInv, ApplyBidPlaced
    <2>2. QED
        BY <2>1, AppliedKeeps
<1>11. CASE ApplyEnding
    <2>1. StoreInv' /\ Applied
        BY <1>11, EndingKeeps DEF IInv, ApplyEnding
    <2>2. QED
        BY <2>1, AppliedKeeps
<1>12. CASE Crash
    BY <1>12, CrashKeeps
<1>13. CASE UNCHANGED vars
    BY <1>13, StutterKeeps
<1>14. QED
    BY <1>1, <1>2, <1>3, <1>4, <1>5, <1>6, <1>7, <1>8, <1>9, <1>10, <1>11, <1>12, <1>13
       DEF Next, Ingestion, Faults, ApplyEvent

-----------------------------------------------------------------------------
LEMMA InvariantTellsTheTruth ==
    ASSUME IInv
    PROVE  RowsTellTheTruth
<1>1. ASSUME NEW id \in Ids, hasAuction(id)
      PROVE  RowTellsTheTruth(id)
    <2>1. RowHolds(rows[id], id, auctions, events)
        BY <1>1 DEF IInv, StoreInv, RowsHold, hasAuction
    <2>2. id <= Len(auctions)
        BY <2>1 DEF RowHolds, IInv, ChainInv
    <2>3. rows[id].winner # NoWinner => Announced(id, rows[id].winner)
        <3>1. DOMAIN events = 1..Len(events)
            BY DEF IInv, ChainInv
        <3>2. QED
            BY <2>1, <3>1 DEF RowHolds, WinnerLogged, Announced
    <2>4. QED
        BY <2>1, <2>2, <2>3 DEF RowHolds, RowTellsTheTruth
<1>2. ASSUME NEW id \in Ids
      PROVE  BidsTellTheTruth(id)
    <2> SUFFICES ASSUME NEW b \in bids[id]
                 PROVE  /\ id <= Len(auctions)
                        /\ b.slot_index < Len(auctions[id].bids)
                        /\ b.bidder = auctions[id].bids[b.slot_index + 1]
        BY DEF BidsTellTheTruth
    <2>1. /\ id \in 1..Len(auctions)
          /\ b.slot_index \in 0..(Len(auctions[id].bids) - 1)
          /\ b.bidder = auctions[id].bids[b.slot_index + 1]
        BY DEF IInv, StoreInv, BookHolds
    <2>2. auctions[id] \in Auction /\ Len(auctions) \in Nat
        BY <2>1 DEF IInv, ChainInv
    <2>3. Len(auctions[id].bids) \in Nat
        BY <2>2 DEF Auction
    <2>4. QED
        BY <2>1, <2>2, <2>3
<1>3. QED
    BY <1>1, <1>2 DEF RowsTellTheTruth

\* Whatever a row or a recorded bid says, the chain has: reads stored late,
\* replayed and repeated events, skipped auctions and crashes between the
\* transactions of a store never put an outcome, a winner, a returned lot or a bid
\* into SQLite that the contract does not have (ingest.ts, db.ts).
THEOREM IndexTellsTheTruth ==
    Spec => []RowsTellTheTruth
<1>1. Init => IInv
    BY InitHolds
<1>2. IInv /\ [Next]_vars => IInv'
    BY StepHolds
<1>3. IInv => RowsTellTheTruth
    BY InvariantTellsTheTruth
<1>4. QED
    BY <1>1, <1>2, <1>3, PTL DEF Spec

-----------------------------------------------------------------------------
(* A call publishes at the next ledger.                                    *)

LEMMA OnePublished ==
    ASSUME events \in Seq(LoggedEvent), NEW e \in LoggedEvent, events' = events \o <<e>>
    PROVE  /\ Len(events') = Len(events) + 1
           /\ events'[Len(events) + 1] = e
OBVIOUS

LEMMA TwoPublished ==
    ASSUME events \in Seq(LoggedEvent), NEW d \in LoggedEvent, NEW e \in LoggedEvent,
           events' = events \o <<d, e>>
    PROVE  /\ Len(events') = Len(events) + 2
           /\ events'[Len(events) + 1] = d
           /\ events'[Len(events) + 2] = e
OBVIOUS

\* What a call adds to the log: one or two events, and a settlement alone.
LEMMA CallAdds ==
    ASSUME ChainInv, ContractCall
    PROVE  /\ Len(events') > Len(events)
           /\ \A i \in (Len(events) + 1)..Len(events') :
                /\ events'[i].ledger = LatestLedger + 1
                /\ events'[i].name = "auction_settled" =>
                        /\ Len(events') = Len(events) + 1
                        /\ auctions[events'[i].auction_id].status = "Open"
<1> DEFINE n == Len(events)
<1>1. events \in Seq(LoggedEvent) /\ n \in Nat /\ LatestLedger + 1 \in Nat
    BY LedgerIsNat DEF ChainInv
<1>2. auctions \in Seq(Auction) /\ DOMAIN auctions = 1..Len(auctions)
    BY DEF ChainInv
<1>3. ASSUME NEW e \in LoggedEvent, events' = events \o <<e>>, e.ledger = LatestLedger + 1,
             e.name = "auction_settled" => auctions[e.auction_id].status = "Open"
      PROVE  /\ Len(events') > n
             /\ \A i \in (n + 1)..Len(events') :
                  /\ events'[i].ledger = LatestLedger + 1
                  /\ events'[i].name = "auction_settled" =>
                        /\ Len(events') = n + 1
                        /\ auctions[events'[i].auction_id].status = "Open"
    <2>1. Len(events') = n + 1 /\ events'[n + 1] = e
        BY <1>1, <1>3, OnePublished
    <2> HIDE DEF n
    <2>2. \A i \in (n + 1)..Len(events') : events'[i] = e
        BY <1>1, <2>1
    <2>3. QED
        BY <1>1, <1>3, <2>1, <2>2
<1>4. CASE CreateAuction
    <2>1. /\ AuctionCreated(Len(auctions) + 1) \in LoggedEvent
          /\ AuctionCreated(Len(auctions) + 1).ledger = LatestLedger + 1
          /\ AuctionCreated(Len(auctions) + 1).name # "auction_settled"
        BY <1>1, <1>2 DEF AuctionCreated, LoggedEvent
    <2>2. QED
        BY <1>3, <1>4, <2>1 DEF CreateAuction, Publish
<1>5. ASSUME NEW id \in DOMAIN auctions, NEW who \in Bidders, PlaceBid(id, who)
      PROVE  \E e \in LoggedEvent : /\ events' = events \o <<e>> /\ e.ledger = LatestLedger + 1
                                    /\ e.name # "auction_settled"
    <2>1. auctions[id] \in Auction
        BY <1>2
    <2>2. Len(auctions[id].bids) \in Nat
        BY <2>1 DEF Auction
    <2>3. BidPlaced(id, Len(auctions[id].bids), who) \in LoggedEvent
        BY <1>1, <1>2, <2>2 DEF BidPlaced, LoggedEvent
    <2>4. QED
        BY <1>5, <2>3 DEF PlaceBid, Publish, BidPlaced
<1>6. ASSUME NEW id \in DOMAIN auctions, NEW slot \in 1..MAX_BID_SLOTS, Settle(id, slot)
      PROVE  \E e \in LoggedEvent : /\ events' = events \o <<e>> /\ e.ledger = LatestLedger + 1
                                    /\ auctions[e.auction_id].status = "Open"
    <2>1. auctions[id] \in Auction
        BY <1>2
    <2>2. auctions[id].bids[slot] \in Bidders
        BY <1>6, <2>1 DEF Auction, Settle
    <2>3. AuctionSettled(id, auctions[id].bids[slot]) \in LoggedEvent
        BY <1>1, <1>2, <2>2 DEF AuctionSettled, LoggedEvent
    <2>4. QED
        BY <1>6, <2>3 DEF Settle, Publish, AuctionSettled
<1>7. ASSUME NEW id \in DOMAIN auctions, NEW lot_returned \in BOOLEAN, RefundAll(id, lot_returned)
      PROVE  /\ Len(events') > n
             /\ \A i \in (n + 1)..Len(events') :
                  /\ events'[i].ledger = LatestLedger + 1
                  /\ events'[i].name # "auction_settled"
    <2>1. /\ LotReturnFailed(id) \in LoggedEvent /\ AuctionRefunded(id) \in LoggedEvent
          /\ LotReturnFailed(id).ledger = LatestLedger + 1
          /\ AuctionRefunded(id).ledger = LatestLedger + 1
          /\ LotReturnFailed(id).name # "auction_settled"
          /\ AuctionRefunded(id).name # "auction_settled"
        BY <1>1, <1>2 DEF LotReturnFailed, AuctionRefunded, LoggedEvent
    <2>2. CASE lot_returned
        <3>1. events' = events \o <<AuctionRefunded(id)>>
            BY <1>7, <2>2 DEF RefundAll, Publish
        <3>2. Len(events') = n + 1 /\ events'[n + 1] = AuctionRefunded(id)
            BY <1>1, <2>1, <3>1, OnePublished
        <3> HIDE DEF n
        <3>3. \A i \in (n + 1)..Len(events') : events'[i] = AuctionRefunded(id)
            BY <1>1, <3>2
        <3>4. QED
            BY <1>1, <2>1, <3>2, <3>3
    <2>3. CASE ~lot_returned
        <3>1. events' = events \o <<LotReturnFailed(id), AuctionRefunded(id)>>
            BY <1>7, <2>3 DEF RefundAll, Publish
        <3>2. /\ Len(events') = n + 2 /\ events'[n + 1] = LotReturnFailed(id)
              /\ events'[n + 2] = AuctionRefunded(id)
            BY <1>1, <2>1, <3>1, TwoPublished
        <3> HIDE DEF n
        <3>3. \A i \in (n + 1)..Len(events') :
                events'[i] = LotReturnFailed(id) \/ events'[i] = AuctionRefunded(id)
            BY <1>1, <3>2
        <3>4. QED
            BY <1>1, <2>1, <3>2, <3>3
    <2>4. QED
        BY <2>2, <2>3
<1>8. ASSUME NEW id \in DOMAIN auctions, ReclaimLot(id)
      PROVE  \E e \in LoggedEvent : /\ events' = events \o <<e>> /\ e.ledger = LatestLedger + 1
                                    /\ e.name # "auction_settled"
    <2>1. LotReclaimed(id) \in LoggedEvent
        BY <1>1, <1>2 DEF LotReclaimed, LoggedEvent
    <2>2. QED
        BY <1>8, <2>1 DEF ReclaimLot, Publish, LotReclaimed
<1>9. ASSUME \E e \in LoggedEvent :
                /\ events' = events \o <<e>> /\ e.ledger = LatestLedger + 1
                /\ e.name = "auction_settled" => auctions[e.auction_id].status = "Open"
      PROVE  /\ Len(events') > n
             /\ \A i \in (n + 1)..Len(events') :
                  /\ events'[i].ledger = LatestLedger + 1
                  /\ events'[i].name = "auction_settled" =>
                        /\ Len(events') = n + 1
                        /\ auctions[events'[i].auction_id].status = "Open"
    BY <1>3, <1>9
<1>10. QED
    BY <1>4, <1>5, <1>6, <1>7, <1>8, <1>9 DEF ContractCall

LEMMA LedgerAdvances ==
    ASSUME ChainInv, ChainInv', ContractCall
    PROVE  LatestLedger' = LatestLedger + 1
<1>1. Len(events) \in Nat /\ Len(events') \in Nat /\ events' \in Seq(LoggedEvent)
    BY DEF ChainInv
<1>2. Len(events') \in (Len(events) + 1)..Len(events')
    BY <1>1, CallAdds
<1>3. events' # <<>>
    BY <1>1, <1>2
<1>4. QED
    BY <1>2, <1>3, CallAdds DEF LatestLedger

-----------------------------------------------------------------------------
(* The cursor: no saved ledger is past an event that no page has brought.   *)

\* Every ledger the process remembers is one the chain has closed, and a first
\* boot is within the lookback until it saves a cursor.
LedgersKnown ==
    /\ LatestLedger \in Nat \ {0}
    /\ \A i \in 1..Len(events) : events[i].ledger <= LatestLedger
    /\ lastLedger \in Nat /\ lastLedger <= LatestLedger
    /\ latestLedger \in Nat /\ latestLedger <= LatestLedger
    /\ booted \in Nat /\ booted <= LatestLedger
    /\ lastLedger = NoLedger /\ pc # "down"
          => LatestLedger <= booted + EVENT_LOOKBACK_LEDGERS

PagesCounted ==
    /\ pages \in 0..(MAX_EVENT_PAGES - 1)
    /\ pc # "fetching" => pages = 0

\* A finished walk has brought every event before the ledger to be saved.
WalkIsComplete ==
    pc = "applying" =>
        /\ latestLedger # NoLedger /\ lastLedger <= latestLedger
        /\ lastLedger = NoLedger => booted <= latestLedger
        /\ \A i \in (upto + 1)..Len(events) : events[i].ledger >= latestLedger

CursorInv == LedgersKnown /\ PagesCounted /\ WalkIsComplete /\ WalkBringsAll

CountBefore(log, ledger) == Cardinality({i \in DOMAIN log : log[i].ledger < ledger})

LEMMA CountGrows ==
    ASSUME NEW log \in Seq(LoggedEvent), NEW l \in Nat, NEW m \in Nat, l <= m
    PROVE  /\ CountBefore(log, l) \in Nat /\ CountBefore(log, m) \in Nat
           /\ CountBefore(log, l) <= CountBefore(log, m)
<1> DEFINE before(k) == {i \in DOMAIN log : log[i].ledger < k}
           n == Len(log)
<1>1. n \in Nat /\ DOMAIN log = 1..n
    OBVIOUS
<1>2. IsFiniteSet(1..n)
    <2>1. 1 \in Int /\ n \in Int
        BY <1>1
    <2> HIDE DEF n
    <2>2. QED
        BY <2>1, FS_Interval
<1>3. before(m) \subseteq 1..n /\ before(l) \subseteq before(m)
    <2>1. \A i \in 1..n : log[i] \in LoggedEvent
        BY <1>1
    <2>2. \A i \in 1..n : log[i].ledger \in Nat
        BY <2>1 DEF LoggedEvent
    <2>3. QED
        BY <1>1, <2>2
<1> HIDE DEF before, n
<1>4. IsFiniteSet(before(m))
    BY <1>2, <1>3, FS_Subset
<1>5. IsFiniteSet(before(l)) /\ Cardinality(before(l)) <= Cardinality(before(m))
    BY <1>3, <1>4, FS_Subset
<1>6. Cardinality(before(l)) \in Nat /\ Cardinality(before(m)) \in Nat
    BY <1>4, <1>5, FS_CardinalityType
<1>7. QED
    BY <1>5, <1>6 DEF CountBefore, before

LEMMA BringsAll ==
    /\ WalkBringsAll <=>
         /\ Len(events) - CountBefore(events, StartLedger)
               <= MAX_EVENT_PAGES * EVENT_PAGE_LIMIT
         /\ pc = "fetching" =>
               Len(events) - upto <= (MAX_EVENT_PAGES - pages) * EVENT_PAGE_LIMIT
    /\ WalkBringsAll' <=>
         /\ Len(events') - CountBefore(events', StartLedger')
               <= MAX_EVENT_PAGES * EVENT_PAGE_LIMIT
         /\ pc' = "fetching" =>
               Len(events') - upto' <= (MAX_EVENT_PAGES - pages') * EVENT_PAGE_LIMIT
BY DEF WalkBringsAll, EventsBefore, CountBefore

\* A step of the process changes neither the chain nor where a sync would start.
LEMMA SameStart ==
    ASSUME UNCHANGED <<chain, lastLedger>>
    PROVE  LatestLedger' = LatestLedger /\ StartLedger' = StartLedger
BY DEF chain, LatestLedger, StartLedger

\* Steps that leave the walk alone, or end or begin it: the page, the ledger and
\* the position they leave are the ones the cursor's invariant asks for.
LEMMA ProcessKeepsCursor ==
    ASSUME CursorInv, UNCHANGED <<chain, lastLedger>>,
           latestLedger' \in Nat, latestLedger' <= LatestLedger,
           booted' \in Nat, booted' <= LatestLedger,
           lastLedger = NoLedger /\ pc' # "down"
              => LatestLedger <= booted' + EVENT_LOOKBACK_LEDGERS,
           pages' \in 0..(MAX_EVENT_PAGES - 1), pc' # "fetching" => pages' = 0,
           pc' = "applying" =>
              /\ latestLedger' # NoLedger /\ lastLedger <= latestLedger'
              /\ lastLedger = NoLedger => booted' <= latestLedger'
              /\ \A i \in (upto' + 1)..Len(events) : events[i].ledger >= latestLedger',
           pc' = "fetching" =>
              Len(events) - upto' <= (MAX_EVENT_PAGES - pages') * EVENT_PAGE_LIMIT
    PROVE  CursorInv'
<1>1. /\ LatestLedger' = LatestLedger /\ StartLedger' = StartLedger
      /\ events' = events /\ lastLedger' = lastLedger
    BY SameStart DEF chain
<1>2. LedgersKnown'
    BY <1>1 DEF CursorInv, LedgersKnown
<1>3. PagesCounted' /\ WalkIsComplete'
    BY <1>1 DEF PagesCounted, WalkIsComplete
<1>4. WalkBringsAll'
    BY <1>1, BringsAll DEF CursorInv
<1>5. QED
    BY <1>2, <1>3, <1>4 DEF CursorInv

\* A step that touches nothing of the walk.
LEMMA QuietKeepsCursor ==
    ASSUME CursorInv, UNCHANGED <<chain, lastLedger, pc, upto, pages, latestLedger, booted>>
    PROVE  CursorInv'
<1>1. /\ latestLedger \in Nat /\ latestLedger <= LatestLedger
      /\ booted \in Nat /\ booted <= LatestLedger
      /\ lastLedger = NoLedger /\ pc # "down"
              => LatestLedger <= booted + EVENT_LOOKBACK_LEDGERS
    BY DEF CursorInv, LedgersKnown
<1>2. pages \in 0..(MAX_EVENT_PAGES - 1) /\ (pc # "fetching" => pages = 0)
    BY DEF CursorInv, PagesCounted
<1>3. pc = "fetching" => Len(events) - upto <= (MAX_EVENT_PAGES - pages) * EVENT_PAGE_LIMIT
    BY BringsAll DEF CursorInv
<1>4. pc = "applying" =>
        /\ latestLedger # NoLedger /\ lastLedger <= latestLedger
        /\ lastLedger = NoLedger => booted <= latestLedger
        /\ \A i \in (upto + 1)..Len(events) : events[i].ledger >= latestLedger
    BY DEF CursorInv, WalkIsComplete
<1>5. QED
    BY <1>1, <1>2, <1>3, <1>4, ProcessKeepsCursor

\* A sync given up, a backfill done, a crash.
LEMMA ClearKeepsCursor ==
    ASSUME CursorInv, UNCHANGED <<chain, lastLedger, booted>>, ClearSync,
           pc # "down", pc' \in {"idle", "down"}
    PROVE  CursorInv'
<1>1. latestLedger' = 0 /\ pages' = 0 /\ 0 \in 0..(MAX_EVENT_PAGES - 1)
    BY IndexerAssumption DEF ClearSync
<1>2. /\ LatestLedger \in Nat /\ booted \in Nat /\ booted <= LatestLedger
      /\ lastLedger = NoLedger => LatestLedger <= booted + EVENT_LOOKBACK_LEDGERS
    BY DEF CursorInv, LedgersKnown
<1>3. QED
    BY <1>1, <1>2, ProcessKeepsCursor

\* The chain moves on: what is published is at a later ledger than any known one.
LEMMA CallsKeepCursor ==
    ASSUME ~MayOutpaceWalk, IInv, IInv', CursorInv, Calls
    PROVE  CursorInv'
<1>1. /\ ContractCall /\ WalkBringsAll'
      /\ UNCHANGED <<lastLedger, upto, pages, latestLedger, pc, booted>>
      /\ lastLedger = NoLedger /\ pc # "down"
           => LatestLedger - booted < EVENT_LOOKBACK_LEDGERS
    BY DEF Calls, store, locals
<1>2. ChainInv /\ ChainInv' /\ ChainGrows
    BY <1>1, CallKeeps DEF IInv
<1>3. LatestLedger' = LatestLedger + 1
    BY <1>1, <1>2, LedgerAdvances
<1>4. /\ Len(events) \in Nat /\ Len(events') \in Nat /\ Len(events') > Len(events)
      /\ \A i \in 1..Len(events) : events'[i] = events[i]
      /\ \A i \in (Len(events) + 1)..Len(events') : events'[i].ledger = LatestLedger + 1
    BY <1>1, <1>2, CallAdds DEF ChainInv, ChainGrows, LogGrows
<1>5. LedgersKnown
    BY DEF CursorInv
<1>6. \A i \in 1..Len(events) : events[i].ledger \in Nat
    <2>1. \A i \in 1..Len(events) : events[i] \in LoggedEvent
        BY <1>2 DEF ChainInv
    <2>2. QED
        BY <2>1 DEF LoggedEvent
<1>7. LedgersKnown'
    <2>1. LatestLedger' \in Nat \ {0}
        BY <1>3, <1>5 DEF LedgersKnown
    <2>2. \A i \in 1..Len(events') : events'[i].ledger <= LatestLedger'
        <3> SUFFICES ASSUME NEW i \in 1..Len(events')
                     PROVE  events'[i].ledger <= LatestLedger + 1
            BY <1>3
        <3>1. CASE i <= Len(events)
            BY <1>4, <1>5, <1>6, <3>1 DEF LedgersKnown
        <3>2. CASE i > Len(events)
            <4>1. i \in (Len(events) + 1)..Len(events')
                BY <1>4, <3>2
            <4>2. QED
                BY <1>4, <1>5, <4>1 DEF LedgersKnown
        <3>3. QED
            BY <1>4, <3>1, <3>2
    <2>3. lastLedger = NoLedger /\ pc # "down"
            => LatestLedger + 1 <= booted + EVENT_LOOKBACK_LEDGERS
        BY <1>1, <1>5, IndexerAssumption DEF LedgersKnown
    <2>4. QED
        BY <1>1, <1>3, <1>5, <2>1, <2>2, <2>3 DEF LedgersKnown
<1>8. PagesCounted'
    BY <1>1 DEF CursorInv, PagesCounted
<1>9. WalkIsComplete'
    <2> SUFFICES ASSUME pc = "applying", NEW i \in (upto + 1)..Len(events')
                 PROVE  events'[i].ledger >= latestLedger
        BY <1>1 DEF CursorInv, WalkIsComplete
    <2>1. upto \in Nat
        BY DEF IInv, FetchInv
    <2>2. CASE i <= Len(events)
        <3>1. i \in (upto + 1)..Len(events) /\ i \in 1..Len(events)
            BY <1>4, <2>1, <2>2
        <3>2. QED
            BY <1>4, <3>1 DEF CursorInv, WalkIsComplete
    <2>3. CASE i > Len(events)
        <3>1. i \in (Len(events) + 1)..Len(events')
            BY <1>4, <2>1, <2>3
        <3>2. QED
            BY <1>4, <1>5, <3>1 DEF LedgersKnown
    <2>4. QED
        BY <1>4, <2>1, <2>2, <2>3
<1>10. QED
    BY <1>1, <1>7, <1>8, <1>9 DEF CursorInv

LEMMA BootKeepsCursor ==
    ASSUME CursorInv, Boot
    PROVE  CursorInv'
<1>1. /\ UNCHANGED <<chain, lastLedger, upto, pages, latestLedger>>
      /\ pc = "down" /\ pc' = "backfill"
      /\ booted' = IF lastLedger = NoLedger THEN LatestLedger ELSE booted
    BY DEF Boot, store, locals
<1>2. LedgersKnown /\ PagesCounted
    BY DEF CursorInv
<1>3. /\ booted' \in Nat /\ booted' <= LatestLedger
      /\ lastLedger = NoLedger => LatestLedger <= booted' + EVENT_LOOKBACK_LEDGERS
    BY <1>1, <1>2, IndexerAssumption DEF LedgersKnown
<1>4. QED
    BY <1>1, <1>2, <1>3, ProcessKeepsCursor DEF LedgersKnown, PagesCounted

\* A walk starts at an event all of those after which it has pages for.
LEMMA StartSyncKeepsCursor ==
    ASSUME IInv, CursorInv, StartSync
    PROVE  CursorInv'
<1>1. /\ UNCHANGED <<chain, lastLedger, pages, booted>>
      /\ pc = "idle" /\ pc' = "fetching"
      /\ upto' = CountBefore(events, StartLedger) /\ latestLedger' = StartLedger
    BY DEF StartSync, store, EventsBefore, CountBefore
<1>2. LedgersKnown /\ PagesCounted /\ WalkBringsAll
    BY DEF CursorInv
<1>3. StartLedger \in Nat /\ StartLedger <= LatestLedger
    BY <1>2, IndexerAssumption DEF LedgersKnown, StartLedger, NoLedger
<1>4. pages = 0 /\ (MAX_EVENT_PAGES - 0) * EVENT_PAGE_LIMIT = MAX_EVENT_PAGES * EVENT_PAGE_LIMIT
    BY <1>1, <1>2, IndexerAssumption DEF PagesCounted
<1>5. Len(events) - upto' <= (MAX_EVENT_PAGES - pages') * EVENT_PAGE_LIMIT
    BY <1>1, <1>2, <1>4, BringsAll
<1>6. /\ booted \in Nat /\ booted <= LatestLedger
      /\ lastLedger = NoLedger => LatestLedger <= booted + EVENT_LOOKBACK_LEDGERS
    BY <1>1, <1>2 DEF LedgersKnown
<1>7. QED
    BY <1>1, <1>2, <1>3, <1>5, <1>6, ProcessKeepsCursor DEF PagesCounted

\* The last page of a walk reaches the last event.
LEMMA FetchPageKeepsCursor ==
    ASSUME IInv, CursorInv, NEW no_cursor \in BOOLEAN, FetchPage(no_cursor)
    PROVE  CursorInv'
<1> DEFINE n == Len(events)
           left == MAX_EVENT_PAGES - pages
<1>1. /\ UNCHANGED <<chain, lastLedger, booted>> /\ pc = "fetching"
      /\ upto' = PageEnd(upto) /\ latestLedger' = LatestLedger
      /\ IF LastPage(upto', no_cursor) THEN pc' = "applying" /\ pages' = 0
         ELSE pc' = pc /\ pages' = pages + 1
    BY DEF FetchPage, store
<1>2. LedgersKnown /\ PagesCounted /\ WalkBringsAll
    BY DEF CursorInv
<1>3. /\ n \in Nat /\ upto \in Nat /\ EVENT_PAGE_LIMIT \in Nat \ {0}
      /\ MAX_EVENT_PAGES \in Nat \ {0} /\ pages \in 0..(MAX_EVENT_PAGES - 1)
    BY <1>2, IndexerAssumption DEF IInv, ChainInv, FetchInv, PagesCounted
<1>4. n - upto <= left * EVENT_PAGE_LIMIT
    BY <1>1, <1>2, BringsAll
<1>5. upto' = IF upto + EVENT_PAGE_LIMIT < n THEN upto + EVENT_PAGE_LIMIT ELSE n
    BY <1>1 DEF PageEnd
<1>6. left \in Nat \ {0}
    BY <1>3
<1>7. (left - 1) * EVENT_PAGE_LIMIT = left * EVENT_PAGE_LIMIT - EVENT_PAGE_LIMIT
      /\ left * EVENT_PAGE_LIMIT \in Nat /\ (left - 1) * EVENT_PAGE_LIMIT \in Nat
      /\ 1 * EVENT_PAGE_LIMIT = EVENT_PAGE_LIMIT
    <2> HIDE DEF left
    <2>1. QED
        BY <1>3, <1>6
<1>8. n - upto' <= (left - 1) * EVENT_PAGE_LIMIT
    <2> HIDE DEF n, left
    <2>1. QED
        BY <1>3, <1>4, <1>5, <1>7
<1>9. CASE LastPage(upto', no_cursor)
    <2>1. upto' = n
        <3>1. CASE pages + 1 = MAX_EVENT_PAGES
            <4>1. left = 1
                BY <1>3, <3>1
            <4>2. n - upto <= EVENT_PAGE_LIMIT
                <5> HIDE DEF n, left
                <5>1. QED
                    BY <1>4, <1>7, <4>1
            <4>3. QED
                BY <1>3, <1>5, <4>2
        <3>2. QED
            BY <1>9, <3>1 DEF LastPage
    <2>2. \A i \in (upto' + 1)..n : events[i].ledger >= latestLedger'
        BY <1>3, <2>1
    <2>3. 0 \in 0..(MAX_EVENT_PAGES - 1)
        BY <1>3
    <2>4. QED
        BY <1>1, <1>2, <1>9, <2>2, <2>3, ProcessKeepsCursor DEF LedgersKnown, NoLedger
<1>10. CASE ~LastPage(upto', no_cursor)
    <2>1. pages + 1 # MAX_EVENT_PAGES
        BY <1>10 DEF LastPage
    <2>2. pages' = pages + 1 /\ pages' \in 0..(MAX_EVENT_PAGES - 1) /\ pc' = "fetching"
        BY <1>1, <1>3, <1>10, <2>1
    <2>3. MAX_EVENT_PAGES - pages' = left - 1
        BY <1>3, <2>2
    <2>4. n - upto' <= (MAX_EVENT_PAGES - pages') * EVENT_PAGE_LIMIT
        BY <1>8, <2>3
    <2>5. QED
        BY <1>1, <1>2, <2>2, <2>4, ProcessKeepsCursor DEF LedgersKnown
<1>11. QED
    BY <1>9, <1>10

\* What is saved is past nothing that was not brought, and leaves no more to bring.
LEMMA SaveCursorKeepsCursor ==
    ASSUME IInv, CursorInv, SaveCursor
    PROVE  CursorInv'
<1>1. /\ UNCHANGED <<chain, booted>> /\ pc = "applying" /\ pc' = "idle"
      /\ lastLedger' = latestLedger /\ latestLedger' = 0 /\ pages' = 0
    BY DEF SaveCursor, ClearSync
<1>2. LedgersKnown /\ WalkBringsAll /\ WalkIsComplete
    BY DEF CursorInv
<1>3. events' = events /\ LatestLedger' = LatestLedger
    BY <1>1 DEF chain, LatestLedger
<1>4. latestLedger \in Nat \ {0} /\ lastLedger <= latestLedger
      /\ (lastLedger = NoLedger => booted <= latestLedger)
    BY <1>1, <1>2 DEF LedgersKnown, WalkIsComplete, NoLedger
<1>5. LedgersKnown'
    BY <1>1, <1>2, <1>3, <1>4 DEF LedgersKnown, NoLedger
<1>6. PagesCounted' /\ WalkIsComplete'
    BY <1>1, IndexerAssumption DEF PagesCounted, WalkIsComplete
<1>7. StartLedger \in Nat /\ StartLedger <= latestLedger /\ StartLedger' = latestLedger
    BY <1>1, <1>2, <1>3, <1>4, IndexerAssumption DEF LedgersKnown, StartLedger, NoLedger
<1>8. events \in Seq(LoggedEvent) /\ Len(events) \in Nat
    BY DEF IInv, ChainInv
<1>9. /\ CountBefore(events, StartLedger) \in Nat
      /\ CountBefore(events, latestLedger) \in Nat
      /\ CountBefore(events, StartLedger) <= CountBefore(events, latestLedger)
    BY <1>4, <1>7, <1>8, CountGrows
<1>10. WalkBringsAll'
    <2>1. Len(events) - CountBefore(events, StartLedger) <= MAX_EVENT_PAGES * EVENT_PAGE_LIMIT
        BY <1>2, BringsAll
    <2>2. MAX_EVENT_PAGES * EVENT_PAGE_LIMIT \in Nat
        BY IndexerAssumption
    <2>3. Len(events) - CountBefore(events, latestLedger) <= MAX_EVENT_PAGES * EVENT_PAGE_LIMIT
        BY <1>8, <1>9, <2>1, <2>2
    <2>4. QED
        BY <1>1, <1>3, <1>7, <2>3, BringsAll
<1>11. QED
    BY <1>5, <1>6, <1>10 DEF CursorInv

LEMMA CursorStep ==
    ASSUME ~MayOutpaceWalk, IInv, IInv', CursorInv, [Next]_vars
    PROVE  CursorInv'
<1>1. CASE Calls
    BY <1>1, CallsKeepCursor
<1>2. CASE Boot
    BY <1>2, BootKeepsCursor
<1>3. CASE BackfillRead \/ BackfillStores \/ BackfillSkips
    <2>1. UNCHANGED <<chain, lastLedger, pc, upto, pages, latestLedger, booted>>
        BY <1>3 DEF BackfillRead, BackfillStores, BackfillSkips, store
    <2>2. QED
        BY <2>1, QuietKeepsCursor
<1>4. CASE BackfillEnds \/ SyncFails \/ Crash
    <2>1. /\ UNCHANGED <<chain, lastLedger, booted>> /\ ClearSync
          /\ pc # "down" /\ pc' \in {"idle", "down"}
        BY <1>4 DEF BackfillEnds, SyncFails, Crash, store
    <2>2. QED
        BY <2>1, ClearKeepsCursor
<1>5. CASE StartSync
    BY <1>5, StartSyncKeepsCursor
<1>6. CASE \E no_cursor \in BOOLEAN : FetchPage(no_cursor)
    BY <1>6, FetchPageKeepsCursor
<1>7. CASE SaveCursor
    BY <1>7, SaveCursorKeepsCursor
<1>8. CASE ApplyEvent \/ EnrichSkips
    <2>1. UNCHANGED <<chain, lastLedger, pc, upto, pages, latestLedger, booted>>
        BY <1>8 DEF ApplyEvent, EnrichRead, EnrichStores, KnownAuction, ApplyBidPlaced,
                    ApplyEnding, EnrichSkips, Applied, store
    <2>2. QED
        BY <2>1, QuietKeepsCursor
<1>9. CASE UNCHANGED vars
    BY <1>9, QuietKeepsCursor DEF vars, chain
<1>10. QED
    BY <1>1, <1>2, <1>3, <1>4, <1>5, <1>6, <1>7, <1>8, <1>9 DEF Next, Ingestion, Faults

LEMMA CursorInit ==
    ASSUME Init
    PROVE  CursorInv
<1>1. events = <<>> /\ Len(events) = 0 /\ LatestLedger = 1
    BY DEF Init, ChainInit, LatestLedger
<1>2. LedgersKnown /\ PagesCounted /\ WalkIsComplete
    BY <1>1, IndexerAssumption DEF Init, LedgersKnown, PagesCounted, WalkIsComplete, NoLedger
<1>3. WalkBringsAll
    <2>1. MAX_EVENT_PAGES * EVENT_PAGE_LIMIT \in Nat
        BY IndexerAssumption
    <2>2. events \in Seq(LoggedEvent) /\ StartLedger \in Nat
        BY <1>1, IndexerAssumption DEF StartLedger, Init
    <2>3. CountBefore(events, StartLedger) \in Nat
        BY <2>2, CountGrows
    <2>4. QED
        BY <1>1, <2>1, <2>3, BringsAll DEF Init
<1>4. QED
    BY <1>2, <1>3 DEF CursorInv

\* As long as no more events await than a walk has pages for, however they fall
\* between the pages, the failed syncs and the crashes, the ledger that is saved
\* is past no event that was not brought (syncEvents, fetchContractEvents).
THEOREM CursorSkipsNothing ==
    ASSUME ~MayOutpaceWalk
    PROVE  Spec => ResumesFromLastSeen
<1>1. Init => IInv /\ CursorInv
    BY InitHolds, CursorInit
<1>2. IInv /\ [Next]_vars => IInv'
    BY StepHolds
<1>3. IInv /\ IInv' /\ CursorInv /\ [Next]_vars => CursorInv'
    BY CursorStep
<1>4. IInv /\ CursorInv /\ [Next]_vars => [SkipsNoEvent]_vars
    <2> SUFFICES ASSUME IInv, CursorInv, Next, lastLedger' # lastLedger
                 PROVE  \A i \in DOMAIN events : i > upto => events[i].ledger >= lastLedger'
        BY DEF SkipsNoEvent
    <2>1. SaveCursor
        BY DEF Next, Calls, Boot, Ingestion, Faults, BackfillRead, BackfillStores, BackfillSkips,
               BackfillEnds, StartSync, FetchPage, SyncFails, Crash, ApplyEvent, EnrichRead,
               EnrichStores, EnrichSkips, KnownAuction, ApplyBidPlaced, ApplyEnding, Applied, store
    <2>2. pc = "applying" /\ lastLedger' = latestLedger
        BY <2>1 DEF SaveCursor
    <2>3. DOMAIN events = 1..Len(events) /\ Len(events) \in Nat /\ upto \in Nat
        BY DEF IInv, ChainInv, FetchInv
    <2>4. QED
        BY <2>2, <2>3 DEF CursorInv, WalkIsComplete
<1>5. QED
    BY <1>1, <1>2, <1>3, <1>4, PTL DEF Spec, ResumesFromLastSeen

-----------------------------------------------------------------------------
(* What a row has shown is not taken back.                                 *)

BooksFit(from) == \A id \in 1..Len(from) : Len(from[id].bids) <= MAX_BID_SLOTS

\* An auction is settled at most once, so its settlements have one winner.
OneWinner(log) ==
    \A i, j \in 1..Len(log) :
        log[i].name = "auction_settled" /\ log[j].name = "auction_settled"
        /\ log[i].auction_id = log[j].auction_id
            => log[i].winner = log[j].winner

\* A row counts no more bids than are recorded.
Counted(row, recorded) ==
    /\ IsFiniteSet(recorded)
    /\ row # NoRow => row.filled_slots <= Cardinality(recorded)

\* The auction that was read has what its row has already shown: the row cannot
\* have moved since, for only the process writes it.
ReadIsFresh ==
    read # Nothing /\ rows[Target] # NoRow /\ rows[Target].status # "Open"
        => read.status = rows[Target].status

HistoryInv ==
    /\ BooksFit(auctions)
    /\ OneWinner(events)
    /\ rows \in [Ids -> Row \cup {NoRow}]
    /\ \A id \in Ids : Counted(rows[id], bids[id])
    /\ ReadIsFresh

RowKept(row, new, recorded, more) ==
    row # NoRow =>
        /\ new # NoRow
        /\ row.status # "Open" => new.status = row.status
        /\ row.winner # NoWinner => new.winner = row.winner
        /\ new.filled_slots >= row.filled_slots
        /\ recorded \subseteq more

LEMMA RowIsSomething == \A row \in Row : row # NoRow /\ row.filled_slots \in Nat
BY NullAssumption, ContractAssumption DEF Row, NoRow

LEMMA CallKeepsBooksFit ==
    ASSUME ChainInv, BooksFit(auctions), ContractCall
    PROVE  BooksFit(auctions')
<1>1. auctions \in Seq(Auction) /\ DOMAIN auctions = 1..Len(auctions) /\ MAX_BID_SLOTS \in Nat
    BY ContractAssumption DEF ChainInv
<1>2. CASE CreateAuction
    <2> DEFINE a == [status |-> "Open", bids |-> <<>>, lot_reclaimed |-> FALSE]
    <2>1. auctions' = Append(auctions, a)
        BY <1>2 DEF CreateAuction
    <2>2. a \in Auction /\ Len(a.bids) = 0
        BY DEF Auction, Statuses
    <2> HIDE DEF a
    <2>3. /\ Len(auctions') = Len(auctions) + 1 /\ auctions'[Len(auctions) + 1] = a
          /\ \A i \in 1..Len(auctions) : auctions'[i] = auctions[i]
        BY <1>1, <2>1, <2>2
    <2>4. QED
        BY <1>1, <2>2, <2>3 DEF BooksFit
<1>3. ASSUME NEW id \in DOMAIN auctions, NEW who \in Bidders, PlaceBid(id, who)
      PROVE  BooksFit(auctions')
    <2>1. auctions[id] \in Auction
        BY <1>1
    <2>2. auctions[id].bids \in Seq(Bidders) /\ Len(auctions[id].bids) < MAX_BID_SLOTS
        BY <1>3, <2>1 DEF PlaceBid, Auction
    <2>3. /\ Len(auctions') = Len(auctions)
          /\ auctions'[id].bids = Append(auctions[id].bids, who)
          /\ \A i \in 1..Len(auctions) : i # id => auctions'[i] = auctions[i]
        BY <1>1, <1>3, <2>1 DEF PlaceBid, Auction
    <2>4. Len(auctions'[id].bids) = Len(auctions[id].bids) + 1
        BY <2>2, <2>3
    <2>5. Len(auctions'[id].bids) <= MAX_BID_SLOTS
        BY <1>1, <2>2, <2>4
    <2>6. QED
        BY <2>3, <2>5 DEF BooksFit
<1>4. ASSUME NEW id \in DOMAIN auctions, NEW status, NEW lot,
             \/ auctions' = [auctions EXCEPT ![id].status = status]
             \/ auctions' = [auctions EXCEPT ![id].status = status, ![id].lot_reclaimed = lot]
             \/ auctions' = [auctions EXCEPT ![id].lot_reclaimed = lot]
      PROVE  BooksFit(auctions')
    <2>1. auctions[id] \in Auction
        BY <1>1
    <2>2. /\ Len(auctions') = Len(auctions)
          /\ auctions'[id].bids = auctions[id].bids
          /\ \A i \in 1..Len(auctions) : i # id => auctions'[i] = auctions[i]
        BY <1>1, <1>4, <2>1 DEF Auction
    <2>3. QED
        BY <2>2 DEF BooksFit
<1>5. QED
    BY <1>2, <1>3, <1>4 DEF ContractCall, Settle, RefundAll, ReclaimLot

LEMMA CallKeepsOneWinner ==
    ASSUME ChainInv, OneWinner(events), ContractCall
    PROVE  OneWinner(events')
<1>1. /\ events \in Seq(LoggedEvent) /\ events' \in Seq(LoggedEvent)
      /\ LogHolds(events, auctions) /\ LogGrows(events, events')
    BY CallKeeps DEF ChainInv, ChainGrows
<1>2. Len(events) \in Nat /\ Len(events') \in Nat
    BY <1>1
<1>3. ASSUME NEW i \in 1..Len(events'), i > Len(events), events'[i].name = "auction_settled",
             NEW j \in 1..Len(events'), events'[j].name = "auction_settled",
             events'[j].auction_id = events'[i].auction_id
      PROVE  i = j
    <2>1. i \in (Len(events) + 1)..Len(events')
        BY <1>2, <1>3
    <2>2. Len(events') = Len(events) + 1 /\ auctions[events'[i].auction_id].status = "Open"
        BY <1>3, <2>1, CallAdds
    <2>3. CASE j <= Len(events)
        <3>1. j \in 1..Len(events) /\ events'[j] = events[j]
            BY <1>1, <1>2, <2>3 DEF LogGrows
        <3>2. auctions[events[j].auction_id].status = "Settled"
            BY <1>1, <1>3, <3>1 DEF LogHolds, Holds
        <3>3. QED
            BY <1>3, <2>2, <3>1, <3>2
    <2>4. QED
        BY <1>2, <1>3, <2>2, <2>3
<1>4. SUFFICES ASSUME NEW i \in 1..Len(events'), NEW j \in 1..Len(events'),
                      events'[i].name = "auction_settled", events'[j].name = "auction_settled",
                      events'[i].auction_id = events'[j].auction_id
               PROVE  events'[i].winner = events'[j].winner
    BY DEF OneWinner
<1>5. CASE i > Len(events) \/ j > Len(events)
    <2>1. i = j
        BY <1>3, <1>4, <1>5
    <2>2. QED
        BY <2>1
<1>6. CASE i <= Len(events) /\ j <= Len(events)
    <2>1. i \in 1..Len(events) /\ j \in 1..Len(events)
        BY <1>2, <1>6
    <2>2. events'[i] = events[i] /\ events'[j] = events[j]
        BY <1>1, <2>1 DEF LogGrows
    <2>3. QED
        BY <1>4, <2>1, <2>2 DEF OneWinner
<1>7. QED
    BY <1>2, <1>5, <1>6

\* The recorded bids of an auction are finitely many, and fit.
LEMMA BookFits ==
    ASSUME NEW from \in Seq(Auction), BooksFit(from), NEW id,
           NEW recorded \in SUBSET BidShape, BookHolds(recorded, id, from)
    PROVE  IsFiniteSet(recorded) /\ Cardinality(recorded) \in 0..MAX_BID_SLOTS
<1>1. CASE recorded = {}
    BY <1>1, FS_EmptySet, ContractAssumption
<1>2. CASE recorded # {}
    <2>1. id \in 1..Len(from)
        BY <1>2 DEF BookHolds
    <2>2. /\ IsFiniteSet(recorded) /\ Cardinality(recorded) \in Nat
          /\ Cardinality(recorded) <= Len(from[id].bids)
        BY <2>1, BookIsSmall
    <2>3. from[id] \in Auction /\ Len(from[id].bids) <= MAX_BID_SLOTS
        BY <2>1 DEF BooksFit
    <2>4. Len(from[id].bids) \in Nat
        BY <2>3 DEF Auction
    <2>5. QED
        BY <2>2, <2>3, <2>4, ContractAssumption
<1>3. QED
    BY <1>1, <1>2

\* An upsert, a refreshed count and an event's update keep what the row showed.
LEMMA UpsertKeepsRow ==
    ASSUME NEW row \in Row \cup {NoRow}, NEW a \in Auction,
           row # NoRow /\ row.status # "Open" => a.status = row.status,
           NEW recorded, NEW more, recorded \subseteq more, IsFiniteSet(more),
           Counted(row, recorded)
    PROVE  /\ UpsertRow(row, a) \in Row
           /\ RowKept(row, UpsertRow(row, a), recorded, more)
           /\ Counted(UpsertRow(row, a), more)
<1>1. a.status \in Statuses /\ a.lot_reclaimed \in BOOLEAN
    BY DEF Auction
<1>2. /\ Cardinality(recorded) \in Nat /\ Cardinality(more) \in Nat
      /\ Cardinality(recorded) <= Cardinality(more)
    BY FS_Subset, FS_CardinalityType DEF Counted
<1>3. CASE row = NoRow
    <2> DEFINE fresh == [status |-> a.status, filled_slots |-> 0,
                         lot_reclaimed |-> a.lot_reclaimed, winner |-> NoWinner]
    <2>1. UpsertRow(row, a) = fresh
        BY <1>3 DEF UpsertRow
    <2>2. fresh \in Row /\ fresh.filled_slots = 0
        BY <1>1, ContractAssumption DEF Row
    <2>3. QED
        BY <1>2, <1>3, <2>1, <2>2 DEF RowKept, Counted
<1>4. CASE row # NoRow
    <2> DEFINE new == [row EXCEPT !.status = a.status, !.lot_reclaimed = a.lot_reclaimed]
    <2>1. UpsertRow(row, a) = new /\ row \in Row
        BY <1>4 DEF UpsertRow
    <2>2. /\ new \in Row /\ new.status = a.status
          /\ new.winner = row.winner /\ new.filled_slots = row.filled_slots
        BY <1>1, <2>1 DEF Row
    <2> HIDE DEF new
    <2>3. new # NoRow /\ row.filled_slots \in Nat
        BY <2>1, <2>2, RowIsSomething
    <2>4. row.filled_slots <= Cardinality(recorded)
        BY <1>4 DEF Counted
    <2>5. RowKept(row, new, recorded, more)
        BY <2>2, <2>3 DEF RowKept
    <2>6. Counted(new, more)
        BY <1>2, <2>2, <2>3, <2>4 DEF Counted
    <2>7. QED
        BY <2>1, <2>2, <2>5, <2>6
<1>5. QED
    BY <1>3, <1>4

LEMMA RefreshKeepsRow ==
    ASSUME NEW row \in Row \cup {NoRow}, NEW recorded, NEW more, recorded \subseteq more,
           IsFiniteSet(more), Cardinality(more) \in 0..MAX_BID_SLOTS, Counted(row, recorded)
    PROVE  /\ RefreshCount(row, more) \in Row \cup {NoRow}
           /\ RowKept(row, RefreshCount(row, more), recorded, more)
           /\ Counted(RefreshCount(row, more), more)
<1>1. /\ Cardinality(recorded) \in Nat /\ Cardinality(more) \in Nat
      /\ Cardinality(recorded) <= Cardinality(more)
    BY FS_Subset, FS_CardinalityType DEF Counted
<1>2. CASE row = NoRow
    BY <1>2 DEF RefreshCount, Updated, RowKept, Counted
<1>3. CASE row # NoRow
    <2> DEFINE new == [row EXCEPT !.filled_slots = Cardinality(more)]
    <2>1. RefreshCount(row, more) = new /\ row \in Row
        BY <1>3 DEF RefreshCount, Updated
    <2>2. /\ new \in Row /\ new.filled_slots = Cardinality(more)
          /\ new.winner = row.winner /\ new.status = row.status
        BY <2>1 DEF Row
    <2> HIDE DEF new
    <2>3. new # NoRow /\ row.filled_slots \in Nat
        BY <2>1, <2>2, RowIsSomething
    <2>4. row.filled_slots <= Cardinality(recorded)
        BY <1>3 DEF Counted
    <2>5. RowKept(row, new, recorded, more)
        BY <1>1, <2>2, <2>3, <2>4 DEF RowKept
    <2>6. Counted(new, more)
        BY <1>1, <2>2 DEF Counted
    <2>7. QED
        BY <2>1, <2>2, <2>5, <2>6
<1>4. QED
    BY <1>2, <1>3

LEMMA EndingKeepsRow ==
    ASSUME NEW from, NEW log, OneWinner(log), NEW i \in 1..Len(log),
           NEW e \in LoggedEvent, log[i] = e, e.name \in Endings, Holds(e, from),
           NEW row \in Row, RowHolds(row, e.auction_id, from, log),
           NEW recorded, Counted(row, recorded)
    PROVE  /\ RowAfter(row, e) \in Row
           /\ RowKept(row, RowAfter(row, e), recorded, recorded)
           /\ Counted(RowAfter(row, e), recorded)
<1> DEFINE new == RowAfter(row, e)
<1>1. row # NoRow /\ row.filled_slots \in Nat
    BY RowIsSomething
<1>2. ASSUME new \in Row, new.filled_slots = row.filled_slots,
             row.status # "Open" => new.status = row.status,
             row.winner # NoWinner => new.winner = row.winner
      PROVE  /\ new \in Row /\ RowKept(row, new, recorded, recorded) /\ Counted(new, recorded)
    <2> HIDE DEF new
    <2>1. new # NoRow
        BY <1>2, RowIsSomething
    <2>2. QED
        BY <1>1, <1>2, <2>1 DEF RowKept, Counted
<1>3. CASE e.name = "auction_settled"
    <2>1. e.winner \in Bidders
        BY <1>3 DEF LoggedEvent
    <2>2. new = [row EXCEPT !.status = "Settled", !.winner = e.winner]
        BY <1>3 DEF RowAfter
    <2>3. /\ new \in Row /\ new.filled_slots = row.filled_slots
          /\ new.status = "Settled" /\ new.winner = e.winner
        BY <2>1, <2>2 DEF Row, Statuses
    <2>4. row.status # "Open" => row.status = "Settled"
        BY <1>3 DEF RowHolds, Holds
    <2>5. row.winner # NoWinner => row.winner = e.winner
        BY <1>3 DEF RowHolds, WinnerLogged, OneWinner
    <2> HIDE DEF new
    <2>6. QED
        BY <1>2, <2>3, <2>4, <2>5 DEF new
<1>4. CASE e.name = "auction_refunded"
    <2>1. new = [row EXCEPT !.status = "Refunded"]
        BY <1>4 DEF RowAfter
    <2>2. /\ new \in Row /\ new.filled_slots = row.filled_slots
          /\ new.status = "Refunded" /\ new.winner = row.winner
        BY <2>1 DEF Row, Statuses
    <2>3. row.status # "Open" => row.status = "Refunded"
        BY <1>4 DEF RowHolds, Holds
    <2> HIDE DEF new
    <2>4. QED
        BY <1>2, <2>2, <2>3 DEF new
<1>5. CASE e.name \in {"lot_return_failed", "lot_reclaimed"}
    <2>1. new = [row EXCEPT !.lot_reclaimed = (e.name = "lot_reclaimed")]
        BY <1>5 DEF RowAfter
    <2>2. /\ new \in Row /\ new.filled_slots = row.filled_slots
          /\ new.status = row.status /\ new.winner = row.winner
        BY <2>1 DEF Row
    <2> HIDE DEF new
    <2>3. QED
        BY <1>2, <2>2 DEF new
<1>6. QED
    BY <1>3, <1>4, <1>5 DEF Endings

RowsKept == \A id \in Ids : RowKept(rows[id], rows'[id], bids[id], bids'[id])

LEMMA KeptTwice ==
    ASSUME NEW row \in Row \cup {NoRow}, NEW new \in Row \cup {NoRow},
           NEW newer \in Row \cup {NoRow}, NEW recorded, NEW more, NEW all,
           RowKept(row, new, recorded, more), RowKept(new, newer, more, all)
    PROVE  RowKept(row, newer, recorded, all)
<1> SUFFICES ASSUME row # NoRow
             PROVE  /\ newer # NoRow
                    /\ row.status # "Open" => newer.status = row.status
                    /\ row.winner # NoWinner => newer.winner = row.winner
                    /\ newer.filled_slots >= row.filled_slots
                    /\ recorded \subseteq all
    BY DEF RowKept
<1>1. new # NoRow /\ newer # NoRow
    BY DEF RowKept
<1>2. row.filled_slots \in Nat /\ new.filled_slots \in Nat /\ newer.filled_slots \in Nat
    BY <1>1, RowIsSomething
<1>3. newer.filled_slots >= row.filled_slots
    BY <1>1, <1>2 DEF RowKept
<1>4. /\ row.status # "Open" => newer.status = row.status
      /\ row.winner # NoWinner => newer.winner = row.winner
      /\ recorded \subseteq all
    BY <1>1 DEF RowKept
<1>5. QED
    BY <1>1, <1>3, <1>4

LEMMA KeptAtRest ==
    ASSUME NEW row \in Row \cup {NoRow}, NEW recorded
    PROVE  RowKept(row, row, recorded, recorded)
<1>1. row # NoRow => row.filled_slots \in Nat
    BY RowIsSomething
<1>2. QED
    BY <1>1 DEF RowKept

\* A step that writes nothing and holds no auction read.
LEMMA NothingWritten ==
    ASSUME HistoryInv, UNCHANGED <<chain, rows, bids>>, read' = Nothing
    PROVE  HistoryInv' /\ RowsKept
<1>1. UNCHANGED <<auctions, events, rows, bids>>
    BY DEF chain
<1>2. ReadIsFresh'
    BY DEF ReadIsFresh
<1>3. HistoryInv'
    BY <1>1, <1>2 DEF HistoryInv
<1>4. RowsKept
    BY <1>1, KeptAtRest DEF HistoryInv, RowsKept
<1>5. QED
    BY <1>3, <1>4

\* A step that writes the row and the bids of one auction.
LEMMA OneRowKept ==
    ASSUME StoreInv, HistoryInv, UNCHANGED chain, read' = Nothing,
           NEW id \in Ids, NEW row \in Row \cup {NoRow}, NEW recorded,
           rows' = [rows EXCEPT ![id] = row], bids' = [bids EXCEPT ![id] = recorded],
           RowKept(rows[id], row, bids[id], recorded), Counted(row, recorded)
    PROVE  HistoryInv' /\ RowsKept
<1>1. UNCHANGED <<auctions, events>>
    BY DEF chain
<1>2. /\ rows' \in [Ids -> Row \cup {NoRow}]
      /\ \A i \in Ids : rows'[i] = IF i = id THEN row ELSE rows[i]
    BY DEF HistoryInv
<1>3. \A i \in Ids : bids'[i] = IF i = id THEN recorded ELSE bids[i]
    BY DEF StoreInv
<1>4. ASSUME NEW i \in Ids
      PROVE  Counted(rows'[i], bids'[i]) /\ RowKept(rows[i], rows'[i], bids[i], bids'[i])
    <2>1. CASE i = id
        BY <1>2, <1>3, <2>1
    <2>2. CASE i # id
        <3>1. rows'[i] = rows[i] /\ bids'[i] = bids[i] /\ rows[i] \in Row \cup {NoRow}
            BY <1>2, <1>3, <2>2 DEF HistoryInv
        <3>2. QED
            BY <3>1, KeptAtRest DEF HistoryInv
    <2>3. QED
        BY <2>1, <2>2
<1>5. ReadIsFresh'
    BY DEF ReadIsFresh
<1>6. HistoryInv'
    BY <1>1, <1>2, <1>4, <1>5 DEF HistoryInv
<1>7. QED
    BY <1>4, <1>6 DEF RowsKept

LEMMA StoreReadKeepsRows ==
    ASSUME IInv, HistoryInv, UNCHANGED chain, read # Nothing, read' = Nothing,
           NEW n \in 0..Len(read.bids), StoreRead(Target, n)
    PROVE  HistoryInv' /\ RowsKept
<1> DEFINE id == Target
           old == rows[id]
           row == UpsertRow(old, read)
           more == BidsAfter(id, n)
           new == IF n = 0 THEN row ELSE RefreshCount(row, more)
<1>1. /\ read \in Auction /\ id \in 1..Len(auctions) /\ Later(read, auctions[id])
      /\ auctions \in Seq(Auction) /\ Len(auctions) <= MaxAuctions
    BY DEF IInv, ReadInv, ChainInv
<1>2. id \in Ids
    BY <1>1, ContractAssumption DEF Ids
<1>3. /\ rows' = [rows EXCEPT ![id] = new] /\ bids' = [bids EXCEPT ![id] = more]
      /\ bids[id] \subseteq more
    BY DEF StoreRead, BidsAfter
<1>4. StoreInv'
    BY <1>1, StoreReadKeeps DEF IInv
<1>5. old \in Row \cup {NoRow} /\ Counted(old, bids[id])
    BY <1>2 DEF HistoryInv
<1>6. old # NoRow /\ old.status # "Open" => read.status = old.status
    BY DEF HistoryInv, ReadIsFresh
<1> HIDE DEF id, old, row, more, new
<1>7. IsFiniteSet(more) /\ Cardinality(more) \in 0..MAX_BID_SLOTS
    <2>1. bids'[id] = more
        BY <1>2, <1>3 DEF IInv, StoreInv
    <2>2. more \in SUBSET BidShape /\ BookHolds(more, id, auctions)
        BY <1>2, <1>4, <2>1 DEF StoreInv, chain
    <2>3. QED
        BY <1>1, <2>2, BookFits DEF HistoryInv
<1>8. row \in Row /\ RowKept(old, row, bids[id], more) /\ Counted(row, more)
    BY <1>1, <1>3, <1>5, <1>6, <1>7, UpsertKeepsRow DEF row
<1>9. new \in Row \cup {NoRow} /\ RowKept(old, new, bids[id], more) /\ Counted(new, more)
    <2>1. CASE n = 0
        BY <1>8, <2>1 DEF new
    <2>2. CASE n # 0
        <3>1. new = RefreshCount(row, more)
            BY <2>2 DEF new
        <3>2. new \in Row \cup {NoRow} /\ RowKept(row, new, more, more) /\ Counted(new, more)
            BY <1>7, <1>8, <3>1, RefreshKeepsRow
        <3>3. QED
            BY <1>5, <1>8, <3>2, KeptTwice
    <2>3. QED
        BY <2>1, <2>2
<1>10. QED
    BY <1>2, <1>3, <1>9, OneRowKept DEF IInv, old

LEMMA BidPlacedKeepsRows ==
    ASSUME IInv, HistoryInv, ApplyBidPlaced
    PROVE  HistoryInv' /\ RowsKept
<1> DEFINE id == Event.auction_id
           more == InsertBid(bids[id], Event.slot_index, Event.bidder)
           new == RefreshCount(rows[id], more)
<1>1. Applying /\ UNCHANGED chain /\ read' = Nothing
    BY DEF ApplyBidPlaced, Applied
<1>2. id \in Ids
    BY <1>1, EventIsTrue DEF IInv
<1>3. /\ rows' = [rows EXCEPT ![id] = new] /\ bids' = [bids EXCEPT ![id] = more]
      /\ bids[id] \subseteq more
    BY DEF ApplyBidPlaced, recordBid, InsertBid
<1>4. StoreInv'
    BY BidPlacedKeeps DEF IInv
<1>5. rows[id] \in Row \cup {NoRow} /\ Counted(rows[id], bids[id])
    BY <1>2 DEF HistoryInv
<1> HIDE DEF id, more
<1>6. IsFiniteSet(more) /\ Cardinality(more) \in 0..MAX_BID_SLOTS
    <2>1. bids'[id] = more
        BY <1>2, <1>3 DEF IInv, StoreInv
    <2>2. more \in SUBSET BidShape /\ BookHolds(more, id, auctions)
        BY <1>1, <1>2, <1>4, <2>1 DEF StoreInv, chain
    <2>3. QED
        BY <2>2, BookFits DEF HistoryInv, IInv, ChainInv
<1>7. new \in Row \cup {NoRow} /\ RowKept(rows[id], new, bids[id], more) /\ Counted(new, more)
    BY <1>3, <1>5, <1>6, RefreshKeepsRow
<1> HIDE DEF new
<1>8. QED
    BY <1>1, <1>2, <1>3, <1>7, OneRowKept DEF IInv

LEMMA EndingKeepsRows ==
    ASSUME IInv, HistoryInv, ApplyEnding
    PROVE  HistoryInv' /\ RowsKept
<1> DEFINE id == Event.auction_id
           new == Updated(rows[id], RowAfter(rows[id], Event))
<1>1. Applying /\ Event.name \in Endings /\ UNCHANGED <<chain, bids>> /\ read' = Nothing
    BY DEF ApplyEnding, Applied
<1>2. /\ next \in 1..Len(events) /\ events[next] = Event
      /\ Event \in LoggedEvent /\ Holds(Event, auctions) /\ id \in Ids
    BY <1>1, EventIsTrue DEF Event, IInv
<1>3. rows' = [rows EXCEPT ![id] = new]
    BY DEF ApplyEnding
<1>4. bids' = [bids EXCEPT ![id] = bids[id]]
    BY <1>1, <1>2 DEF IInv, StoreInv
<1>5. rows[id] \in Row \cup {NoRow} /\ Counted(rows[id], bids[id]) /\ OneWinner(events)
    BY <1>2 DEF HistoryInv
<1>6. new \in Row \cup {NoRow} /\ RowKept(rows[id], new, bids[id], bids[id])
      /\ Counted(new, bids[id])
    <2>1. CASE rows[id] = NoRow
        BY <1>5, <2>1, KeptAtRest DEF Updated
    <2>2. CASE rows[id] # NoRow
        <3>1. rows[id] \in Row /\ RowHolds(rows[id], id, auctions, events)
            BY <1>2, <1>5, <2>2 DEF IInv, StoreInv, RowsHold
        <3>2. new = RowAfter(rows[id], Event)
            BY <2>2 DEF Updated
        <3>3. /\ RowAfter(rows[id], Event) \in Row
              /\ RowKept(rows[id], RowAfter(rows[id], Event), bids[id], bids[id])
              /\ Counted(RowAfter(rows[id], Event), bids[id])
            BY <1>1, <1>2, <1>5, <3>1, EndingKeepsRow
        <3>4. QED
            BY <3>2, <3>3
    <2>3. QED
        BY <2>1, <2>2
<1> HIDE DEF id, new
<1>7. QED
    BY <1>1, <1>2, <1>3, <1>4, <1>6, OneRowKept DEF IInv

\* What is read is the auction of today, and its row says nothing else.
LEMMA ReadKeepsRows ==
    ASSUME IInv, HistoryInv, UNCHANGED <<chain, rows, bids, pc, auctionId, next>>,
           Target \in 1..Len(auctions), read' = auctions[Target]
    PROVE  HistoryInv' /\ RowsKept
<1>1. UNCHANGED <<auctions, events, rows, bids, pc, auctionId, next>>
    BY DEF chain
<1>2. Target' = Target /\ Target \in Ids
    BY <1>1, ContractAssumption DEF Target, IInv, ChainInv, Ids
<1>3. rows[Target] # NoRow /\ rows[Target].status # "Open"
        => auctions[Target].status = rows[Target].status
    BY <1>2 DEF IInv, StoreInv, RowsHold, RowHolds
<1>4. ReadIsFresh'
    BY <1>1, <1>2, <1>3 DEF ReadIsFresh
<1>5. HistoryInv'
    BY <1>1, <1>4 DEF HistoryInv
<1>6. RowsKept
    BY <1>1, KeptAtRest DEF HistoryInv, RowsKept
<1>7. QED
    BY <1>5, <1>6

LEMMA CallsKeepRows ==
    ASSUME IInv, HistoryInv, Calls
    PROVE  HistoryInv' /\ RowsKept
<1>1. UNCHANGED <<rows, bids, pc, auctionId, read, next, upto>> /\ ContractCall
    BY DEF Calls, store, locals
<1>2. BooksFit(auctions)' /\ OneWinner(events)'
    BY <1>1, CallKeepsBooksFit, CallKeepsOneWinner DEF IInv, HistoryInv
<1>3. Len(events) \in Nat /\ Len(events') \in Nat /\ LogGrows(events, events')
    BY <1>1, CallKeeps DEF IInv, ChainInv, ChainGrows
<1>4. ReadIsFresh'
    <2>1. CASE read = Nothing
        BY <1>1, <2>1 DEF ReadIsFresh
    <2>2. CASE pc = "backfill"
        <3>1. Target' = Target
            BY <1>1, <2>2 DEF Target
        <3>2. QED
            BY <1>1, <3>1 DEF HistoryInv, ReadIsFresh
    <2>3. CASE pc = "applying" /\ next <= upto
        <3>1. next \in 1..Len(events)
            BY <1>3, <2>3 DEF IInv, FetchInv
        <3>2. events'[next] = events[next]
            BY <1>3, <3>1 DEF LogGrows
        <3>3. Target' = Target
            BY <1>1, <2>3, <3>2 DEF Target
        <3>4. QED
            BY <1>1, <3>3 DEF HistoryInv, ReadIsFresh
    <2>4. QED
        BY <2>1, <2>2, <2>3 DEF IInv, ReadInv
<1>5. HistoryInv'
    BY <1>1, <1>2, <1>4 DEF HistoryInv
<1>6. RowsKept
    BY <1>1, KeptAtRest DEF HistoryInv, RowsKept
<1>7. QED
    BY <1>5, <1>6

LEMMA CrashKeepsRows ==
    ASSUME IInv, HistoryInv, Crash
    PROVE  HistoryInv' /\ RowsKept
<1>1. UNCHANGED chain /\ read' = Nothing
    BY DEF Crash, ClearSync
<1>2. CASE UNCHANGED <<rows, bids>>
    BY <1>1, <1>2, NothingWritten
<1>3. CASE /\ read # Nothing
           /\ \E n \in 0..(Len(read.bids) - 1) :
                StoreRead(IF pc = "backfill" THEN auctionId ELSE Event.auction_id, n)
    <2>1. PICK n \in 0..(Len(read.bids) - 1) :
            StoreRead(IF pc = "backfill" THEN auctionId ELSE Event.auction_id, n)
        BY <1>3
    <2>2. StoreRead(Target, n)
        BY <2>1 DEF Target, Event
    <2>3. read \in Auction
        BY <1>3 DEF IInv, ReadInv
    <2>4. n \in 0..Len(read.bids)
        BY <2>3 DEF Auction
    <2>5. QED
        BY <1>1, <1>3, <2>2, <2>4, StoreReadKeepsRows
<1>4. QED
    BY <1>2, <1>3 DEF Crash

LEMMA WholeReadKeepsRows ==
    ASSUME IInv, HistoryInv, BackfillStores \/ EnrichStores
    PROVE  HistoryInv' /\ RowsKept
<1>1. /\ UNCHANGED chain /\ read # Nothing /\ read' = Nothing
      /\ StoreRead(Target, Len(read.bids))
    <2>1. CASE BackfillStores
        BY <2>1 DEF BackfillStores, Target
    <2>2. CASE EnrichStores
        BY <2>2 DEF EnrichStores, Applied, Applying, Event, Target
    <2>3. QED
        BY <2>1, <2>2
<1>2. read \in Auction
    BY <1>1 DEF IInv, ReadInv
<1>3. Len(read.bids) \in 0..Len(read.bids)
    BY <1>2 DEF Auction
<1>4. QED
    BY <1>1, <1>3, StoreReadKeepsRows

LEMMA StepKeepsRows ==
    ASSUME IInv, HistoryInv, [Next]_vars
    PROVE  HistoryInv' /\ RowsKept
<1>1. CASE Calls
    BY <1>1, CallsKeepRows
<1>2. CASE Boot \/ StartSync \/ \E no_cursor \in BOOLEAN : FetchPage(no_cursor)
    <2>1. UNCHANGED <<chain, rows, bids, read>> /\ pc \in {"down", "idle", "fetching"}
        BY <1>2 DEF Boot, StartSync, FetchPage, store, locals
    <2>2. read' = Nothing
        BY <2>1 DEF IInv, ReadInv
    <2>3. QED
        BY <2>1, <2>2, NothingWritten
<1>3. CASE BackfillSkips \/ BackfillEnds \/ SyncFails \/ SaveCursor \/ EnrichSkips \/ KnownAuction
    <2>1. UNCHANGED <<chain, rows, bids>> /\ read' = Nothing
        BY <1>3 DEF BackfillSkips, BackfillEnds, SyncFails, SaveCursor, EnrichSkips,
                    KnownAuction, Applied, ClearSync, store
    <2>2. QED
        BY <2>1, NothingWritten
<1>4. CASE BackfillRead
    <2>1. /\ UNCHANGED <<chain, rows, bids, pc, auctionId, next>>
          /\ pc = "backfill" /\ auctionId <= Len(auctions) /\ read' = auctions[auctionId]
        BY <1>4 DEF BackfillRead, Probing, store
    <2>2. Target = auctionId /\ Target \in 1..Len(auctions)
        BY <2>1 DEF Target, IInv, ChainInv, FetchInv
    <2>3. QED
        BY <2>1, <2>2, ReadKeepsRows
<1>5. CASE EnrichRead
    <2>1. /\ UNCHANGED <<chain, rows, bids, pc, auctionId, next>>
          /\ Applying /\ read' = auctions[Event.auction_id]
        BY <1>5 DEF EnrichRead, store
    <2>2. Target = Event.auction_id /\ Target \in 1..Len(auctions)
        BY <2>1, EventIsTrue DEF Target, Applying, Event, IInv
    <2>3. QED
        BY <2>1, <2>2, ReadKeepsRows
<1>6. CASE BackfillStores \/ EnrichStores
    BY <1>6, WholeReadKeepsRows
<1>7. CASE ApplyBidPlaced
    BY <1>7, BidPlacedKeepsRows
<1>8. CASE ApplyEnding
    BY <1>8, EndingKeepsRows
<1>9. CASE Crash
    BY <1>9, CrashKeepsRows
<1>10. CASE UNCHANGED vars
    <2>1. UNCHANGED <<auctions, events, rows, bids, pc, auctionId, read, next>>
        BY <1>10 DEF vars
    <2>2. Target' = Target
        BY <2>1 DEF Target
    <2>3. HistoryInv'
        BY <2>1, <2>2 DEF HistoryInv, ReadIsFresh
    <2>4. RowsKept
        BY <2>1, KeptAtRest DEF HistoryInv, RowsKept
    <2>5. QED
        BY <2>3, <2>4
<1>11. QED
    BY <1>1, <1>2, <1>3, <1>4, <1>5, <1>6, <1>7, <1>8, <1>9, <1>10
       DEF Next, Ingestion, Faults, ApplyEvent

LEMMA HistoryInit ==
    ASSUME Init
    PROVE  HistoryInv
<1>1. auctions = <<>> /\ events = <<>> /\ read = Nothing
    BY DEF Init, ChainInit
<1>2. BooksFit(auctions) /\ OneWinner(events) /\ ReadIsFresh
    BY <1>1 DEF BooksFit, OneWinner, ReadIsFresh
<1>3. /\ rows \in [Ids -> Row \cup {NoRow}]
      /\ \A id \in Ids : rows[id] = NoRow /\ bids[id] = {}
    BY DEF Init
<1>4. QED
    BY <1>2, <1>3, FS_EmptySet DEF HistoryInv, Counted

\* No restart, backfill or replay takes back what a list has shown: a row stays, an
\* ended auction stays ended, a winner and a recorded bid stay, and the count of
\* the bids never falls, whatever is read late and stored later (upsertCore,
\* recordBid, markSettled, markRefunded; ingest.ts, "reprocessing it is
\* idempotent").
THEOREM RowsStay ==
    Spec => RowsNeverRegress
<1>1. Init => IInv /\ HistoryInv
    BY InitHolds, HistoryInit
<1>2. IInv /\ HistoryInv /\ [Next]_vars => (IInv /\ HistoryInv)'
    BY StepHolds, StepKeepsRows
<1>3. IInv /\ HistoryInv /\ [Next]_vars => KeepsRows
    <2> SUFFICES ASSUME IInv, HistoryInv, [Next]_vars
                 PROVE  KeepsRows
        OBVIOUS
    <2>1. RowsKept
        BY StepKeepsRows
    <2>2. QED
        BY <2>1 DEF RowsKept, RowKept, KeepsRows, hasAuction
<1>4. QED
    BY <1>1, <1>2, <1>3, PTL DEF Spec, RowsNeverRegress

-----------------------------------------------------------------------------
(* Type correctness.                                                        *)

PcTypes == {"down", "backfill", "idle", "fetching", "applying"}
FaultCounts == [{"skip", "refusal", "crash"} -> Nat]

\* Backfill reads no id past its bound, and a walk fetches no page past its own.
LoopsBounded ==
    /\ pc \in PcTypes
    /\ lastLedger \in Nat /\ latestLedger \in Nat /\ booted \in Nat
    /\ auctionId \in 1..(BACKFILL_MAX_ID + 1)
    /\ pc = "backfill" /\ read # Nothing => auctionId <= BACKFILL_MAX_ID
    /\ next <= Len(events) + 1
    /\ pages \in 0..(MAX_EVENT_PAGES - 1)
    /\ faults \in FaultCounts

LEMMA FaultsCounted ==
    ASSUME faults \in FaultCounts, NEW kind \in {"skip", "refusal", "crash"}, NEW bound,
           Fault(kind, bound)
    PROVE  faults' \in FaultCounts
BY DEF Fault, FaultCounts

LEMMA LatestIsNat ==
    ASSUME ChainInv
    PROVE  LatestLedger \in Nat
<1>1. CASE events = <<>>
    BY <1>1 DEF LatestLedger
<1>2. CASE events # <<>>
    <2>1. events[Len(events)] \in LoggedEvent
        BY <1>2 DEF ChainInv
    <2>2. QED
        BY <1>2, <2>1 DEF LatestLedger, LoggedEvent
<1>3. QED
    BY <1>1, <1>2

LEMMA LoopsStep ==
    ASSUME IInv, IInv', LoopsBounded, [Next]_vars
    PROVE  LoopsBounded'
<1>1. /\ LatestLedger \in Nat /\ Len(events) \in Nat /\ Len(events') \in Nat
      /\ next \in Nat \ {0} /\ upto \in Nat /\ upto <= Len(events)
      /\ BACKFILL_MAX_ID \in Nat \ {0} /\ MAX_EVENT_PAGES \in Nat \ {0}
    BY LatestIsNat, IndexerAssumption DEF IInv, ChainInv, FetchInv
<1>2. /\ 1 \in 1..(BACKFILL_MAX_ID + 1) /\ 0 \in 0..(MAX_EVENT_PAGES - 1)
      /\ 1 <= Len(events) + 1
    BY <1>1
<1>3. CASE Calls
    <2>1. /\ UNCHANGED <<pc, lastLedger, latestLedger, booted, auctionId, read, next>>
          /\ UNCHANGED <<pages, faults>>
          /\ ContractCall
        BY <1>3 DEF Calls, store, locals
    <2>2. Len(events) <= Len(events')
        BY <2>1, CallKeeps DEF IInv, ChainGrows, LogGrows
    <2>3. next <= Len(events') + 1
        BY <1>1, <2>2 DEF LoopsBounded
    <2>4. QED
        BY <2>1, <2>3 DEF LoopsBounded
<1>4. CASE Boot
    <2>1. /\ UNCHANGED <<chain, lastLedger, latestLedger, auctionId, read, next, pages, faults>>
          /\ pc = "down" /\ pc' = "backfill"
          /\ booted' = IF lastLedger = NoLedger THEN LatestLedger ELSE booted
        BY <1>4 DEF Boot, store, locals
    <2>2. read = Nothing
        BY <2>1 DEF IInv, ReadInv
    <2>3. QED
        BY <1>1, <2>1, <2>2 DEF LoopsBounded, PcTypes, chain
<1>5. CASE BackfillRead
    <2>1. /\ UNCHANGED <<chain, pc, lastLedger, latestLedger, booted, auctionId, next>>
          /\ UNCHANGED <<pages, faults>>
          /\ auctionId <= BACKFILL_MAX_ID
        BY <1>5 DEF BackfillRead, Probing, store
    <2>2. QED
        BY <2>1 DEF LoopsBounded, chain
<1>6. CASE BackfillSkips \/ BackfillStores
    <2>1. /\ UNCHANGED <<chain, pc, lastLedger, latestLedger, booted, next, pages>>
          /\ auctionId' = auctionId + 1 /\ auctionId <= BACKFILL_MAX_ID /\ read' = Nothing
        BY <1>6 DEF BackfillSkips, BackfillStores, store, LoopsBounded
    <2>2. faults' \in FaultCounts
        BY <1>6, FaultsCounted DEF BackfillSkips, BackfillStores, LoopsBounded
    <2>3. auctionId' \in 1..(BACKFILL_MAX_ID + 1)
        BY <1>1, <2>1 DEF LoopsBounded
    <2>4. QED
        BY <2>1, <2>2, <2>3 DEF LoopsBounded, chain
<1>7. CASE BackfillEnds \/ SyncFails \/ SaveCursor \/ Crash
    <2>1. /\ UNCHANGED <<chain, booted>> /\ pc' \in PcTypes
          /\ auctionId' = 1 /\ read' = Nothing /\ next' = 1 /\ pages' = 0 /\ latestLedger' = 0
        BY <1>7 DEF BackfillEnds, SyncFails, SaveCursor, Crash, ClearSync, PcTypes
    <2>2. lastLedger' \in Nat
        BY <1>7 DEF BackfillEnds, SyncFails, SaveCursor, Crash, store, LoopsBounded
    <2>3. faults' \in FaultCounts
        BY <1>7, FaultsCounted DEF BackfillEnds, SyncFails, SaveCursor, Crash, LoopsBounded
    <2>4. QED
        BY <1>1, <1>2, <2>1, <2>2, <2>3 DEF LoopsBounded, chain
<1>8. CASE StartSync
    <2>1. /\ UNCHANGED <<chain, lastLedger, booted, auctionId, pages, faults>> /\ pc' = "fetching"
          /\ next' = upto' + 1 /\ latestLedger' = StartLedger
        BY <1>8 DEF StartSync, store
    <2>2. StartLedger \in Nat
        BY <1>1, IndexerAssumption DEF StartLedger, LoopsBounded
    <2>3. next' <= Len(events') + 1
        BY <1>1, <2>1 DEF IInv, FetchInv
    <2>4. QED
        BY <2>1, <2>2, <2>3 DEF LoopsBounded, PcTypes
<1>9. CASE \E no_cursor \in BOOLEAN : FetchPage(no_cursor)
    <2>1. PICK no_cursor \in BOOLEAN : FetchPage(no_cursor)
        BY <1>9
    <2>2. /\ UNCHANGED <<chain, lastLedger, booted, auctionId, next, faults>>
          /\ latestLedger' = LatestLedger /\ pc = "fetching" /\ pc' \in {"fetching", "applying"}
        BY <2>1 DEF FetchPage, store
    <2>3. pages' = 0 \/ (pages' = pages + 1 /\ pages + 1 # MAX_EVENT_PAGES)
        BY <2>1 DEF FetchPage, LastPage
    <2>4. pages' \in 0..(MAX_EVENT_PAGES - 1)
        BY <1>1, <1>2, <2>3 DEF LoopsBounded
    <2>5. QED
        BY <1>1, <2>2, <2>4 DEF LoopsBounded, PcTypes, chain
<1>10. CASE ApplyEvent \/ EnrichSkips
    <2>1. /\ UNCHANGED <<chain, pc, lastLedger, latestLedger, booted, auctionId, pages>>
          /\ pc = "applying"
          /\ next' = next \/ (next <= upto /\ next' = next + 1)
        BY <1>10 DEF ApplyEvent, EnrichRead, EnrichStores, KnownAuction, ApplyBidPlaced,
                     ApplyEnding, EnrichSkips, Applied, Applying, store
    <2>2. faults' \in FaultCounts
        BY <1>10, FaultsCounted DEF ApplyEvent, EnrichRead, EnrichStores, KnownAuction,
           ApplyBidPlaced, ApplyEnding, EnrichSkips, LoopsBounded
    <2>3. next' <= Len(events) + 1
        BY <1>1, <2>1 DEF LoopsBounded
    <2>4. QED
        BY <2>1, <2>2, <2>3 DEF LoopsBounded, chain
<1>11. CASE UNCHANGED vars
    BY <1>11 DEF vars, LoopsBounded
<1>12. QED
    BY <1>3, <1>4, <1>5, <1>6, <1>7, <1>8, <1>9, <1>10, <1>11 DEF Next, Ingestion, Faults

LEMMA LoopsInit ==
    ASSUME Init
    PROVE  LoopsBounded
<1>1. faults \in FaultCounts
    BY DEF Init, NoFaults, FaultCounts
<1>2. Len(events) = 0
    BY DEF Init, ChainInit
<1>3. QED
    BY <1>1, <1>2, IndexerAssumption DEF Init, LoopsBounded, PcTypes, NoLedger

LEMMA InvariantTypesState ==
    ASSUME IInv, HistoryInv, LoopsBounded
    PROVE  TypeOK
<1>1. auctions \in Seq(Auction) /\ Len(auctions) <= MaxAuctions /\ Len(events) \in Nat
    BY DEF IInv, ChainInv
<1>2. bids \in [Ids -> SUBSET RecordedBid]
    <2> SUFFICES ASSUME NEW id \in Ids, NEW b \in bids[id]
                 PROVE  b \in RecordedBid
        BY DEF IInv, StoreInv
    <2>1. /\ b \in BidShape /\ id \in 1..Len(auctions)
          /\ b.slot_index \in 0..(Len(auctions[id].bids) - 1)
        BY DEF IInv, StoreInv, BookHolds
    <2>2. auctions[id] \in Auction /\ Len(auctions[id].bids) <= MAX_BID_SLOTS
        BY <1>1, <2>1 DEF HistoryInv, BooksFit
    <2>3. Len(auctions[id].bids) \in Nat
        BY <2>2 DEF Auction
    <2>4. b.slot_index \in 0..(MAX_BID_SLOTS - 1)
        BY <2>1, <2>2, <2>3, ContractAssumption
    <2>5. QED
        BY <2>1, <2>4 DEF BidShape, RecordedBid
<1>3. read \in Auction \cup {Nothing}
    BY DEF IInv, ReadInv
<1>4. next \in 1..(Len(events) + 1) /\ upto \in 0..Len(events)
    BY <1>1 DEF IInv, FetchInv, LoopsBounded
<1>5. QED
    BY <1>1, <1>2, <1>3, <1>4 DEF HistoryInv, LoopsBounded, PcTypes, FaultCounts, TypeOK

\* In every state the tables and the process hold what they may: no more bids are
\* recorded or counted than an auction takes, backfill stops at its bound, a walk
\* at its page bound, and the events to apply are among those of the chain.
THEOREM IndexTypeCorrect ==
    Spec => []TypeOK
<1>1. Init => IInv /\ HistoryInv /\ LoopsBounded
    BY InitHolds, HistoryInit, LoopsInit
<1>2. IInv /\ [Next]_vars => IInv'
    BY StepHolds
<1>3. IInv /\ HistoryInv /\ [Next]_vars => HistoryInv'
    BY StepKeepsRows
<1>4. IInv /\ IInv' /\ LoopsBounded /\ [Next]_vars => LoopsBounded'
    BY LoopsStep
<1>5. IInv /\ HistoryInv /\ LoopsBounded => TypeOK
    BY InvariantTypesState
<1>6. QED
    BY <1>1, <1>2, <1>3, <1>4, <1>5, PTL DEF Spec
=============================================================================
