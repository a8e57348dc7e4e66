------------------------------ MODULE Indexer -------------------------------
(***************************************************************************)
(* The indexer (indexer/src): a single Node process that copies the        *)
(* contract's auctions into SQLite and serves lists from the copy.  A boot *)
(* first probes get_auction id by id (backfill), then syncs the events     *)
(* from a saved ledger onwards, again and again.  Every await is a point   *)
(* where the chain moves on: the reads of getAuction and getTokenSymbol,   *)
(* and every page of getEvents.  Code between two awaits is one step, but  *)
(* a crash may fall between any two of its SQLite transactions.            *)
(*                                                                         *)
(* winner stands for the columns clearing_price, winner and settle_tx,     *)
(* which are written together.                                             *)
(***************************************************************************)
EXTENDS ContractEvents, FiniteSets

CONSTANTS
    Null,
    BACKFILL_MAX_ID,
    MAX_EVENT_PAGES,
    EVENT_PAGE_LIMIT,
    EVENT_LOOKBACK_LEDGERS,
    MayOutpaceWalk,         \* whether more events may await than a walk can bring
    MaxSkips,               \* bound: reads of an auction that fail
    MaxRefusals,            \* bound: syncs that fail
    MaxCrashes              \* bound: crashes

ASSUME IndexerAssumption ==
    /\ BACKFILL_MAX_ID \in Nat \ {0}
    /\ MAX_EVENT_PAGES \in Nat \ {0} /\ EVENT_PAGE_LIMIT \in Nat \ {0}
    /\ EVENT_LOOKBACK_LEDGERS \in Nat /\ MayOutpaceWalk \in BOOLEAN
    /\ MaxSkips \in Nat /\ MaxRefusals \in Nat /\ MaxCrashes \in Nat

VARIABLES
    \* SQLite
    rows,           \* table auctions
    bids,           \* table bids: the recorded bids of each auction
    lastLedger,     \* table ingest_cursor
    \* the process
    pc,             \* "down", "backfill", "idle", "fetching" or "applying"
    auctionId,      \* backfill's loop variable
    read,           \* the auction read from chain and not yet stored
    next, upto,     \* the events fetched and not yet applied: events[next..upto]
    pages,          \* pages fetched by this sync
    latestLedger,   \* the latest ledger of the last response
    \* the environment
    booted,         \* the ledger of the boot that saved the first cursor
    faults          \* failures so far, by kind

store == <<rows, bids, lastLedger>>
locals == <<auctionId, read, next, upto, pages, latestLedger>>
vars == <<auctions, events, rows, bids, lastLedger, pc, auctionId, read, next,
          upto, pages, latestLedger, booted, faults>>

NoRow == Null
NoWinner == Null
Nothing == Null
NoLedger == 0           \* ledgers are numbered from 1

Row == [status : Statuses, filled_slots : 0..MAX_BID_SLOTS,
        lot_reclaimed : BOOLEAN, winner : Bidders \cup {NoWinner}]

ASSUME NullAssumption == Null \notin Bidders \cup Auction \cup Row

RecordedBid == [slot_index : 0..(MAX_BID_SLOTS - 1), bidder : Bidders]

hasAuction(id) == rows[id] # NoRow

-----------------------------------------------------------------------------
(* The store.                                                              *)

\* INSERT .. ON CONFLICT (id) DO UPDATE: a new row starts with no bids counted
\* and no winner; an existing one keeps both.
UpsertRowFaulty(row, core) ==
    [status |-> core.status, filled_slots |-> 0,
     lot_reclaimed |-> core.lot_reclaimed, winner |-> NoWinner]
UpsertRow(row, core) ==
    IF row = NoRow
    THEN [status |-> core.status, filled_slots |-> 0,
          lot_reclaimed |-> core.lot_reclaimed, winner |-> NoWinner]
    ELSE [row EXCEPT !.status = core.status, !.lot_reclaimed = core.lot_reclaimed]

\* INSERT OR IGNORE by (auction_id, slot_index).
InsertBid(recorded, slot, who) ==
    IF \E b \in recorded : b.slot_index = slot THEN recorded
    ELSE recorded \cup {[slot_index |-> slot, bidder |-> who]}

\* UPDATE auctions .. WHERE id = auction_id: no row, no effect.
Updated(row, new_row) == IF row = NoRow THEN NoRow ELSE new_row

\* filled_slots = (SELECT COUNT( * ) ..).
RefreshCountFaulty(row, recorded) ==
    Updated(row, [row EXCEPT !.filled_slots = @ + 1])
RefreshCount(row, recorded) ==
    Updated(row, [row EXCEPT !.filled_slots = Cardinality(recorded)])

recordBid(id, slot, who) ==
    /\ bids' = [bids EXCEPT ![id] = InsertBid(bids[id], slot, who)]
    /\ rows' = [rows EXCEPT ![id] = RefreshCount(rows[id], InsertBid(bids[id], slot, who))]

\* enrichAndUpsert's loop after the first n bids of the auction it read.
BidsAfter(id, n) ==
    bids[id] \cup
        {b \in [slot_index : 0..(n - 1), bidder : Bidders] :
            /\ b.bidder = read.bids[b.slot_index + 1]
            /\ \A r \in bids[id] : r.slot_index # b.slot_index}

StoreRead(id, n) ==
    LET row == UpsertRow(rows[id], read) IN
    /\ bids' = [bids EXCEPT ![id] = BidsAfter(id, n)]
    /\ rows' = [rows EXCEPT ![id] = IF n = 0 THEN row ELSE RefreshCount(row, BidsAfter(id, n))]

-----------------------------------------------------------------------------
(* Init and the steps of a sync.                                           *)

\* Nothing fetched, nothing read.
ClearSync ==
    /\ next' = 1 /\ upto' = 0 /\ pages' = 0 /\ latestLedger' = 0
    /\ auctionId' = 1 /\ read' = Nothing

NoFaults == [skip |-> 0, refusal |-> 0, crash |-> 0]

Init ==
    /\ ChainInit
    /\ rows = [id \in Ids |-> NoRow]
    /\ bids = [id \in Ids |-> {}]
    /\ lastLedger = NoLedger
    /\ pc = "down"
    /\ auctionId = 1 /\ read = Nothing
    /\ next = 1 /\ upto = 0 /\ pages = 0 /\ latestLedger = 0
    /\ booted = 1
    /\ faults = NoFaults

\* The environment's part in a fault of one kind.
Fault(kind, bound) ==
    /\ faults[kind] < bound
    /\ faults' = [faults EXCEPT ![kind] = @ + 1]

\* Where a sync starts: at the saved ledger, or the lookback before the latest.
StartLedgerFaulty == IF lastLedger = NoLedger THEN LatestLedger ELSE lastLedger
StartLedger ==
    IF lastLedger # NoLedger THEN lastLedger
    ELSE IF LatestLedger > EVENT_LOOKBACK_LEDGERS
         THEN LatestLedger - EVENT_LOOKBACK_LEDGERS ELSE 1

EventsBefore(ledger) == Cardinality({i \in DOMAIN events : events[i].ledger < ledger})

\* No more events await, from the start of the walk or of the page on, than the
\* walk has pages for.
WalkBringsAll ==
    /\ Len(events) - EventsBefore(StartLedger) <= MAX_EVENT_PAGES * EVENT_PAGE_LIMIT
    /\ pc = "fetching" => Len(events) - upto <= (MAX_EVENT_PAGES - pages) * EVENT_PAGE_LIMIT

\* The chain moves on.  A first backfill and the sync after it take less than
\* the lookback (100000 ledgers, six days); a walk brings up to 12000 events.
Calls ==
    /\ lastLedger = NoLedger /\ pc # "down"
        => LatestLedger - booted < EVENT_LOOKBACK_LEDGERS
    /\ ContractCall
    /\ UNCHANGED <<store, locals, pc, booted, faults>>
    /\ MayOutpaceWalk \/ WalkBringsAll'

Boot ==
    /\ pc = "down"
    /\ pc' = "backfill"
    /\ booted' = IF lastLedger = NoLedger THEN LatestLedger ELSE booted
    /\ UNCHANGED <<chain, store, locals, faults>>

-----------------------------------------------------------------------------
(* backfill: get_auction from id 1 until not found.                        *)

Probing == pc = "backfill" /\ read = Nothing /\ auctionId <= BACKFILL_MAX_ID

BackfillRead ==
    /\ Probing
    /\ auctionId <= Len(auctions)
    /\ read' = auctions[auctionId]
    /\ UNCHANGED <<chain, store, pc, auctionId, next, upto, pages, latestLedger, booted, faults>>

\* A failed read of the auction, or of a token's symbol after it.
BackfillSkips ==
    /\ pc = "backfill"
    /\ auctionId <= BACKFILL_MAX_ID
    /\ Fault("skip", MaxSkips)
    /\ auctionId' = auctionId + 1
    /\ read' = Nothing
    /\ UNCHANGED <<chain, store, pc, next, upto, pages, latestLedger, booted>>

BackfillStores ==
    /\ pc = "backfill"
    /\ read # Nothing
    /\ StoreRead(auctionId, Len(read.bids))
    /\ auctionId' = auctionId + 1
    /\ read' = Nothing
    /\ UNCHANGED <<chain, lastLedger, pc, next, upto, pages, latestLedger, booted, faults>>

BackfillEnds ==
    /\ pc = "backfill" /\ read = Nothing
    /\ auctionId > BACKFILL_MAX_ID \/ auctionId > Len(auctions)
    /\ pc' = "idle"
    /\ ClearSync
    /\ UNCHANGED <<chain, store, booted, faults>>

-----------------------------------------------------------------------------
(* syncEvents.  The first call follows the backfill, a timer makes the      *)
(* others; isSyncing keeps two of them from overlapping.                    *)

StartSync ==
    /\ pc = "idle"
    /\ pc' = "fetching"
    /\ upto' = EventsBefore(StartLedger)
    /\ next' = upto' + 1
    /\ latestLedger' = StartLedger
    /\ UNCHANGED <<chain, store, auctionId, read, pages, booted, faults>>

\* getLatestLedger or a page fails: the next tick starts over.
SyncFails ==
    /\ pc \in {"idle", "fetching"}
    /\ Fault("refusal", MaxRefusals)
    /\ pc' = "idle"
    /\ ClearSync
    /\ UNCHANGED <<chain, store, booted>>

\* The last event of a page that starts after event number i.
PageEnd(i) ==
    IF i + EVENT_PAGE_LIMIT < Len(events) THEN i + EVENT_PAGE_LIMIT ELSE Len(events)

\* The walk ends when a response has no cursor, which only one that reaches the
\* tip may lack, or at the page bound.
LastPageFaulty(end, no_cursor) == TRUE
LastPage(end, no_cursor) ==
    \/ no_cursor /\ end = Len(events)
    \/ pages + 1 = MAX_EVENT_PAGES

FetchPage(no_cursor) ==
    /\ pc = "fetching"
    /\ upto' = PageEnd(upto)
    /\ latestLedger' = LatestLedger
    /\ IF LastPage(upto', no_cursor)
       THEN pc' = "applying" /\ pages' = 0
       ELSE pc' = pc /\ pages' = pages + 1
    /\ UNCHANGED <<chain, store, auctionId, read, next, booted, faults>>

\* Resume from here next tick.
SaveCursor ==
    /\ pc = "applying"
    /\ next > upto
    /\ lastLedger' = latestLedger
    /\ pc' = "idle"
    /\ ClearSync
    /\ UNCHANGED <<chain, rows, bids, booted, faults>>

-----------------------------------------------------------------------------
(* applyEvent.                                                             *)

Applying == pc = "applying" /\ next <= upto
Event == events[next]

\* An auction_created event of an auction that has no row reads the chain first.
NeedsRead == Event.name = "auction_created" /\ ~hasAuction(Event.auction_id)

Applied ==
    /\ next' = next + 1
    /\ read' = Nothing
    /\ UNCHANGED <<chain, lastLedger, pc, auctionId, upto, pages, latestLedger, booted>>

EnrichRead ==
    /\ Applying /\ NeedsRead /\ read = Nothing
    /\ read' = auctions[Event.auction_id]
    /\ UNCHANGED <<chain, store, pc, auctionId, next, upto, pages, latestLedger, booted, faults>>

EnrichSkips ==
    /\ Applying /\ NeedsRead
    /\ Fault("skip", MaxSkips)
    /\ Applied
    /\ UNCHANGED <<rows, bids>>

EnrichStores ==
    /\ Applying /\ read # Nothing
    /\ StoreRead(Event.auction_id, Len(read.bids))
    /\ Applied
    /\ UNCHANGED faults

KnownAuction ==
    /\ Applying
    /\ Event.name = "auction_created" /\ hasAuction(Event.auction_id)
    /\ Applied
    /\ UNCHANGED <<rows, bids, faults>>

ApplyBidPlaced ==
    /\ Applying
    /\ Event.name = "bid_placed"
    /\ recordBid(Event.auction_id, Event.slot_index, Event.bidder)
    /\ Applied
    /\ UNCHANGED faults

\* The row an event about the auction's end leaves.
RowAfterFaulty(row, event) ==
    CASE event.name = "auction_settled" ->
            [row EXCEPT !.status = "Settled", !.winner = event.winner]
      [] event.name = "auction_refunded" ->
            [row EXCEPT !.status = "Refunded", !.lot_reclaimed = TRUE]
      [] event.name = "lot_return_failed" -> [row EXCEPT !.lot_reclaimed = FALSE]
      [] event.name = "lot_reclaimed" -> [row EXCEPT !.lot_reclaimed = TRUE]
RowAfter(row, event) ==
    CASE event.name = "auction_settled" ->
            [row EXCEPT !.status = "Settled", !.winner = event.winner]
      [] event.name = "auction_refunded" -> [row EXCEPT !.status = "Refunded"]
      [] event.name = "lot_return_failed" -> [row EXCEPT !.lot_reclaimed = FALSE]
      [] event.name = "lot_reclaimed" -> [row EXCEPT !.lot_reclaimed = TRUE]

Endings == {"auction_settled", "auction_refunded", "lot_return_failed", "lot_reclaimed"}

ApplyEnding ==
    LET id == Event.auction_id IN
    /\ Applying
    /\ Event.name \in Endings
    /\ rows' = [rows EXCEPT ![id] = Updated(rows[id], RowAfter(rows[id], Event))]
    /\ Applied
    /\ UNCHANGED <<bids, faults>>

-----------------------------------------------------------------------------
(* Crashes lose the locals.  One during a store leaves the row upserted and *)
(* the first n bids recorded: each is a transaction of its own.             *)

Crash ==
    /\ pc # "down"
    /\ Fault("crash", MaxCrashes)
    /\ pc' = "down"
    /\ ClearSync
    /\ UNCHANGED <<chain, lastLedger, booted>>
    /\ \/ UNCHANGED <<rows, bids>>
       \/ /\ read # Nothing
          /\ \E n \in 0..(Len(read.bids) - 1) :
                StoreRead(IF pc = "backfill" THEN auctionId ELSE Event.auction_id, n)

ApplyEvent ==
    \/ EnrichRead \/ EnrichStores
    \/ KnownAuction \/ ApplyBidPlaced \/ ApplyEnding

Ingestion ==
    \/ BackfillRead \/ BackfillStores \/ BackfillEnds
    \/ StartSync \/ SaveCursor \/ ApplyEvent
    \/ \E no_cursor \in BOOLEAN : FetchPage(no_cursor)

Faults == BackfillSkips \/ EnrichSkips \/ SyncFails \/ Crash

Next == Calls \/ Boot \/ Ingestion \/ Faults

Spec == Init /\ [][Next]_vars

\* The service runs and the timer fires: the process makes its next step, and is
\* started again after a crash.  Failures are bounded, so they end.
Service == WF_vars(Boot) /\ WF_vars(Ingestion)

RunningSpec == Spec /\ Service
-----------------------------------------------------------------------------
(* Correctness.                                                            *)

TypeOK ==
    /\ auctions \in Seq(Auction) /\ Len(auctions) <= MaxAuctions
    /\ rows \in [Ids -> Row \cup {NoRow}]
    /\ bids \in [Ids -> SUBSET RecordedBid]
    /\ lastLedger \in Nat
    /\ pc \in {"down", "backfill", "idle", "fetching", "applying"}
    /\ auctionId \in 1..(BACKFILL_MAX_ID + 1)
    /\ read \in Auction \cup {Nothing}
    /\ next \in 1..(Len(events) + 1) /\ upto \in 0..Len(events)
    /\ pages \in 0..(MAX_EVENT_PAGES - 1)
    /\ latestLedger \in Nat /\ booted \in Nat
    /\ faults \in [{"skip", "refusal", "crash"} -> Nat]

\* The winner column of a row is the one a settlement announced.
Announced(id, who) ==
    \E i \in DOMAIN events :
        /\ events[i].name = "auction_settled" /\ events[i].auction_id = id
        /\ events[i].winner = who

\* Whatever a row says did happen.  Late states are read before early events are
\* replayed, reads are stored after the chain has moved on, and a crash leaves
\* half a store behind; still no list shows an outcome, a winner, a bid or a
\* returned lot that the chain does not have (upsertCore, recordBid, markSettled,
\* markRefunded, setLotReclaimed).
RowTellsTheTruth(id) ==
    LET row == rows[id] a == auctions[id] IN
    /\ id <= Len(auctions)
    /\ row.status # "Open" => row.status = a.status
    /\ row.winner # NoWinner => Announced(id, row.winner)
    /\ row.lot_reclaimed => a.lot_reclaimed
    /\ row.filled_slots <= Len(a.bids)

BidsTellTheTruth(id) ==
    \A b \in bids[id] :
        /\ id <= Len(auctions)
        /\ b.slot_index < Len(auctions[id].bids)
        /\ b.bidder = auctions[id].bids[b.slot_index + 1]

RowsTellTheTruth ==
    \A id \in Ids : (hasAuction(id) => RowTellsTheTruth(id)) /\ BidsTellTheTruth(id)

\* No restart, backfill or replay takes back what the list has shown: a row stays,
\* an ended auction stays ended, a winner and a counted bid stay (ingest.ts,
\* "reprocessing it is idempotent").
KeepsRows ==
    \A id \in Ids :
        hasAuction(id) =>
            /\ hasAuction(id)'
            /\ rows[id].status # "Open" => rows'[id].status = rows[id].status
            /\ rows[id].winner # NoWinner => rows'[id].winner = rows[id].winner
            /\ rows'[id].filled_slots >= rows[id].filled_slots
            /\ bids[id] \subseteq bids'[id]

RowsNeverRegress == [][KeepsRows]_vars

\* "Resume from the last seen ledger next tick": the ledger a sync resumes from
\* is not past an event that no page has brought (the walk of fetchContractEvents
\* against setCursor in syncEvents).
SkipsNoEvent ==
    lastLedger' # lastLedger =>
        \A i \in DOMAIN events : i > upto => events[i].ledger >= lastLedger'

ResumesFromLastSeen == [][SkipsNoEvent]_vars

\* Auctions the indexer can know: the backfill reaches them, or they were created
\* after its first boot.
CreatedAfterBoot(id) ==
    \E i \in DOMAIN events : events[i].name = "auction_created"
                            /\ events[i].auction_id = id /\ events[i].ledger > booted

Indexable(id) == id <= BACKFILL_MAX_ID \/ CreatedAfterBoot(id)

SettledAfterBoot(id, who) ==
    \E i \in DOMAIN events : events[i].name = "auction_settled" /\ events[i].ledger > booted
                            /\ events[i].auction_id = id /\ events[i].winner = who

RowAgrees(id) ==
    /\ hasAuction(id)
    /\ rows[id].status = auctions[id].status
    /\ rows[id].filled_slots = Len(auctions[id].bids)
    /\ Cardinality(bids[id]) = Len(auctions[id].bids)
    /\ \A who \in Bidders : SettledAfterBoot(id, who) => rows[id].winner = who

\* Once the chain rests, the copy agrees with it on every auction, the ones older
\* than the event lookback and the ones past BACKFILL_MAX_ID included: backfill
\* and sync leave no gap between them, through failed syncs, crashes in the middle
\* of a store and of a batch, and restarts.
Converges ==
    <>[](\A id \in DOMAIN auctions : Indexable(id) => RowAgrees(id))

\* "'skipped' on a transient read failure (retry later)": an auction whose read
\* failed is indexed after all (ingest.ts, enrichAndUpsert).
SkippedIsRetried ==
    \A id \in Ids : [](id <= Len(auctions) => <>hasAuction(id))

\* lot_reclaimed is "true once the lot has left escrow toward the seller after a
\* refund" (lib.rs, the Auction struct): the row comes to say so.
ShowsReturnedLots ==
    \A id \in Ids :
        [](id <= Len(auctions) /\ auctions[id].lot_reclaimed
             => <>(hasAuction(id) /\ rows[id].lot_reclaimed))
=============================================================================
