---------------------------- MODULE AuctionPages ----------------------------
(***************************************************************************)
(* The list of auctions.  The browser (web/src/lib/indexer.ts,             *)
(* auctions-list-view.ts, hooks/useAuctionsQuery.ts) reads the indexer's   *)
(* list page by page with a keyset cursor (indexer/src/api.ts, store.ts)   *)
(* while ingestion keeps changing the rows; when the indexer is down it    *)
(* probes the chain for all auctions (lib/chain.ts) and filters and sorts  *)
(* them itself.                                                            *)
(***************************************************************************)
EXTENDS Integers, FiniteSets, SequencesExt

CONSTANTS
    PAGE_LIMIT,
    MAX_AUCTION_PROBES,
    OPEN_RANK_MULTIPLIER,
    Deadlines,          \* commit deadlines, in seconds
    NowSeconds,         \* the wall clock of the browser
    CLOSING_SOON_THRESHOLD_SECONDS,
    SymbolReads,        \* how the read of the tokens' symbols may end: "ok",
                        \* "contract_error", "failed"
    MaxRowBids,         \* bound: bids per auction
    MaxRows,            \* bound: auctions
    MaxChanges          \* bound: changes of the rows during a walk

\* store.ts: the multiplier is "above any Unix-second deadline".
ASSUME ListAssumption ==
    /\ PAGE_LIMIT \in Nat \ {0}
    /\ OPEN_RANK_MULTIPLIER \in Nat /\ Deadlines \subseteq 0..(OPEN_RANK_MULTIPLIER - 1)
    /\ MAX_AUCTION_PROBES \in Nat /\ MaxRowBids \in Nat

Statuses == {"Open", "Settled", "Refunded"}
Segments == {"all", "live", "closing", "awaiting", "settled", "yours"}
Sorts == {"closing", "newest", "bids"}

NoCursor == <<>>

VARIABLES
    rows,       \* id -> status, deadline, number of bids, a bid of this wallet among them
    symbol,     \* id -> how the read of its tokens' symbols ends
    view,       \* the segment and the sort of the list, and whether a wallet is connected
    pages,      \* the ids of the pages fetched, in order
    cursor,     \* the cursor of the next page
    hasMore,    \* the last page came with a cursor, or none was fetched
    touched,    \* ids inserted or changed since the walk began
    changes

listVars == <<rows, symbol, view, pages, cursor, hasMore, touched, changes>>

-----------------------------------------------------------------------------
(* The indexer: store.query.                                               *)

SegmentStatus(segment) ==
    CASE segment \in {"live", "closing", "awaiting"} -> {"Open"}
      [] segment = "settled" -> {"Settled", "Refunded"}
      [] OTHER -> Statuses

\* buildAuctionQuery and the WHERE clause: without a wallet there is no bidder to
\* ask for, and "yours" is the list of all auctions.
Selected(row, v) ==
    /\ row.status \in SegmentStatus(v.segment)
    /\ v.segment = "yours" /\ v.connected => row.mine

OpenRank(row) == IF row.status = "Open" THEN 0 ELSE 1

sortValueOf(id, sort) ==
    CASE sort = "bids"    -> rows[id].filled
      [] sort = "closing" -> OpenRank(rows[id]) * OPEN_RANK_MULTIPLIER + rows[id].deadline
      [] OTHER            -> id
Key(id, sort) == <<sortValueOf(id, sort), id>>

\* planOrder: ORDER BY, and the condition that a row comes after the cursor.
OrderedBefore(i, j, sort) ==
    LET k == Key(i, sort)  l == Key(j, sort) IN
    IF sort = "closing" THEN k[1] < l[1] \/ (k[1] = l[1] /\ i < j)
                        ELSE k[1] > l[1] \/ (k[1] = l[1] /\ i > j)

CursorClauseFaulty(id, c, sort) ==
    LET k == Key(id, sort) IN
    CASE sort = "newest"  -> id < c[2]
      [] sort = "bids"    -> k[1] < c[1]
      [] OTHER            -> k[1] > c[1]
CursorClause(id, c, sort) ==
    LET k == Key(id, sort) IN
    CASE sort = "newest"  -> id < c[2]
      [] sort = "bids"    -> k[1] < c[1] \/ (k[1] = c[1] /\ id < c[2])
      [] OTHER            -> k[1] > c[1] \/ (k[1] = c[1] /\ id > c[2])

\* The rows found, in that order.
Ordered(found, sort) ==
    CHOOSE s \in [1..Cardinality(found) -> found] :
        \A m, n \in DOMAIN s : m < n => OrderedBefore(s[m], s[n], sort)

query(v, c) ==
    LET found == {id \in DOMAIN rows : /\ Selected(rows[id], v)
                                       /\ c = NoCursor \/ CursorClause(id, c, v.sort)}
        ordered == Ordered(found, v.sort)
        more == Len(ordered) > PAGE_LIMIT
        page == IF more THEN SubSeq(ordered, 1, PAGE_LIMIT) ELSE ordered
    IN [page |-> page, next |-> IF more THEN Key(Last(page), v.sort) ELSE NoCursor]

-----------------------------------------------------------------------------
(* The browser on chain reads: listAuctions and selectVisibleAuctions.     *)

Tone(row) ==
    CASE row.status = "Settled"  -> "settled"
      [] row.status = "Refunded" -> "refunded"
      [] OTHER -> IF NowSeconds < row.deadline THEN "open" ELSE "awaiting"
TONE_ORDER == [open |-> 0, awaiting |-> 1, settled |-> 2, refunded |-> 3]

\* Probing upward ends at the first contract error, which is either the end of
\* the ids or a token whose symbol() traps; another error fails the list.
Ends(id) == id \notin DOMAIN rows \/ symbol[id] = "contract_error"
Probed == {id \in 1..MAX_AUCTION_PROBES : \A i \in 1..id : ~Ends(i)}
ListFails == \E id \in Probed : symbol[id] = "failed"
listAuctions == Probed

\* Without a wallet nothing is "yours" here.
matchesSegment(row, v) ==
    CASE v.segment = "all"      -> TRUE
      [] v.segment = "live"     -> Tone(row) = "open"
      [] v.segment = "closing"  -> /\ Tone(row) = "open"
                                   /\ row.deadline - NowSeconds <= CLOSING_SOON_THRESHOLD_SECONDS
      [] v.segment = "awaiting" -> Tone(row) = "awaiting"
      [] v.segment = "settled"  -> Tone(row) \in {"settled", "refunded"}
      [] v.segment = "yours"    -> v.connected /\ row.mine

compareForSortFaulty(i, j, sort) ==
    LET r == rows[i]  s == rows[j] IN
    CASE sort = "newest" -> i > j
      [] sort = "bids"   -> r.filled > s.filled \/ (r.filled = s.filled /\ i < j)
      [] OTHER -> IF Tone(r) # Tone(s) THEN TONE_ORDER[Tone(r)] < TONE_ORDER[Tone(s)]
                  ELSE IF Tone(r) = "open" /\ r.deadline # s.deadline THEN r.deadline < s.deadline
                  ELSE IF Tone(r) = "open" THEN i < j ELSE i > j
\* The sort is stable: live auctions of one deadline keep the order of the probe.
compareForSort(i, j, sort) ==
    LET r == rows[i]  s == rows[j] IN
    CASE sort = "newest" -> i > j
      [] sort = "bids"   -> r.filled > s.filled \/ (r.filled = s.filled /\ i > j)
      [] OTHER -> IF Tone(r) # Tone(s) THEN TONE_ORDER[Tone(r)] < TONE_ORDER[Tone(s)]
                  ELSE IF Tone(r) = "open" /\ r.deadline # s.deadline THEN r.deadline < s.deadline
                  ELSE IF Tone(r) = "open" THEN i < j ELSE i > j

Visible(v) == {id \in listAuctions : matchesSegment(rows[id], v)}
selectVisibleAuctions(v) ==
    LET shown == Visible(v)
    IN  CHOOSE s \in [1..Cardinality(shown) -> shown] :
            \A m, n \in DOMAIN s : m < n => compareForSort(s[m], s[n], v.sort)

-----------------------------------------------------------------------------
(* The walk through the pages, and the ingestion that goes on meanwhile.   *)

NewRow(deadline) == [status |-> "Open", deadline |-> deadline, filled |-> 0, mine |-> FALSE]

Change(id, row) ==
    /\ changes < MaxChanges
    /\ changes' = changes + 1
    /\ rows' = [i \in DOMAIN rows \cup {id} |-> IF i = id THEN row ELSE rows[i]]
    /\ touched' = touched \cup {id}
    /\ UNCHANGED <<view, pages, cursor, hasMore>>

NextId == Cardinality(DOMAIN rows) + 1

CreateAuction ==
    /\ NextId <= MaxRows
    /\ \E d \in Deadlines : Change(NextId, NewRow(d))
    /\ \E read \in SymbolReads : symbol' = Append(symbol, read)
PlaceBid(id) ==
    /\ rows[id].status = "Open" /\ rows[id].filled < MaxRowBids
    /\ \E mine \in {TRUE, rows[id].mine} :
          Change(id, [rows[id] EXCEPT !.filled = @ + 1, !.mine = mine])
    /\ UNCHANGED symbol
CloseRow(id) ==
    /\ rows[id].status = "Open"
    /\ \E status \in {"Settled", "Refunded"} : Change(id, [rows[id] EXCEPT !.status = status])
    /\ UNCHANGED symbol

\* The end of the list comes into sight: the next page is appended.
FetchNextPage ==
    /\ hasMore
    /\ LET got == query(view, cursor) IN
       /\ pages' = pages \o got.page
       /\ cursor' = got.next
       /\ hasMore' = (got.next # NoCursor)
    /\ UNCHANGED <<rows, symbol, view, touched, changes>>

\* A stale list is fetched again from its first page.  Another tab, sort or wallet
\* is a query of its own, by its key: the view of a walk is fixed.
RefetchList ==
    /\ pages' = <<>> /\ cursor' = NoCursor /\ hasMore' = TRUE
    /\ touched' = {}
    /\ UNCHANGED <<rows, symbol, view, changes>>

ListViews == [segment : Segments, sort : Sorts, connected : BOOLEAN]

ListInit ==
    /\ rows = [i \in {} |-> NewRow(0)] /\ symbol = <<>>
    /\ view \in ListViews
    /\ pages = <<>> /\ cursor = NoCursor /\ hasMore = TRUE
    /\ touched = {} /\ changes = 0

ListNext ==
    \/ CreateAuction
    \/ \E id \in DOMAIN rows : PlaceBid(id) \/ CloseRow(id)
    \/ FetchNextPage
    \/ RefetchList

ListSpec == ListInit /\ [][ListNext]_listVars

-----------------------------------------------------------------------------
(* Properties.                                                             *)

ListTypeOK ==
    /\ DOMAIN rows = 1..Cardinality(DOMAIN rows) /\ Len(symbol) = Cardinality(DOMAIN rows)
    /\ \A id \in DOMAIN rows :
          /\ rows[id] \in [status : Statuses, deadline : Deadlines, filled : 0..MaxRowBids,
                           mine : BOOLEAN]
          /\ rows[id].mine => rows[id].filled > 0
    /\ view \in ListViews /\ ToSet(pages) \subseteq DOMAIN rows /\ touched \subseteq DOMAIN rows
    /\ hasMore \/ cursor = NoCursor

Steady == DOMAIN rows \ touched
Times(id) == Cardinality({n \in DOMAIN pages : pages[n] = id})

\* However the other rows move between two pages, an auction that did not change
\* during the walk is listed exactly once if it belongs to the list, and not at
\* all otherwise.
WalkListsSteadyRowsOnce ==
    ~hasMore => \A id \in Steady : Times(id) = IF Selected(rows[id], view) THEN 1 ELSE 0

\* What the sort promises of two rows: "open first", soonest deadline; most
\* bids; newest first.
Promised(i, j) ==
    LET r == rows[i]  s == rows[j] IN
    CASE view.sort = "newest" -> i > j
      [] view.sort = "bids"   -> r.filled >= s.filled
      [] OTHER -> IF r.status = "Open" /\ s.status = "Open" THEN r.deadline <= s.deadline
                  ELSE s.status # "Open" \/ r.status = "Open"

\* Across page borders too, the auctions that did not change are in the order
\* the sort promises (store.ts:54: "above any Unix-second deadline, so the
\* closing-soonest sort can pack open first into the high digits").
PagesKeepThePromisedOrder ==
    \A m, n \in DOMAIN pages :
        m < n /\ {pages[m], pages[n]} \subseteq Steady => Promised(pages[m], pages[n])

\* A walk lists the steady part of the list, once and in the promised order.
WalksAreFaithful == WalkListsSteadyRowsOnce /\ PagesKeepThePromisedOrder

\* On these tabs and sorts the two paths have one meaning.  Left out are the
\* tabs that turn on the clock and the "closing" sort (the indexer has the status
\* alone), and "yours" without a wallet: all auctions there, none here.
MeantAlike(v) ==
    /\ v.segment \in {"all", "settled"} \/ (v.segment = "yours" /\ v.connected)
    /\ v.sort \in {"newest", "bids"}

\* When a quiet walk is over, whatever the fallback would show is in the indexer's
\* list, on every tab and with or without a wallet: falling back may lose
\* auctions of a tab and never adds one.  Where both mean the same tab and sort,
\* no token traps and the probe bound is not reached, the lists are equal, row by
\* row (indexer.ts, auctions-list-view.ts).
BothPathsAgree ==
    ~hasMore /\ touched = {} =>
        /\ Visible(view) \subseteq ToSet(pages)
        /\ /\ MeantAlike(view)
           /\ ToSet(symbol) \subseteq {"ok"} /\ Cardinality(DOMAIN rows) <= MAX_AUCTION_PROBES
           => selectVisibleAuctions(view) = pages
=============================================================================
