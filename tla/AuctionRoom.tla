----------------------------- MODULE AuctionRoom -----------------------------
(***************************************************************************)
(* The room of one auction: it polls the chain                             *)
(* (hooks/usePolledChainResource.ts, lib/chain.ts getAuction), looks up    *)
(* the settlement event once (hooks/useSettlementInfo.ts, lib/chain.ts     *)
(* getSettlementInfo and its cache) and shows the outcome                  *)
(* (routes/AuctionRoomRoute.tsx).  Polls overlap, their answers come in    *)
(* any order, and a failed poll takes the body of the room down.           *)
(***************************************************************************)
EXTENDS Integers

CONSTANTS
    Auctions,
    Winners,        \* what a settlement may publish
    None,           \* neither an auction nor a winner
    Reads,          \* names for the polls under way at a time
    InPlace,        \* TRUE when the route may change to another auction in place
    MaxBids,        \* bound: bids per auction
    MaxFailures,    \* bound: calls that fail
    MaxVisits       \* bound: rooms entered

ASSUME RoomAssumption == None \notin Auctions /\ None \notin Winners /\ MaxBids \in Nat

VARIABLES
    chain,      \* auction -> its tone, its bids, the winner its settlement published
    indexed,    \* auction -> whether the event service has its settlement event
    route,      \* the auction of the room, or None
    room,       \* the polled resource: phase and value
    reads,      \* name -> a poll: not under way, sent, or served with what it read
    body,       \* state of the mounted body: the settlement it submitted and
                \* learned, the settlement it looked up
    cache,      \* settlementCache: auction -> winner, or None for a miss
    lookups,    \* settlement look-ups under way
    failures, visits

chainVars == <<chain, indexed>>
roomVars == <<chain, indexed, route, room, reads, body, cache, lookups, failures, visits>>

Tones == {"open", "awaiting", "settled", "refunded"}
NoView == [id |-> None, tone |-> "open", bids |-> 0]
View(a) == [id |-> a, tone |-> chain[a].tone, bids |-> chain[a].bids]

Mounted == room.phase = "ready"
\* effect: where the look-up effect stands; info: what it found, once it has
NoBody == [settling |-> None, localSettlement |-> None, effect |-> "off",
           infoPhase |-> "loading", info |-> None]
NoRead == [st |-> "none", of |-> None, value |-> NoView]

-----------------------------------------------------------------------------
(* The chain, and the service its events are read from.                    *)

SetTone(a, tone, winner) ==
    chain' = [chain EXCEPT ![a].tone = tone, ![a].winner = winner]

ChainMoves(a) ==
    /\ \/ /\ chain[a].tone = "open" /\ chain[a].bids < MaxBids
          /\ chain' = [chain EXCEPT ![a].bids = @ + 1]
       \/ chain[a].tone = "open" /\ SetTone(a, "awaiting", None)
       \/ chain[a].tone = "awaiting" /\ SetTone(a, "refunded", None)
       \/ chain[a].tone = "awaiting" /\ \E w \in Winners : SetTone(a, "settled", w)
    /\ UNCHANGED <<indexed, route, room, reads, body, cache, lookups, failures, visits>>

\* The settlement event is found once it is indexed, and until it leaves the
\* retention window.
IndexMoves(a) ==
    /\ \/ indexed[a] = "not_yet" /\ chain[a].tone = "settled"
          /\ indexed' = [indexed EXCEPT ![a] = "visible"]
       \/ indexed[a] = "visible" /\ indexed' = [indexed EXCEPT ![a] = "expired"]
    /\ UNCHANGED <<chain, route, room, reads, body, cache, lookups, failures, visits>>

-----------------------------------------------------------------------------
(* The polled resource.                                                    *)

Send(n) == reads' = [reads EXCEPT ![n] = [st |-> "sent", of |-> route, value |-> NoView]]

\* The first tick and every interval, whatever is still under way.
FetchOnceFaulty(n) ==
    /\ route # None /\ reads[n].st = "none" /\ room.phase # "error"
    /\ Send(n)
    /\ UNCHANGED <<chainVars, route, room, body, cache, lookups, failures, visits>>
FetchOnce(n) ==
    /\ route # None /\ reads[n].st = "none"
    /\ Send(n)
    /\ UNCHANGED <<chainVars, route, room, body, cache, lookups, failures, visits>>

\* "Retry now", and a settlement reported: out of an error the skeleton shows.
refreshNow(n) ==
    /\ route # None /\ reads[n].st = "none"
    /\ room.phase = "error"
    /\ room' = [phase |-> "loading", value |-> NoView]
    /\ Send(n)
    /\ UNCHANGED <<chainVars, route, body, cache, lookups, failures, visits>>

\* getAuction: the node reads the auction as it is now.
Serve(n) ==
    /\ reads[n].st = "sent"
    /\ reads' = [reads EXCEPT ![n].st = "served", ![n].value = View(reads[n].of)]
    /\ UNCHANGED <<chainVars, route, room, body, cache, lookups, failures, visits>>

\* The effect of useSettlementInfo runs when the shown auction turns settled, and
\* is cancelled when an older answer shows it unsettled again or when another
\* auction is shown.
EffectAfter(b, v) ==
    IF v.tone # "settled" THEN "off"
    ELSE IF b.effect = "off" \/ v.id # room.value.id THEN "due" ELSE b.effect

\* The answer is shown, newer or not than what is shown; the body is mounted if
\* there was none.
Answer(n) ==
    /\ reads[n].st = "served"
    /\ room' = [phase |-> "ready", value |-> reads[n].value]
    /\ body' = LET b == IF Mounted THEN body ELSE NoBody IN
               [b EXCEPT !.effect = EffectAfter(b, reads[n].value)]
    /\ reads' = [reads EXCEPT ![n] = NoRead]
    /\ UNCHANGED <<chainVars, route, cache, lookups, failures, visits>>

\* A failed poll shows the outage in place of the room: the body and everything
\* it holds is gone.
Fail(n) ==
    /\ reads[n].st \in {"sent", "served"} /\ failures < MaxFailures
    /\ failures' = failures + 1
    /\ room' = [phase |-> "error", value |-> NoView]
    /\ body' = NoBody
    /\ reads' = [reads EXCEPT ![n] = NoRead]
    /\ UNCHANGED <<chainVars, route, cache, lookups, visits>>

-----------------------------------------------------------------------------
(* The settlement record.                                                  *)

cached(a) == a \in DOMAIN cache
Remember(a, w) == cache' = [x \in DOMAIN cache \cup {a} |-> IF x = a THEN w ELSE cache[x]]

\* The event is asked for by its name and the auction's id.
SettledEventsFaulty(a) == {chain[x].winner : x \in {y \in Auctions : indexed[y] = "visible"}}
SettledEvents(a) == {chain[x].winner : x \in {y \in {a} : indexed[y] = "visible"}}

Informed(a, w) ==
    body' = IF Mounted /\ body.effect = "waiting" /\ room.value.id = a
            THEN [body EXCEPT !.effect = "done", !.infoPhase = "ready", !.info = w]
            ELSE body

StartLookup ==
    /\ Mounted /\ body.effect = "due"
    /\ LET a == room.value.id IN
       IF cached(a)
       THEN /\ body' = [body EXCEPT !.effect = "done", !.infoPhase = "ready", !.info = cache[a]]
            /\ UNCHANGED lookups
       ELSE /\ body' = [body EXCEPT !.effect = "waiting"]
            /\ lookups' = lookups \cup {a}
    /\ UNCHANGED <<chainVars, route, room, reads, cache, failures, visits>>

\* getSettlementInfo: a hit and a miss are cached alike, a failure is not; the
\* hook turns a failure and a miss into the same null.
getSettlementInfo(a) ==
    /\ a \in lookups
    /\ lookups' = lookups \ {a}
    /\ \/ \E w \in SettledEvents(a) : Remember(a, w) /\ Informed(a, w) /\ UNCHANGED failures
       \/ SettledEvents(a) = {} /\ Remember(a, None) /\ Informed(a, None) /\ UNCHANGED failures
       \/ /\ failures < MaxFailures /\ failures' = failures + 1
          /\ Informed(a, None) /\ UNCHANGED cache
    /\ UNCHANGED <<chainVars, route, room, reads, visits>>

-----------------------------------------------------------------------------
(* The operator's settlement from this room, and the route.                *)

StartSettle ==
    /\ Mounted /\ room.value.tone = "awaiting" /\ body.settling = None
    /\ body.localSettlement = None
    /\ \E w \in Winners :
          /\ chain[room.value.id].tone = "awaiting"
          /\ SetTone(room.value.id, "settled", w)
          /\ body' = [body EXCEPT !.settling = w]
    /\ UNCHANGED <<indexed, route, room, reads, cache, lookups, failures, visits>>

\* runSettle comes back to the body it was started from, if that is still there,
\* and asks for the auction at once (when all of Reads are out, one of them will do).
Refetch ==
    IF \E n \in Reads : reads[n].st = "none"
    THEN \E n \in Reads : reads[n].st = "none" /\ Send(n)
    ELSE UNCHANGED reads

handleSettled ==
    /\ Mounted /\ body.settling # None
    /\ body' = [body EXCEPT !.localSettlement = body.settling, !.settling = None]
    /\ Refetch
    /\ UNCHANGED <<chainVars, route, room, cache, lookups, failures, visits>>

Enter(a) ==
    /\ visits < MaxVisits /\ visits' = visits + 1
    /\ route = None
    /\ route' = a
    /\ room' = [phase |-> "loading", value |-> NoView]
    /\ UNCHANGED <<chainVars, reads, body, cache, lookups, failures>>

Leave ==
    /\ route # None
    /\ route' = None
    /\ room' = [phase |-> "loading", value |-> NoView]
    /\ reads' = [n \in Reads |-> NoRead]
    /\ body' = NoBody
    /\ UNCHANGED <<chainVars, cache, lookups, failures, visits>>

\* A step in the history between two rooms keeps the state of the component.
Navigate(a) ==
    /\ InPlace
    /\ visits < MaxVisits /\ visits' = visits + 1
    /\ route \notin {None, a}
    /\ route' = a
    /\ UNCHANGED <<chainVars, room, reads, body, cache, lookups, failures>>

-----------------------------------------------------------------------------
RoomInit ==
    /\ chain = [a \in Auctions |-> [tone |-> "open", bids |-> 0, winner |-> None]]
    /\ indexed = [a \in Auctions |-> "not_yet"]
    /\ route = None
    /\ room = [phase |-> "loading", value |-> NoView]
    /\ reads = [n \in Reads |-> NoRead]
    /\ body = NoBody
    /\ cache = [a \in {} |-> None] /\ lookups = {}
    /\ failures = 0 /\ visits = 0

RoomNext ==
    \/ \E a \in Auctions : \/ ChainMoves(a) \/ IndexMoves(a) \/ getSettlementInfo(a)
                           \/ Enter(a) \/ Navigate(a)
    \/ \E n \in Reads : FetchOnce(n) \/ refreshNow(n) \/ Serve(n) \/ Answer(n) \/ Fail(n)
    \/ StartLookup \/ StartSettle \/ handleSettled
    \/ Leave

RoomSpec == RoomInit /\ [][RoomNext]_roomVars

\* The interval keeps firing, and a call that was sent is answered or fails.
RoomFairness ==
    \A n \in Reads : WF_roomVars(FetchOnce(n)) /\ WF_roomVars(Serve(n)) /\ WF_roomVars(Answer(n))

-----------------------------------------------------------------------------
(* Properties.                                                             *)

RoomTypeOK ==
    /\ \A a \in Auctions :
          /\ chain[a].tone \in Tones /\ chain[a].bids \in 0..MaxBids
          /\ (chain[a].winner \in Winners) <=> (chain[a].tone = "settled")
          /\ indexed[a] # "not_yet" => chain[a].tone = "settled"
    /\ route \in Auctions \cup {None}
    /\ room.phase \in {"loading", "ready", "error"}
    /\ Mounted <=> room.value # NoView
    /\ ~Mounted => body = NoBody
    /\ route = None => \A n \in Reads : reads[n] = NoRead
    /\ DOMAIN cache \subseteq Auctions /\ lookups \subseteq Auctions

winnerAddress == IF body.localSettlement # None THEN body.localSettlement ELSE body.info

\* The winner and the price the room shows are the ones the chain settled this
\* auction with, whichever of the two sources they come from and whatever was
\* cached, cancelled or answered late before.
SummaryIsOfThisAuction ==
    Mounted /\ winnerAddress # None => chain[room.value.id].winner = winnerAddress

\* Once the chain rests and calls stop failing, a room that is not left comes to
\* show its own auction as the chain has it, for good.
RoomCatchesUp ==
    \A a \in Auctions :
        <>[](route = a) => <>[](room.phase = "ready" /\ room.value = View(a))
=============================================================================
