----------------------- MODULE SealedAuctionLiveness ------------------------
(***************************************************************************)
(* What must eventually happen in SealedAuction, and under which fairness. *)
(* Every entry point of the contract that returns funds is permissionless, *)
(* and the people whose funds are in escrow can call it, so a call that    *)
(* stays possible is eventually made.  settle needs the operator, so       *)
(* nothing is assumed of it.                                               *)
(***************************************************************************)
EXTENDS SealedAuction

Created(id) == id \in DOMAIN auctions

\* refund_all and reclaim_lot are called when possible.
Callers ==
    \A id \in 1..MaxAuctions :
        /\ WF_vars(Created(id) /\ RefundAll(id))
        /\ WF_vars(Created(id) /\ ReclaimLot(id))

CallersSpec == Spec /\ WF_vars(Tick) /\ Callers

\* An auction whose refund unlocks within the modelled time.
UnlocksInTime(id) == Created(id) /\ RefundUnlockTime(auctions[id]) <= MaxTime

\* When outages end, every auction ends with its lot out of escrow, settled to
\* the winner or back with its seller: reclaim_lot finishes what refund_all's
\* try_transfer left behind.
LotsLeaveEscrow ==
    \A id \in 1..MaxAuctions :
        UnlocksInTime(id) ~> (Created(id) /\ ~LotHeld(auctions[id]))

\* A lot token that traps for ever never holds the bidders' deposits back
\* (refund_all's lot leg is a try_transfer, docs/AUDIT_DAYS_8_9.md finding 1).
DepositsReturn ==
    \A id \in 1..MaxAuctions :
        UnlocksInTime(id) ~> (Created(id) /\ auctions[id].status # "Open")

HasDeposit(id, x) ==
    Created(id) /\ auctions[id].status = "Open" /\ SlotsOf(auctions[id], x) # {}

\* "The clock is the authority, and no path may strand funds": a bidder whose
\* own account can always receive gets its deposit out of escrow, by settle or
\* by refund_all (the comment on refund_all).
NoPathStrandsFunds ==
    \A id \in 1..MaxAuctions, x \in Accounts :
        [](\A t \in Tokens : <<t, x>> \notin refusing)
            => [](HasDeposit(id, x) => <>~HasDeposit(id, x))
=============================================================================
