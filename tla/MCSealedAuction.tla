-------------------------- MODULE MCSealedAuction ---------------------------
(***************************************************************************)
(* Small instances of SealedAuction for TLC.                               *)
(***************************************************************************)
EXTENDS SealedAuctionLiveness, TLC

CONSTANTS alice, bob, carol, gold, cash

\* A listing of a lot of gold priced in cash, and its variations.
Plain == [seller |-> carol, rwa_token |-> gold, lot_amount |-> 1,
          payment_token |-> cash, max_price |-> 2, commit_deadline |-> 1,
          grace_period |-> 1, whitelist_root |-> {alice, bob}]

Sealed(prices, salts, ids) ==
    {Poseidon3(price, salt, id) : price \in prices, salt \in salts, id \in ids}

-----------------------------------------------------------------------------
(* One auction, every book of bids: ties, zero bids, a bid above max_price, *)
(* one out of the 64-bit range, one sealed for another auction.  Only alice *)
(* is on the whitelist of the second listing; the others are refused.       *)
OutcomeListings ==
    {Plain,
     [Plain EXCEPT !.whitelist_root = {alice}],
     [Plain EXCEPT !.lot_amount = 0], [Plain EXCEPT !.max_price = 0],
     [Plain EXCEPT !.max_price = U64Max + 1],
     [Plain EXCEPT !.commit_deadline = 0], [Plain EXCEPT !.grace_period = 0]}

OutcomeSealedBids ==
    Sealed({0, 1, 2, 3, U64Max + 1}, {1}, {1}) \cup Sealed({2}, {2}, {1}) \cup Sealed({2}, {1}, {2})

OutcomeEndowment ==
    (gold :> (alice :> 0 @@ bob :> 0 @@ carol :> 1 @@ Escrow :> 0))
    @@ (cash :> (alice :> 10 @@ bob :> 10 @@ carol :> 0 @@ Escrow :> 0))

-----------------------------------------------------------------------------
(* Two auctions that share the pool: the second sells what the first is     *)
(* priced in, and its sellers bid too.  The last listing's grace period      *)
(* saturates the clock.                                                     *)
PoolListings ==
    {[Plain EXCEPT !.seller = alice],
     [Plain EXCEPT !.seller = bob, !.rwa_token = cash, !.lot_amount = 2],
     [Plain EXCEPT !.seller = bob, !.rwa_token = cash, !.max_price = 1,
                   !.commit_deadline = 2, !.grace_period = U64Max]}

PoolSealedBids == Sealed({1, 2}, {1}, {1, 2})

PoolEndowment ==
    (gold :> (alice :> 2 @@ bob :> 0 @@ Escrow :> 0))
    @@ (cash :> (alice :> 4 @@ bob :> 5 @@ Escrow :> 0))

-----------------------------------------------------------------------------
(* One auction under outages; the seller bids too.                          *)
OutageListings == {[Plain EXCEPT !.seller = alice]}

OutageSealedBids == Sealed({1, 2}, {1}, {1})

OutageEndowment ==
    (gold :> (alice :> 1 @@ bob :> 0 @@ Escrow :> 0))
    @@ (cash :> (alice :> 2 @@ bob :> 4 @@ Escrow :> 0))

BobRefuses == {<<cash, bob>>}

OutageRefusals == {<<cash, bob>>, <<gold, alice>>}

=============================================================================
