-------------------------- MODULE VickreySelection --------------------------
(***************************************************************************)
(* The operator's side of a settlement: from the revealed bids to a        *)
(* proof bundle (assembleAndProve and selectVickreyOutcome in              *)
(* web/src/lib/operator.ts).  It runs off chain and in another language    *)
(* than the circuit, so it must pick exactly the outcome the circuit       *)
(* accepts: a wrong pick is never a wrong settlement, it is an auction     *)
(* that nobody can settle.                                                 *)
(*                                                                         *)
(* The two loops over the prices are steps of the state machine, one       *)
(* iteration each.  A run starts from any book of bids.                    *)
(***************************************************************************)
EXTENDS AuctionWinner

CONSTANTS
    PriceBound,     \* highest price a revealed bid carries; may exceed U64Max
    Members,        \* whitelist member lists the operator may be given
    Bidders         \* who may own a slot

ASSUME SelectionAssumption == PriceBound \in Nat

VARIABLES
    revealed,         \* slot -> what was revealed: a bid of somebody, or no bid
    whitelistMembers, \* the whitelist the operator rebuilds the tree from
    root,             \* the auction's on-chain whitelist root
    operatorPhase,    \* where assembleAndProve stands
    slotIndex,        \* the slot the running loop visits next
    winnerIndex,      \* 0 stands for the code's -1
    winnerPrice,
    clearingPrice,
    settleBundle      \* the public signals proved, once proved


selectionVars == <<revealed, whitelistMembers, root, operatorPhase, slotIndex, winnerIndex,
                   winnerPrice, clearingPrice, settleBundle>>

\* Definitions named ...Faulty are plausible slips of the definition after them;
\* no action uses them, they are there to be swapped in.

NoBid == [bidder |-> "nobody", price |-> 0, honest |-> TRUE]

\* A revealed bid: the price its ciphertext decrypts to, and whether that is
\* the price its bidder committed to (nothing on chain ties the two).
RevealedBids == [bidder : Bidders, price : 0..PriceBound, honest : BOOLEAN]

NoSettleBundle == [winnerIndex |-> 0, winningPrice |-> 0]

Price(i) == revealed[i].price

RevealedPrices == [i \in Slots |-> Price(i)]

Filled(i) == revealed[i] # NoBid

CommittedPrice(i) == IF revealed[i].honest THEN Price(i) ELSE Price(i) + 1

\* The on-chain commitments, for auction 1 and a salt of each slot's own.
Commitments ==
    [i \in Slots |-> IF Filled(i) THEN Poseidon3(CommittedPrice(i), i, 1)
                     ELSE EmptyCommitment]

RevealedSalts == [i \in Slots |-> IF Filled(i) THEN i ELSE 0]

PublicSignals(winner, price) ==
    [auctionId      |-> 1,
     commitments    |-> Commitments,
     winnerIndex    |-> winner,
     winningPrice   |-> price,
     whitelistRoot  |-> root,
     winnerAddrHash |-> IF winner \in Slots THEN revealed[winner].bidder ELSE "nobody"]

SelectionInit ==
    /\ revealed \in [Slots -> RevealedBids \cup {NoBid}]
    /\ whitelistMembers \in Members
    /\ root \in Members
    /\ operatorPhase = "verifying"
    /\ slotIndex = 1
    /\ winnerIndex = 0
    /\ winnerPrice = -1
    /\ clearingPrice = 0
    /\ settleBundle = NoSettleBundle

Abort ==
    /\ operatorPhase' = "aborted"
    /\ UNCHANGED <<revealed, whitelistMembers, root, slotIndex, winnerIndex, winnerPrice,
                   clearingPrice, settleBundle>>

NothingRevealed ==
    /\ operatorPhase = "verifying"
    /\ \A i \in Slots : ~Filled(i)
    /\ Abort

\* Every filled slot's revealed bid must hash to its on-chain commitment.
VerifySlots ==
    /\ operatorPhase = "verifying"
    /\ \E i \in Slots : Filled(i)
    /\ \A i \in Slots : Filled(i) =>
            Poseidon3(Price(i), RevealedSalts[i], 1) = Commitments[i]
    /\ operatorPhase' = "winner"
    /\ UNCHANGED <<revealed, whitelistMembers, root, slotIndex, winnerIndex, winnerPrice,
                   clearingPrice, settleBundle>>

VerifySlotsFails ==
    /\ operatorPhase = "verifying"
    /\ \E i \in Slots : /\ Filled(i)
                        /\ Poseidon3(Price(i), RevealedSalts[i], 1) # Commitments[i]
    /\ Abort

AdvanceLoop(next) ==
    IF slotIndex = MaxBidSlots
    THEN slotIndex' = 1 /\ operatorPhase' = next
    ELSE slotIndex' = slotIndex + 1 /\ operatorPhase' = operatorPhase

TakesOverFaulty(price, best) == price >= best
TakesOver(price, best) == price > best

\* First loop: a strictly higher price takes over, so ties keep the lowest slot.
PickWinner ==
    /\ operatorPhase = "winner"
    /\ IF TakesOver(Price(slotIndex), winnerPrice)
       THEN winnerPrice' = Price(slotIndex) /\ winnerIndex' = slotIndex
       ELSE UNCHANGED <<winnerPrice, winnerIndex>>
    /\ AdvanceLoop("clearing")
    /\ UNCHANGED <<revealed, whitelistMembers, root, clearingPrice, settleBundle>>

\* Second loop: the best price among the other slots.
PickClearingPrice ==
    /\ operatorPhase = "clearing"
    /\ IF slotIndex # winnerIndex /\ TakesOver(Price(slotIndex), clearingPrice)
       THEN clearingPrice' = Price(slotIndex)
       ELSE UNCHANGED clearingPrice
    /\ AdvanceLoop("checking")
    /\ UNCHANGED <<revealed, whitelistMembers, root, winnerIndex, winnerPrice, settleBundle>>

CanProveFaulty ==
    /\ winnerIndex > 0
    /\ winnerPrice > clearingPrice
    /\ clearingPrice > 0
    /\ Filled(winnerIndex)
    /\ revealed[winnerIndex].bidder \in whitelistMembers
    /\ whitelistMembers = root

\* The early returns between selection and proving.
CanProve ==
    /\ winnerIndex > 0
    /\ winnerPrice > 0
    /\ clearingPrice > 0
    /\ Filled(winnerIndex)
    /\ revealed[winnerIndex].bidder \in whitelistMembers
    /\ whitelistMembers = root

GiveUp ==
    /\ operatorPhase = "checking"
    /\ ~CanProve
    /\ Abort

\* groth16.fullProve returns a proof only when a witness exists.
ProveCircuit ==
    /\ operatorPhase = "checking"
    /\ CanProve
    /\ WinnerStatement(PublicSignals(winnerIndex, clearingPrice), RevealedPrices, RevealedSalts)
    /\ operatorPhase' = "done"
    /\ settleBundle' = [winnerIndex |-> winnerIndex, winningPrice |-> clearingPrice]
    /\ UNCHANGED <<revealed, whitelistMembers, root, slotIndex, winnerIndex, winnerPrice,
                   clearingPrice>>

ProofRejected ==
    /\ operatorPhase = "checking"
    /\ CanProve
    /\ ~WinnerStatement(PublicSignals(winnerIndex, clearingPrice), RevealedPrices, RevealedSalts)
    /\ Abort

\* The circuit's wasm or proving key cannot be fetched: the user may retry.
ProverUnavailable ==
    /\ operatorPhase = "checking"
    /\ CanProve
    /\ operatorPhase' = "unavailable"
    /\ UNCHANGED <<revealed, whitelistMembers, root, slotIndex, winnerIndex, winnerPrice,
                   clearingPrice, settleBundle>>

SelectionNext ==
    \/ NothingRevealed
    \/ VerifySlots
    \/ VerifySlotsFails
    \/ PickWinner
    \/ PickClearingPrice
    \/ GiveUp
    \/ ProveCircuit
    \/ ProofRejected
    \/ ProverUnavailable

SelectionSpec == SelectionInit /\ [][SelectionNext]_selectionVars

-----------------------------------------------------------------------------
SelectionTypeOK ==
    /\ revealed \in [Slots -> RevealedBids \cup {NoBid}]
    /\ whitelistMembers \in Members /\ root \in Members
    /\ operatorPhase \in {"verifying", "winner", "clearing", "checking", "done", "aborted",
                         "unavailable"}
    /\ slotIndex \in Slots
    /\ winnerIndex \in 0..MaxBidSlots
    /\ winnerPrice \in -1..PriceBound
    /\ clearingPrice \in 0..PriceBound
    /\ settleBundle \in [winnerIndex : 0..MaxBidSlots, winningPrice : 0..PriceBound]

\* What the two loops hand on is the reference outcome of the revealed
\* prices: the lowest slot with the highest price, and the best other price.
SelectsVickreyOutcome ==
    operatorPhase \in {"checking", "done", "unavailable"} =>
        /\ IsVickreyWinner(RevealedPrices, winnerIndex)
        /\ IsClearingPrice(RevealedPrices, winnerIndex, clearingPrice)

\* An operator that was given every true opening and the auction's own member
\* list gives up only when no caller of settle could succeed either: no winner
\* and no price have a proof.
NeverAbortsASettleableAuction ==
    operatorPhase = "aborted" /\ whitelistMembers = root /\ (\A i \in Slots : revealed[i].honest) =>
        \A winner \in Slots, price \in 0..PriceBound : ~Verify(PublicSignals(winner, price))

\* A bundle is the only outcome the circuit accepts for this book: the
\* verifier takes it, and takes no other winner and no other price.
BundleIsTheOnlyOutcome ==
    operatorPhase = "done" =>
        \A winner \in Slots, price \in 0..PriceBound :
            Verify(PublicSignals(winner, price)) <=>
                [winnerIndex |-> winner, winningPrice |-> price] = settleBundle
=============================================================================
