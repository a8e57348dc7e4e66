--------------------------- MODULE RevealPipeline ---------------------------
(***************************************************************************)
(* One auction from its last bids to its settlement through the web        *)
(* application: the reveal service (web/api/reveal.ts), its client         *)
(* (web/src/lib/reveal.ts), the operator's stepper                         *)
(* (components/auction/OperatorStepper.tsx) and the proving pipeline       *)
(* (web/src/lib/operator.ts), against a chain that moves between any two   *)
(* of their awaits.  VickreySelection details the selection loops,         *)
(* TransactionClient the submission.                                       *)
(***************************************************************************)
EXTENDS AuctionWinner, Sequences, SequencesExt, FiniteSetsExt

CONSTANTS
    Accounts,
    Prices,             \* prices bids are sealed with, in 1..U64Max
    Seals,              \* how a bid may be sealed, a subset of AllSeals
    CustomMembers,      \* the members behind a custom root
    DEMO_WHITELIST_MEMBERS,
    Deadline, Grace,
    Skew,               \* the service's clock minus the ledger's
    EVENT_LOOKBACK,     \* how far back the service asks for events
    CommandLine,        \* TRUE when someone also runs the command-line prover
    MaxFaults,          \* bound: failed reads, failed proofs, lost answers
    LastTick            \* bound: the last tick

\* A ciphertext opens to the committed price, does not open, or opens to
\* another price than the committed one: nothing on chain ties the two.
AllSeals == {"opens", "garbled", "lies"}

\* The window, the grace and the skew of the clocks may have any value.
ASSUME RevealAssumption ==
    /\ Prices \subseteq 1..U64Max
    /\ Seals \subseteq AllSeals
    /\ CustomMembers \subseteq Accounts /\ DEMO_WHITELIST_MEMBERS \subseteq Accounts
    /\ LastTick \in Nat /\ MaxFaults \in Nat

VARIABLES
    ledgerTime, book, status, whitelistRoot, registered, chainOutcome,  \* the chain
    faults,
    phase,          \* provePhase, or the await of the reveal service
    seen,           \* the bids a running reveal has fetched
    members,        \* the whitelist a running reveal was given
    bundle,         \* the stepper's bundle, or NoBundle
    exported,       \* bundles that exist outside the stepper, to be pasted
    settling,       \* the bundle a running submission carries, or NoBundle
    alreadySettled, \* the notice of the same name
    shown           \* what onSettled was told, or NoBundle

chainVars == <<ledgerTime, book, status, whitelistRoot, registered, chainOutcome>>
revealVars == <<phase, seen, members>>
settleVars == <<settling, shown>>
pipelineVars == <<chainVars, faults, revealVars, bundle, exported, settleVars, alreadySettled>>

NoBids == [i \in {} |-> 0]
NoSignals == [commitments |-> <<>>]
NoBundle == [winnerIndex |-> 0, winningPrice |-> 0, winnerAddress |-> "nobody", proves |-> NoSignals]

-----------------------------------------------------------------------------
(* The contract.                                                           *)

Commitment(slot, bid) ==
    Poseidon3(IF bid.seal = "lies" THEN bid.price + 1 ELSE bid.price, slot, 1)

\* bids: a function from some of the slots.
Signals(bids, winner, price, address) ==
    [auctionId      |-> 1,
     commitments    |-> [i \in Slots |-> IF i \in DOMAIN bids THEN Commitment(i, bids[i])
                                         ELSE EmptyCommitment],
     winnerIndex    |-> winner,
     winningPrice   |-> price,
     whitelistRoot  |-> whitelistRoot,
     winnerAddrHash |-> address]

\* settle: the proof must be of the signals the contract rebuilds from storage.
VerifiesHereFaulty(b) ==
    /\ b.winnerIndex \in DOMAIN book
    /\ book[b.winnerIndex].bidder = b.winnerAddress
    /\ Verify(b.proves)
VerifiesHere(b) ==
    /\ b.winnerIndex \in DOMAIN book
    /\ book[b.winnerIndex].bidder = b.winnerAddress
    /\ b.proves = Signals(book, b.winnerIndex, b.winningPrice, b.winnerAddress)
Settles(b) == status = "Open" /\ ledgerTime >= Deadline /\ VerifiesHere(b)

PlaceBid ==
    /\ status = "Open" /\ ledgerTime < Deadline
    /\ Len(book) < MaxBidSlots
    /\ \E x \in Accounts, p \in Prices, s \in Seals :
          book' = Append(book, [bidder |-> x, price |-> p, seal |-> s, at |-> ledgerTime])
    /\ UNCHANGED <<ledgerTime, status, whitelistRoot, registered, chainOutcome, faults, revealVars,
                   bundle, exported, settleVars, alreadySettled>>

Register ==
    /\ ~registered
    /\ registered' = TRUE
    /\ UNCHANGED <<ledgerTime, book, status, whitelistRoot, chainOutcome, faults, revealVars,
                   bundle, exported, settleVars, alreadySettled>>

\* What an honest settlement of the whole book is.
PriceOf(bids) == [i \in Slots |-> IF i \in DOMAIN bids THEN bids[i].price ELSE 0]
SelectedWinner(bids) == CHOOSE i \in Slots : IsVickreyWinner(PriceOf(bids), i)
SelectedPrice(bids) ==
    CHOOSE p \in {0} \cup Prices : IsClearingPrice(PriceOf(bids), SelectedWinner(bids), p)

ApplySettle(b) ==
    /\ Settles(b)
    /\ status' = "Settled"
    /\ chainOutcome' = [winnerIndex |-> b.winnerIndex, winningPrice |-> b.winningPrice]
    /\ UNCHANGED <<ledgerTime, book, whitelistRoot, registered>>

\* Another operator settles with a bundle of its own, or with an exported one.
OtherSettles ==
    /\ \E b \in exported : ApplySettle(b)
    /\ UNCHANGED <<faults, revealVars, bundle, exported, settleVars, alreadySettled>>

RefundAll ==
    /\ status = "Open" /\ ledgerTime >= Deadline + Grace
    /\ status' = "Refunded"
    /\ UNCHANGED <<ledgerTime, book, whitelistRoot, registered, chainOutcome, faults, revealVars,
                   bundle, exported, settleVars, alreadySettled>>

LedgerAdvances ==
    /\ ledgerTime < LastTick
    /\ ledgerTime' = ledgerTime + 1
    /\ UNCHANGED <<book, status, whitelistRoot, registered, chainOutcome, faults, revealVars,
                   bundle, exported, settleVars, alreadySettled>>

-----------------------------------------------------------------------------
(* The reveal: the stepper's button, then the service's four awaits.       *)

isRevealing == phase # "none" /\ bundle = NoBundle

\* The button is shown while there is no bundle.
RunReveal ==
    /\ bundle = NoBundle /\ ~isRevealing
    /\ phase' = "status"
    /\ alreadySettled' = FALSE
    /\ UNCHANGED <<chainVars, faults, seen, members, bundle, exported, settleVars>>

RevealEndsFaulty == phase' = "failed" /\ seen' = NoBids /\ members' = {}
RevealEnds == phase' = "none" /\ seen' = NoBids /\ members' = {}

\* Any await of the service or the browser fails, but for the registry's.
RevealFails ==
    /\ phase \in {"status", "events", "proving"}
    /\ faults < MaxFaults
    /\ faults' = faults + 1
    /\ RevealEnds
    /\ UNCHANGED <<chainVars, bundle, exported, settleVars, alreadySettled>>

\* not_settleable and not_closed are judged on this one read and the service's clock.
Closed == ledgerTime + Skew >= Deadline
ReadStatus ==
    /\ phase = "status"
    /\ IF status = "Open" /\ Closed
       THEN phase' = "events" /\ UNCHANGED <<seen, members>>
       ELSE RevealEnds
    /\ alreadySettled' = (status = "Settled")
    /\ UNCHANGED <<chainVars, faults, bundle, exported, settleVars>>

\* Bids whose event is still within the lookback.
VisibleBids == Restrict(book, {i \in DOMAIN book : book[i].at >= ledgerTime - EVENT_LOOKBACK})
Decryptable(bids) == \A i \in DOMAIN bids : bids[i].seal # "garbled"

ReadEvents ==
    /\ phase = "events"
    /\ IF DOMAIN VisibleBids # {} /\ Decryptable(VisibleBids)
       THEN phase' = "members" /\ seen' = VisibleBids /\ members' = members
       ELSE RevealEnds
    /\ UNCHANGED <<chainVars, faults, bundle, exported, settleVars, alreadySettled>>

\* A failed read and an unregistered root both answer with no members, which
\* the stepper takes for the demo whitelist.
RegistryMembers == IF registered THEN whitelistRoot ELSE {}
FallbackFaulty(list) == list
Fallback(list) == IF list # {} THEN list ELSE DEMO_WHITELIST_MEMBERS

ReadMembers ==
    /\ phase = "members"
    /\ phase' = "proving"
    /\ \/ members' = Fallback(RegistryMembers) /\ faults' = faults
       \/ /\ faults < MaxFaults
          /\ faults' = faults + 1
          /\ members' = Fallback({})
    /\ UNCHANGED <<chainVars, seen, bundle, exported, settleVars, alreadySettled>>

\* assembleAndProve's checks on the bids it was given.
Provable ==
    /\ \A i \in DOMAIN seen : seen[i].seal # "lies"
    /\ SelectedPrice(seen) > 0
    /\ seen[SelectedWinner(seen)].bidder \in members
    /\ members = whitelistRoot

ProvenBundle ==
    LET winner == SelectedWinner(seen)
        price == SelectedPrice(seen)
        address == seen[winner].bidder
    IN  [winnerIndex |-> winner, winningPrice |-> price, winnerAddress |-> address,
         proves |-> Signals(seen, winner, price, address)]

\* provePhase stays 'done' next to the bundle.
Prove ==
    /\ phase = "proving"
    /\ IF Provable
       THEN /\ phase' = "done" /\ seen' = NoBids /\ members' = {}
            /\ bundle' = ProvenBundle
            /\ exported' = exported \cup {ProvenBundle}
       ELSE RevealEnds /\ UNCHANGED <<bundle, exported>>
    /\ UNCHANGED <<chainVars, faults, settleVars, alreadySettled>>

\* The command-line prover's bundle, from whatever part of the book it fetched.
LoadPastedBundle ==
    /\ \E b \in exported :
          b # bundle /\ bundle' = b
    /\ UNCHANGED <<chainVars, faults, revealVars, exported, settleVars, alreadySettled>>

CommandLineProves ==
    /\ CommandLine /\ exported = {} /\ ledgerTime >= Deadline /\ book # <<>>
    /\ \E k \in DOMAIN book :
          LET part == Restrict(book, {i \in DOMAIN book : i >= k})
              winner == SelectedWinner(part)
              price == SelectedPrice(part)
          IN  /\ \A i \in DOMAIN part : part[i].seal = "opens"
              /\ price > 0
              /\ part[winner].bidder \in whitelistRoot
              /\ exported' = {[winnerIndex |-> winner, winningPrice |-> price,
                               winnerAddress |-> part[winner].bidder,
                               proves |-> Signals(part, winner, price, part[winner].bidder)]}
    /\ UNCHANGED <<chainVars, faults, revealVars, bundle, settleVars, alreadySettled>>

-----------------------------------------------------------------------------
(* The settlement: the stepper's second button.                            *)

RunSettle ==
    /\ bundle # NoBundle /\ settling = NoBundle
    /\ settling' = bundle
    /\ UNCHANGED <<chainVars, faults, revealVars, bundle, exported, shown, alreadySettled>>

\* onSettled is called with the bundle the click captured.
ReportedFaulty == bundle
Reported == settling

SettleSucceeds ==
    /\ settling # NoBundle
    /\ ApplySettle(settling)
    /\ shown' = Reported
    /\ settling' = NoBundle
    /\ UNCHANGED <<faults, revealVars, bundle, exported, alreadySettled>>

\* Applied, but the answer is lost: the stepper shows a failure.
SettleUnconfirmed ==
    /\ settling # NoBundle /\ faults < MaxFaults
    /\ ApplySettle(settling)
    /\ faults' = faults + 1
    /\ settling' = NoBundle
    /\ UNCHANGED <<revealVars, bundle, exported, shown, alreadySettled>>

\* Rejected by the contract, or never applied.
SettleFails ==
    /\ settling # NoBundle
    /\ \/ ~Settles(settling) /\ faults' = faults
       \/ Settles(settling) /\ faults < MaxFaults /\ faults' = faults + 1
    /\ settling' = NoBundle
    /\ UNCHANGED <<chainVars, revealVars, bundle, exported, shown, alreadySettled>>

\* Reloading the page is the only way back from a bundle to the reveal button.
Reload ==
    /\ bundle # NoBundle /\ ~VerifiesHere(bundle) /\ settling = NoBundle
    /\ bundle' = NoBundle /\ RevealEnds /\ alreadySettled' = FALSE
    /\ UNCHANGED <<chainVars, faults, exported, settleVars>>

-----------------------------------------------------------------------------
RevealInit ==
    /\ ledgerTime = 0 /\ book = <<>> /\ status = "Open"
    /\ chainOutcome = [winnerIndex |-> 0, winningPrice |-> 0]
    /\ whitelistRoot \in {CustomMembers, DEMO_WHITELIST_MEMBERS}
    /\ registered \in BOOLEAN
    /\ faults = 0 /\ phase = "none" /\ seen = NoBids /\ members = {}
    /\ bundle = NoBundle /\ exported = {} /\ settling = NoBundle
    /\ alreadySettled = FALSE /\ shown = NoBundle

Stepper ==
    RunReveal \/ ReadStatus \/ ReadEvents \/ ReadMembers \/ Prove \/ RunSettle
    \/ SettleSucceeds \/ SettleFails \/ Reload

RevealNext ==
    \/ Stepper \/ RevealFails \/ SettleUnconfirmed \/ LoadPastedBundle
    \/ PlaceBid \/ Register \/ CommandLineProves \/ OtherSettles \/ RefundAll \/ LedgerAdvances

RevealSpec == RevealInit /\ [][RevealNext]_pipelineVars

\* Reads and proofs fail at most MaxFaults times, then every await is answered;
\* the operator presses the buttons that are enabled, and time passes.
\* Liveness is checked without the command line: an operator who keeps pasting
\* a bundle the contract rejects gets nowhere.
RevealFairness == WF_pipelineVars(Stepper) /\ WF_pipelineVars(LedgerAdvances)

-----------------------------------------------------------------------------
(* Properties.                                                             *)

SealedBid == [bidder : Accounts, price : Prices, seal : Seals, at : 0..LastTick]
Statements == {NoSignals} \cup
    [auctionId : {1}, commitments : [Slots -> {EmptyCommitment} \cup
        [price : Nat, salt : Slots, auctionId : {1}]], winnerIndex : Slots,
     winningPrice : Prices, whitelistRoot : SUBSET Accounts, winnerAddrHash : Accounts]
Bundles == {NoBundle} \cup
    [winnerIndex : Slots, winningPrice : Prices, winnerAddress : Accounts, proves : Statements]

RevealTypeOK ==
    /\ ledgerTime \in 0..LastTick /\ faults \in 0..MaxFaults
    /\ DOMAIN book \subseteq Slots /\ \A i \in DOMAIN book : book[i] \in SealedBid
    /\ status \in {"Open", "Settled", "Refunded"}
    /\ whitelistRoot \subseteq Accounts /\ registered \in BOOLEAN
    /\ phase \in {"none", "status", "events", "members", "proving", "done"}
    /\ DOMAIN seen \subseteq Slots /\ members \subseteq Accounts
    /\ {bundle, settling, shown} \cup exported \subseteq Bundles
    /\ alreadySettled \in BOOLEAN

\* Reads cut by the lookback, members that could not be read, bundles pasted
\* from elsewhere and bids that do not open never settle the auction wrongly:
\* it settles only as the committed prices of the whole book say.
CommittedPrices ==
    [i \in Slots |-> IF i \in DOMAIN book THEN Commitment(i, book[i]).price ELSE 0]
OnlyTheWholeBookSettles ==
    status = "Settled" =>
        /\ IsVickreyWinner(CommittedPrices, chainOutcome.winnerIndex)
        /\ IsClearingPrice(CommittedPrices, chainOutcome.winnerIndex, chainOutcome.winningPrice)
        /\ book[chainOutcome.winnerIndex].bidder \in whitelistRoot

\* The room is told the outcome the chain has, also when another bundle was
\* pasted or finished proving while the transaction was out.
ShownIsWhatSettled ==
    shown # NoBundle =>
        /\ status = "Settled"
        /\ chainOutcome = [winnerIndex |-> shown.winnerIndex, winningPrice |-> shown.winningPrice]

\* A book everyone sealed properly, with a winner on a list the stepper can
\* know, ends settled: whatever failed on the way, the operator gets through.
Settleable ==
    /\ ledgerTime >= Deadline
    /\ status # "Refunded"
    /\ \A i \in DOMAIN book : book[i].seal = "opens"
    /\ registered \/ whitelistRoot = DEMO_WHITELIST_MEMBERS
    /\ SelectedPrice(book) > 0
    /\ book[SelectedWinner(book)].bidder \in whitelistRoot
SettleableEndsSettled == Settleable ~> (status = "Settled")
=============================================================================
