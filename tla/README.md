# A TLA+ verification of SealedStellar

SealedStellar runs sealed-bid second-price (Vickrey) auctions on Stellar. A
Soroban contract escrows the lot and a uniform deposit of every bidder; bids are
Poseidon commitments; after the deadline an operator decrypts them off chain and
proves in zero knowledge who won and what the second price is; anybody may
submit that proof. This directory holds TLA+ models of that protocol, the TLC
configurations that check them, and proofs checked by TLAPS.

## 1. Inventory

| Component | Source | State it keeps | Operations |
|---|---|---|---|
| Auction escrow contract | `contracts/auction/src/lib.rs` | next id, auctions (terms, status, bids, lot_reclaimed), token balances held | `create_auction`, `place_bid`, `settle`, `refund_all`, `reclaim_lot` |
| Winner circuit | `circuits/auction_winner.circom`, `lib/` | none | the statement a proof attests |
| Groth16 verifier | `contracts/verifier/src/lib.rs` | verification key, set once | `verify` |
| Whitelist registry | `contracts/whitelist-registry/src/lib.rs` | root to member list, first one wins | `register`, `get_members` |
| Operator pipeline | `web/src/lib/operator.ts` | none between runs | revealed bids to proof bundle |
| Reveal service | `web/api/reveal.ts` | operator's box secret | reads chain, events and registry, decrypts |
| Operator stepper | `web/.../OperatorStepper.tsx` | phase, bundle | reveal, prove, settle |
| Transaction client | `web/src/lib/transactions.ts`, `PlaceBidDialog.tsx` | none between calls | build, prepare, sign, send, confirm |
| Creation flow | `CreateAuctionRoute.tsx` | stage | register the whitelist, then create |
| Indexer | `indexer/src/{ingest,store,chain}.ts` | SQLite rows, bids, cursor | backfill, event sync |
| Indexer API | `indexer/src/api.ts`, `store.ts` query | token buckets per client | keyset paging |
| Faucet | `faucet/src/`, `web/api/faucet.ts` | token buckets, time of last grant | rate limit, cooldown, two mints |
| Browser reader | `web/src/lib/chain.ts`, hooks | symbol and settlement caches | derived state, polling |
| Whitelist tree | `web/src/lib/whitelist-tree.ts`, `circuits/lib/merkle.circom` | none | root, path, check of a path |
| Storage lifetime | `extend_ttl` in both contracts | last ledger each entry is alive at | extension at creation and at registration |
| Wallet funding client | `web/src/lib/faucet.ts`, `FaucetButton.tsx` | step of the dialog | trustlines, then a grant |
| Command-line prover | `prover/`, `circuits/scripts/prove.sh` | working files, `circuits/build` | the operator's pipeline from a shell |
| Scripts, UI | `scripts/`, `web/src/` | screens | deployment, demonstration, rendering |

How they interact. Sellers, bidders and operators call the escrow contract
through the transaction client. The contract calls two token contracts (the lot's
and the payment's, both chosen by the seller) and the verifier. The operator
reads the contract's bid events and the registry through the reveal service,
runs the selection and the prover in the browser, and submits the bundle with
`settle`. The indexer follows the contract's state and events into a database
that the browser lists from; the faucet mints the test tokens.

What is hard, and what would make each part correct:

* **Escrow.** Invocations are atomic and serialised by the ledger, but their
  order is not chosen by anyone: bids race the deadline, `settle` races
  `refund_all` once the grace period has passed, all auctions share one balance
  per token, tokens may trap. Correct means: the pool always holds exactly what
  is owed, every party ends with what the outcome grants it, an outcome is never
  revised, the book alone determines it, and funds do not stay in escrow.
* **Circuit and operator.** The selection is written three times (constraints,
  TypeScript, JavaScript). Correct means they agree on every book, ties and
  empty slots included.
* **Indexer.** Two sources of truth (a backfill of states, a replay of events)
  are merged with skipped reads, page caps and restarts. Correct means the rows
  converge to the chain.
* **Transaction client.** A transaction may be applied after the client has given
  up on it. Correct means no failure message for an applied bid, and no second
  deposit by a retry.
* **Reveal and stepper.** Four reads, a proof and a submission, with failures in
  between, while other operators settle. Correct means that only the outcome of
  the whole book settles, that the room shows what the chain has, and that a
  settleable auction gets settled.
* **Creation and registry.** Two transactions that are not atomic together.
  Correct means that no auction exists whose members nobody can read.
* **Faucet.** A check, two remote mints, then the record of the grant. Correct
  means that "done" means funded and that a failed grant locks nobody out.
* **Lists and rooms.** Pages of rows that change under the walk; polls whose
  answers overlap. Correct means that steady rows are listed once, and that a
  room shows its own auction and catches up.
* **Command line.** Files of several sittings in shared places. Correct means
  that a mixture of them does not settle anything wrong.
* **Storage.** Lifetimes are extended once. Correct means that nothing needed is
  archived before it is used.

The list of hazards, line by line, is in `PROJECT.json`.

## 2. Modules

| Module | Models | Role |
|---|---|---|
| `AuctionWinner` | `circuits/auction_winner.circom`, `verify` | the proof statement as a relation, and a reference definition of the Vickrey outcome |
| `VickreySelection` | `web/src/lib/operator.ts` | the operator's loops as a state machine |
| `SealedAuction` | `contracts/auction/src/lib.rs` | the escrow contract with its tokens and its clock |
| `SealedAuctionLiveness` | who calls the contract | fairness and liveness |
| `IdealAuction` | no code | what the contract promises: an abstract trusted auction house |
| `MCSealedAuction` | | values of the constants for TLC |
| `Sums` | | finite sums |
| `AuctionWinnerProofs` | | the circuit is the second-price rule, and the laws of sums, proved |
| `SealedAuctionProofs` | | type correctness, solvency, everyone whole, uniqueness of the outcome, lasting proofs, grace period, proved |
| `SealedAuctionRefinementProofs` | | the contract implements `IdealAuction`, proved |
| `ContractEvents` | `contracts/auction/src/lib.rs` as its readers see it | stored auctions and the log of published events |
| `Indexer` | `indexer/src/{main,ingest,store,chain}.ts` | backfill, sync and store, composed with `ContractEvents` |
| `MCIndexer` | | values of the constants for TLC |
| `IndexerProofs` | | rows tell the truth and keep what they showed, the cursor skips nothing, proved |
| `TransactionClient` | `web/src/lib/transactions.ts`, `errors.ts`, `PlaceBidDialog.tsx` | one intent of one wallet, attempt by attempt, against a ledger that applies late |
| `RevealPipeline` | `web/api/reveal.ts`, `web/src/lib/reveal.ts`, `OperatorStepper.tsx` | the reveal, the proof and the settlement through the web application, composed with the contract's side of one auction |
| `OperatorProofs` | | of a submission: its answers are true and final; of the selection: the loops find the circuit's only outcome; of the reveal: only the whole book settles and what is shown is on chain, proved |
| `CreationFlow` | `CreateAuctionRoute.tsx`, `WhitelistEditorDialog.tsx`, `contracts/whitelist-registry` | sellers, the form, and the registry |
| `StorageLifetime` | `extend_ttl` of both contracts | ledgers, archival |
| `MerkleWhitelist` | `web/src/lib/whitelist-tree.ts`, `circuits/lib/merkle.circom`, `prover/build-whitelist.js` | tree, path and check, one level per step |
| `CommandLineProver` | `prover/*.js`, `circuits/scripts/prove.sh` | the command line over its files |
| `CommandLineProofs` | | mixed files settle nothing wrong, what is written is provable, and the tree accepts members only, proved |
| `Faucet` | `faucet/src/`, `web/api/faucet.ts`, `web/src/lib/faucet.ts`, `FaucetButton.tsx` | presses of the button, processes, mints |
| `TokenBucket` | `takeToken` of `faucet/src/api.ts` and `indexer/src/api.ts` | the request limit under a clock that may be set |
| `AuctionPages` | `indexer/src/store.ts` (`query`), `api.ts`, `web/src/lib/auctions-list-view.ts`, `indexer.ts`, `chain.ts` | keyset pages while rows change, and the fallback on chain reads |
| `AuctionRoom` | `usePolledChainResource.ts`, `useSettlementInfo.ts`, `AuctionRoomRoute.tsx`, `chain.ts` | one browser: overlapping polls, navigation, the settlement record |
| `AuctionPagesProofs` | | walks list steady rows once and in order, and the fallback shows the same, proved |
| `WebProofs` | | the promises of `CreationFlow`, `StorageLifetime`, `TokenBucket`, `Faucet` and `AuctionRoom`, proved |
| `MCOperator`, `MCWeb`, `MCLiveness` | | the modules above side by side, for TLC |

### SealedAuction

| TLA+ | Code |
|---|---|
| `auctions[id]` | `DataKey::Auction(id)`: `terms` holds the fields fixed at creation, `status`, `bids`, `lot_reclaimed` as in the struct |
| `nextAuctionId` | `DataKey::NextAuctionId` |
| `now` | `env.ledger().timestamp()` |
| `settlements` | the `AuctionSettled` events (winner and price are in no storage) |
| `balance` | the balances in the token contracts |
| `trapping`, `refusing` | tokens that trap on every transfer; receivers a token refuses (external) |

Every entry point is one action: a failed invocation rolls back and is a stutter.
Guards are the handler's early returns in order. `settle`'s and `refund_all`'s
transfers are one payout (`PayOut`): the first leg that traps rolls the
invocation back, so only the sum each account gets matters, and the same account
may be seller, winner and loser at once. `refund_all`'s lot leg is a
`try_transfer`: its failure leaves the lot parked and the deposits paid.
`Verify` accepts exactly the signals that have a witness. The public signals are
rebuilt from the stored book as in `build_public_signals`.

Abstractions. Poseidon is an injective record (price, salt, auction id), so a
commitment is what it opens to; a whitelist root is its set of members; a Groth16
proof is sound and complete. `u64` values are bounded by `U64Max`, a constant, a
listing's deadline and grace period among them, and the refund time saturates there.
`i128` amounts are unbounded integers: every payout is covered by what is in escrow.
`operator_enc_pubkey`, the ciphertext (only its length is checked) and authorisation
are left out: `require_auth` restricts who sends `create_auction` and `place_bid`, and
the model lets exactly the named seller and bidder pay. `AuctionNotFound` is the
domain of `auctions`.

### AuctionWinner and VickreySelection

`WinnerStatement` follows the template constraint by constraint; its second-price
fold is the recursive function `RunningSecondMax`. `HighestPrice`,
`IsVickreyWinner` and `IsClearingPrice` are the reference definition, stated
without any fold. `VickreySelection` starts from any book of revealed bids, any
member list and any root, and takes one step per loop iteration of
`selectVickreyOutcome`, then the early returns of `assembleAndProve`, then the
prover. `revealed` is `SlotData`, `whitelistMembers` and `settleBundle` are the
argument and the value of `assembleAndProve`, `operatorPhase` where it stands. A
revealed bid may be dishonest: the ciphertext need not hold the committed price.

### IdealAuction

The specification one would write on a napkin: offers are made while bidding is
open; a closed auction is sold at most once, to the lowest slot with the highest
price, at the best price of the others, when every offer is valid and the winner
is on the list; or it is called off. `SealedAuction` implements it under
`HouseOf`, which reads a commitment as an offer of the price it opens to.

### ContractEvents and Indexer

`ContractEvents` keeps of an auction what the index copies (status, bidders in
slot order, `lot_reclaimed`) and of a call what it publishes. A call may happen
whenever some choice of deadlines would allow it. Each call is a ledger of its
own, `event.ledger`.

| TLA+ | Code |
|---|---|
| `rows[id]` | table `auctions`; `winner` stands for `clearing_price`, `winner` and `settle_tx`, which are written together; the immutable columns are left out |
| `bids[id]` | table `bids` |
| `lastLedger` | table `ingest_cursor` |
| `pc` | where the process is between two awaits: down, in `backfill`, idle between ticks, in `fetchContractEvents`' walk, or in the loop of `applyEvent` |
| `auctionId`, `read` | the id `backfill` is at; what `getAuction` returned and `upsertCore` has not stored |
| `next`, `upto`, `pages` | events fetched and not yet applied (`events[next..upto]`), pages walked |
| `latestLedger` | `latestLedger` of the last response |

One action per stretch of code between two awaits: `BackfillRead`,
`BackfillStores`, `StartSync`, `FetchPage`, `EnrichRead`, `EnrichStores`,
`ApplyBidPlaced`, `ApplyEnding`, `SaveCursor`. The contract's calls may come
between any two of them. `StoreRead(id, n)` is `enrichAndUpsert`'s write up to its
n-th bid; each statement is an SQLite transaction of its own, so `Crash` may leave
any part of it behind. `isSyncing` is why there is one sync at a time.
A skipped read (`BackfillSkips`, `EnrichSkips`) covers `getAuction` failing and
`getTokenSymbol` failing after it. Decoding loses nothing the contract publishes
and is left out, and so is the RPC server's refusal of a start ledger it no longer
retains, which the code does not handle and which comes back on every tick.

### Instances side by side

`MCOperator`, `MCWeb` and `MCLiveness` check several components in one run. A
variable `part` chooses which of them a behaviour is of, and the variables of the
others keep their first values. The parts share no state, so the states of a run
are the sum and not the product of theirs, and a property of one part is about the
behaviours of that part (in the others it speaks of first values).

`MCOperator` and `MCWeb` extend the modules, so that TLC evaluates their assumptions,
and take their constants from the `.cfg`. A component appears a second time, as an
instance over the same variables, where one set of constants cannot afford two
dimensions: `BadSeals` (ciphertexts that do not open, and a fast clock) and `Checkout`
(two auctions and two terminals) in `MCOperator`, `BusyRoom` (bids and a failure) in
`MCWeb`. `MCLiveness` extends the escrow and instantiates the rest. The constants of
an instance stand at the `INSTANCE`.

Where components do act on one another, they are composed inside one module:
`Indexer` with `ContractEvents`; `RevealPipeline` with the contract's status, the
registry, another operator and the circuit (`AuctionWinner`);
`CommandLineProver` with the contract and the circuit; `CreationFlow` with the
registry; `Faucet` with the browser's half; `AuctionPages` with ingestion;
`AuctionRoom` with the chain and its event service.

### TransactionClient

| TLA+ | Code |
|---|---|
| `call`, `attempt` | the flow (`submitPlaceBid`, `submitCreateAuction`, `submitSettle`, `submitRegisterWhitelist`); "Try again" begins another attempt |
| `stage` | the await of `submitInvocation` a running attempt is at: account, prepare, sign, send, poll |
| `tx` | the built transaction: sequence number and `validUntil` (`TX_TIMEOUT_SECONDS`) |
| `polls`, `consecutivePollFailures` | the two counters of the polling loop |
| `outcome[a]` | the failure kind returned, and the sentence of `errors.ts` it becomes |
| `network`, `verdict`, `effects`, `sequence` | the ledger: transactions some node still holds, what `getTransaction` can say, invocations that took effect, the account's sequence number (external) |
| `taken`, `closed`, `others` | other bidders and operators, unrelated transactions of the account |
| `fault` | the check of the call's arguments that fails, by its number in `AUCTION_ERROR_CODES`, or none |
| `refusal` | what a token answers the transfer, whatever the amount: nothing, a missing trustline, or a number without a marker text (external; it changes in `TokenTurns`) |

A send that throws may leave the transaction with a node (`Send`); a held
transaction may be applied at any time in its validity window, in sequence order,
or be dropped. A bid seals a fresh commitment on every attempt, so two bids of one
intent are two deposits; a settlement or a registration of one intent is the
same call. `Rejection` is the error of a simulation: the auction's first failed check
(`AuctionError`), else the token's (`TransferError`). Their numbers overlap.
`BidFailure` and `CreateFailure` look for a marker text before the number, which
tells two of the token's errors apart (balance, trustline); `SettleFailure` looks at
the number alone. A frozen account (#11 of a Stellar asset), one that is gone (#6), and
whatever a seller's token answers have no marker and are read as the auction's error of
that number.

### RevealPipeline

| TLA+ | Code |
|---|---|
| `phase` | `provePhase` of the stepper, or which read of the service is awaited |
| `seen` | the bid events a running reveal has fetched |
| `members` | the whitelist the reveal returned; empty both for an unregistered root and for a failed read |
| `bundle`, `alreadySettled` | the stepper's state of those names |
| `settling`, `shown` | the bundle a running submission carries; what `onSettled` was told |
| `ledgerTime`, `book`, `status`, `chainOutcome` | the auction's entry in the contract, and the ledger's clock |
| `exported` | bundles outside the page, which may be pasted or submitted by others |
| `book[i].seal` | whether the ciphertext opens to the committed price, to another, or not at all |
| `faults` | failed reads, failed proofs and lost answers so far |

The reveal button is hidden once there is a bundle, so a reveal and a loaded bundle
exclude each other in `RunReveal`. `ReadEvents` returns the events no older than
`EVENT_LOOKBACK` (100000 ledgers in the code); older bids are missing without an
error. The walk over at most 30 pages is one read. A bid that cannot be decrypted
fails the whole reveal, which the repository's README (line 187) documents: such an
auction ends in a refund. `Skew` is the service's clock minus the ledger's: the code
compares the deadline with its own clock, so a service that is ahead reveals a book
which still grows; what it proves then must not settle. `Prove` uses the outcome of
`VickreySelection` in one step; that module models its loops.

### CreationFlow, StorageLifetime, MerkleWhitelist

`form` is the editor's list, `run` what a click captured, `stage` the stage of
`runCreate`. `pending` holds transactions that were reported as failed and may
still land within `TX_TIMEOUT`. A root is its list (`RootOf`): the form calls
`register` only with the list the root was computed from, so a root is never
registered with other members here, though the contract would accept it.

`StorageLifetime` counts ledgers and seconds apart: a ledger lasts at least
`SECONDS_PER_LEDGER` (`CadenceAssumption`, the comment on that constant), so time
passes no slower than the extension assumes. `entries[id].until`, `instance` and
`members[r].until` are the last ledgers at which the auction entry, the auction
contract's instance and a registration are alive. `asked` is the lifetime before
the clamp. Restoring an archived entry is not modelled.

`MerkleWhitelist` builds the levels of the tree one by one, takes the path of a
member (the first or the last place of an address listed twice, as the two
callers do), and lets the circuit follow it. `list` is what the tree is built from,
`treePhase` where a tree and the check of one member stand.

### CommandLineProver

`books`, `roots` and `settledWith` are the contract's side of the auctions.
`files[t][kind]` are the files of a terminal, `build` the directory
`circuits/build` all terminals of a checkout share, `step` where a terminal's
`prove.sh` stands between witness and proof. Every tool overwrites its own file
or leaves it as it was. `BuildInput` writes the input and then the meta; the
second write may fail. `BuildSettleBundle` merges whatever arguments, meta and
auction id it finds.

### Faucet and TokenBucket

`press[r]` is one press of the button: wallet, process, step, and the times it arrived
and was answered (`dateNow`). Closing the dialog resets it, so presses overlap. The
standalone process and the serverless function follow the same steps; only the second
may start afresh (`ColdStart`), which empties `lastGrantMsByAddress`. A mint that is
given up on may land later.

`TokenBucket` counts in units of credit (one unit per unit of time, a request costs
`Cost`), so the arithmetic is exact. `window` and `refused` are history: any stretch
of a client's requests, and the reading of its last refusal.

### AuctionPages and AuctionRoom

`rows` is what ingestion keeps changing while `FetchNextPage` walks with the keyset
cursor `(sort value, id)`. `listAuctions`, `selectVisibleAuctions` are the fallback.
`view` is the tab, the sort and whether a wallet is connected, which together key the
query. `touched` is history: the rows changed since the walk began. Text search, filters by
token and seller, and statistics are left out.

`reads[n]` is a fetch under way, with the route it was sent for: the hook does not
wait for the previous one. `room` is the hook's resource, `body` what the mounted
room keeps (the running settlement, its result, the settlement record), `cache`
the module-level cache of `chain.ts`, `indexed` whether the event service shows
the settlement event yet or no longer. `Leave` and `Enter` remount; `Navigate`
changes the route in place and exists only under `InPlace`. Every link to a room is
on the list and the room links back to `/`, so rooms follow one another in place
only when the browser jumps over several entries of its history (see "Further
divergences").

`Ordered`, the rows in the order of the store, is stated by what it is (`CHOOSE`
of the arrangement in order) rather than by how SQLite sorts.

## 3. Runs

| Run | Question | Bounds |
|---|---|---|
| `outcomes` | does the book determine the outcome, do proofs last, is the contract an auction house? | 1 auction, 3 slots, 7 commitments (prices 0, 1, 2, 3 and out of range, equal prices, one sealed for another auction), rejected listings |
| `pool` | is the shared pool solvent and everyone whole? | 2 auctions out of 3 listings, 2 slots, 2 accounts that sell and bid, lot token of one auction is the payment token of the other, one outage |
| `index_truth` | may the index ever show what is not so, or take back what it showed? | 2 auctions, 2 bidders, 5 calls, 2 pages of 2 events, one skip, one failed sync, one crash |
| `index_converges` | do backfill and sync bring every row up to the chain? | 2 auctions, 1 bidder, 5 calls, `BACKFILL_MAX_ID` 1, lookback 2, one failed sync, one crash |
| `operator` | does only the right outcome settle, and is what the user is told so? | seven parts, below |
| `web` | do listings, storage, limits, faucet, lists and rooms keep their promises? | seven parts, below |
| `liveness` | what must eventually happen? | six parts, below |
| `stranded_deposit` | does "no path may strand funds" hold? It does not. | 1 auction, 2 slots, one receiver that need not recover |
| `retry` | are the failures called "safe to retry" so? They are not. | bids and creations, 2 attempts, funds for 2 |
| `index_skip` | is a skipped auction retried? It is not. | one skip |
| `index_page_bound` | does a sync resume from the last ledger seen? Not past the page bound. | 2 pages of 1 event |
| `index_lot` | does a returned lot show? Not before a restart. | no faults |

The parts of the runs that put instances side by side:

| Run, part | Instance | Bounds |
|---|---|---|
| `operator`, `submission` | `TransactionClient` | all four calls, 2 attempts, window of 2 ticks in 3, 2 slots, 3 polls, 2 poll failures, 1 unrelated transaction, funds for one, one failing argument of a creation and two of a settlement (`Faults`), a token refusing with #11 and no marker (`RefusalCodes`) or for a missing trustline |
| `selection` | `VickreySelection` | 3 slots, 2 bidders, prices 0 to 3 of which 3 is out of range; every combination is an initial state |
| `reveal` | `RevealPipeline` | 3 slots, 2 bidders, demo and custom list, lookback of one tick, refund possible, one failure, somebody at the command line |
| `bad_seals` | `RevealPipeline` | 2 slots, bids that do not open or lie, one failure, the service's clock ahead by one tick |
| `commands` | `CommandLineProver` | 1 auction, 3 slots, 1 terminal, one failed write |
| `checkout` | `CommandLineProver` | 2 auctions of up to 2 bids (`CheckoutBids`), 2 terminals in one checkout, 2 sittings |
| `tree` | `MerkleWhitelist` | depth 2, every list of up to 5 entries over 3 addresses and an invalid text |
| `web`, `creation` | `CreationFlow` | 2 sellers, 2 addresses, 2 presses |
| `storage` | `StorageLifetime` | 2 auctions, lifetimes within and beyond the clamp, ledgers at and slower than the cadence |
| `limit` | `TokenBucket` | 1 client, a clock that may be set back by 3 whenever it has come that far, also repeatedly |
| `faucet` | `Faucet` | 2 presses by 2 wallets on 2 processes, one of them serverless |
| `list` | `AuctionPages` | up to 3 auctions of up to 1 bid, pages of one, 5 changes, every tab and sort, with and without a wallet |
| `room`, `busy_room` | `AuctionRoom` | 2 rooms and 2 overlapping polls; 1 room with bids and a failure |
| `liveness`, `outages_end`, `lot_traps` | `SealedAuction` | 1 auction, 2 slots, 2 outages of 2 tokens and 2 receivers; one outage of the lot token that need not end |
| `submission` | `TransactionClient` | all four calls, 2 attempts |
| `reveal` | `RevealPipeline` | 3 slots, honest seals, two failures, a grace period longer than the run |
| `room`, `rooms` | `AuctionRoom` | a settlement under 2 overlapping polls and a failure; 2 rooms on one route with a failure |

Why the bounds suffice. Three slots are the least with a winner, a clearing
price and a slot that is neither, and with a tie above or below the winner; the
fold and the loops treat every further slot alike. Two auctions are the least
that share a pool; the third listing exists for the saturating grace period. Time
runs to 3: before, at and after the deadline and the unlock time. Prices reach
past `max_price` and past `U64Max`. The theorems below remove the bounds for the
properties they state.

For the index, two auctions with `BACKFILL_MAX_ID` 1 put one within reach of the
backfill and one past it; five calls are enough to create both, bid twice and end one,
or to bid, refund and reclaim, with the boot anywhere among them; a lookback of 2
ledgers is short enough for the first auction to be older than it. One fault of each
kind already comes at every point of a sync, and what a second one would meet is again
a store, a cursor and cleared locals. `MayOutpaceWalk` says whether more events may
await than a walk of `MAX_EVENT_PAGES` brings (12000 in the code). `index_converges`
excludes it, because `index_page_bound` shows what it does, with a walk of 2 pages of
2 events, so that the last page and the bound both come; `index_truth` allows it. The
limit is counted from the ledger the next walk will start at, and from the page a
running one is at (`WalkBringsAll`): the events at the saved ledger are fetched again,
a refund has two, and a limit that forgets them lets the cursor skip events in a run
of ordinary length. All runs assume that a first backfill and the sync after it take
less than the lookback of 100000 ledgers (about six days).

Two attempts are the least in which a retry meets what the first left behind, and
a window that outlasts two failed polls is what lets a transaction land after the
client gave up. Two terminals, two presses, two polls and two sellers are the least that
interleave; each adds nothing but its own state to the others. A tree of depth 2
has both directions at an inner level. A walk over three rows in pages of one has
a row before, at and after every cursor. The number #11 is the one of a Stellar asset
that a bid has a sentence for and no marker; the theorem covers every other number.

The bounds in guards are `MaxAuctions`, `MaxTime`, `LastTick`, `MaxOutages`, `MaxCalls`,
`MaxSkips`, `MaxRefusals`, `MaxCrashes`, `MaxAttempts`, `MaxOthers`, `MaxFaults`,
`MaxPresses`, `MaxLedger`, `MaxClock`, `LastMs`, `MaxBids`, `MaxRows`, `MaxRowBids`,
`MaxChanges`, `MaxFailures`, `MaxVisits`, `MaxSittings`, `MaxWriteFaults` and
`CheckoutBids`, each named where it is declared. Runs set
`CHECK_DEADLOCK FALSE` because bounded clocks run out and pipelines, dialogs and
tools really end.

The properties, beside the type invariants (`PartsTypeOK` is that of all parts of a
run):

* Escrow. `Solvency`: the escrow's balance of every token is exactly the sum of
  what its auctions are owed. `EveryoneWhole`: an account's wealth, escrow
  included, changes only by the announced sales. `AtMostOneOutcome`: at most one
  (slot, price) of a book is provable. `ProofsStayValid`: no step invalidates a
  proof once bidding is over. `GraceHonoured`: no refund before the grace period
  has passed. `ImplementsIdealAuction`: the refinement. `LotsLeaveWhenOutagesEnd`,
  `DepositsReturn`: liveness.
* Selection. `SelectsVickreyOutcome`, `NeverAbortsASettleableAuction`,
  `BundleIsTheOnlyOutcome`: the operator and the circuit agree on every book.
* Reveal. `OnlyTheWholeBookSettles`: what settles is the Vickrey outcome of all bids,
  whatever part of them a reveal saw and whatever bundle was pasted.
  `ShownIsWhatSettled`: the room is told the outcome on chain.
  `SettleableEndsSettled`: liveness.
* Submission. `AnswersAreFinal`: a reported success was applied, a refusal before
  the send never lands, and nothing lands later than one window from any moment
  (`ConfirmedIsOnChain`, `NeverSentNeverLands`, `WaitingOutTheWindowIsEnough`).
  `SentencesNameTheCause`: the sentence shown names a cause that holds when it is
  shown (`Holds`), whatever fails in the call, the auction or its tokens, except the
  unmarked refusals of `ReadAsTheAuctions` (see "Further divergences").
  `SafeToRetry`: settlements and registrations take effect once.
  `SubmissionEnds`: liveness.
* Command line. `InputsAreProvable`: what `build-input` writes has a proof.
  `SittingsSettleTheWholeBook`: a bundle of one sitting is accepted, and however
  files of several were mixed only the outcome of the whole book settles.
* Tree. `PathsProveMembership`: the path of a member is accepted, and over the
  tree's hashes no other is (`MembersProve`, `OnlyMembersProve`).
* Creation. `MembersBehindEveryAuction`: the list behind a root can be read back.
  `BiddersGetTheWindow`: registering first does not eat into the bid window.
* Storage. `NothingNeededIsArchived`: entry, instance and members outlive what
  needs them (`ArchivalBlocksNoOrdinaryAuction`, `MembersReadableAtSettle`).
* Limits and faucet. `BoundedRate`: no stretch of requests gets more than a full
  bucket and what was refilled, however the clock is set. `DoneMeansFunded`: "done"
  is two landed mints and two trustlines. `CooldownIsExact`: a wallet is refused
  only within the cooldown of a grant it was given, and grants in turn are a
  cooldown apart (`RefusedOnlyAfterAGrant`, `GrantsInTurnAreSpaced`).
* Lists and rooms. `WalksAreFaithful`: a row that does not change during a walk is
  listed once, in the promised order (`WalkListsSteadyRowsOnce`,
  `PagesKeepThePromisedOrder`). `BothPathsAgree`: on no tab, with or without a
  wallet, does the fallback show an auction that the indexer's pages lack, and where
  both define a tab and a sort alike (`MeantAlike`) the lists are equal row by row.
  `SummaryIsOfThisAuction`: the winner shown is the one of the auction shown.
  `RoomCatchesUp`: liveness.
* Index. `RowsTellTheTruth`: a row or a recorded bid says only what the chain has.
  `RowsNeverRegress`: no restart or replay takes back a row, an ended status, a
  winner or a counted bid. `ResumesFromLastSeen`: the saved cursor is never past an
  event no page brought. `Converges`: every row agrees with the chain once the
  chain rests.

### The findings

`stranded_deposit` fails. `refund_all` pays all deposits with plain transfers in
one invocation (lib.rs:470-472). If one bidder's account cannot receive the
payment token (for a Stellar asset: its trustline is gone), every call reverts,
and so does every `settle` that owes that account something. The comment on the
function says that no path may strand funds (lib.rs:453-454). The lot's leg was
already made independent of the deposits; the deposits are not independent of
each other. `liveness` shows that things do end well when the receiver recovers.

`retry` fails. A `sendTransaction` that throws is reported as `rpc_unreachable`
(transactions.ts:135), although the node may have the transaction. The sentences
say "Your bid is safe to retry" (errors.ts:89) and "Creating the auction is safe to
retry" (errors.ts:226); a retry seals a fresh commitment, or lists again, and the
first attempt lands as well: two deposits, or two lots, in escrow. `SafeToRetry`
shows that settlements and registrations may indeed be retried, and
`WaitingOutTheWindowIsEnough` that a bidder who first waits for the window knows.

`index_skip` fails. A read that fails during backfill or while a created event is
applied is "skipped (retry later)" (ingest.ts:29), but nothing retries it: the loop
goes on, the cursor moves past the event, and later events about the auction
update no row. Only a restart reads it, and only up to `BACKFILL_MAX_ID`.

`index_page_bound` fails. A walk that ends at the page bound saves the chain's
latest ledger as the cursor (ingest.ts:145), where the comment says that the last
ledger seen is (ingest.ts:144); the events between are never applied.

`index_lot` fails. A refund that returns the lot publishes `auction_refunded`
alone, and `markRefunded` does not set `lot_reclaimed`, so the row contradicts the
contract's field (lib.rs:88) until a restart's backfill reads the auction again.

### Further divergences

These comments say more than the code does. The models contain the behaviour, no
run asks for it, and the properties above are stated with the conditions that
exclude it.

* `PlaceBidDialog.tsx:258` says "The bid did not land" also of a confirmation
  that only timed out: the bid may have landed or land later (`Poll` in
  `TransactionClient`). Hence `ConfirmedIsOnChain` has no converse.
* `contracts/auction/src/lib.rs:260-262` says that archival cannot block `settle`
  or `refund_all`; the clamp at 266-267 lets an auction longer than
  `MAX_TTL_EXTENSION_LEDGERS` outlive its entry. Hence "ordinary" in
  `ArchivalBlocksNoOrdinaryAuction`.
* `contracts/whitelist-registry/src/lib.rs:19` says that a whitelist should outlive
  its auction; `register` returns at line 44 for a known root and extends nothing,
  so a list used again lives as long as its first registration. Hence
  `MembersReadableAtSettle` speaks of auctions that end within the lifetime of the
  registration on record.
* `faucet/src/api.ts:40-41` says one grant per address and cooldown; two overlapping
  requests both pass the check, which is recorded after the mints (line 152). Hence
  "in turn" in `GrantsInTurnAreSpaced`.
* `indexer/src/store.ts:54` calls the rank multiplier larger than any deadline;
  `create_auction` accepts any `u64`, and a larger deadline sorts after the ended
  auctions (line 57). `ListAssumption` therefore keeps deadlines below it, and
  `PagesKeepThePromisedOrder` is checked and proved under that assumption.
* `web/src/lib/chain.ts:225` says that the list is probed until `AuctionNotFound`;
  the probe ends at any contract error (line 235), also one of `symbol()` of a
  token an auction names, and later auctions are missing without an error. Hence the
  readable symbols in `BothPathsAgree`.
* `useSettlementInfo.ts:10` says that null means the event left the retention
  window; a look-up that comes too early or fails yields the same null, is cached
  (chain.ts:354), and is not repeated. `SummaryIsOfThisAuction` is that at least no
  other auction's settlement is shown. Even that needs a room to be left before
  another is entered: with `InPlace = TRUE` TLC finds it violated, because the body
  of the room (`localSettlement`, `AuctionRoomRoute.tsx`) has no key and outlives a
  change of the route. No link of the application does that, hence
  `InPlace = FALSE` in the run and the hypothesis of the theorem.
* `web/src/lib/errors.ts:97-101` says that markers in the text identify the failures of
  the token leg, and `transactions.ts:220-222` that they must win because the numbers
  overlap. The list has the texts of two failures. A refusal in other words is shown as
  the auction's error of its number: a frozen bidder (#11) reads "This exact commitment
  already exists" (errors.ts:85, 114), a seller whose account goes before the
  simulation (#6) that the grace period must be above zero, and a settlement, which looks for no marker, shows
  whatever number a seller's token gives. Hence the exception `ReadAsTheAuctions` in
  `SentencesNameTheCause`; without it TLC finds the property violated.
* `web/src/hooks/useAuctionsQuery.ts` (the comment in its query) says that the list
  falls back to chain reads when the indexer is down; the two do not mean the same by
  every tab. `?seg=yours` without a wallet lists every auction from the indexer, which
  is asked for no bidder (indexer.ts:136), and none from the chain
  (auctions-list-view.ts:140). The toolbar disables the tab without a wallet
  (AuctionsToolbar.tsx:70-74), but the address bar, or disconnecting on that tab,
  leads there. `live`, `closing` and `awaiting` differ by design (indexer.ts:93-97):
  the indexer has the status and not the clock. Hence `MeantAlike` in the second part
  of `BothPathsAgree`; the first part, that falling back adds nothing, holds everywhere.
* `indexer/src/chain.ts:231-233` says that a walk goes on across empty pages. `PageEnd`
  in `Indexer` fills every page but the last. Short and empty pages bring a walk to
  `MAX_EVENT_PAGES` with fewer events, and it then skips the rest as in
  `index_page_bound`; `~MayOutpaceWalk`, the condition of `ResumesFromLastSeen`, is to
  be read as: no walk reaches the bound.
* `prover/build-settle-bundle.js:6` says that a proof and its meta can never be
  mismatched; the tool compares none of what it merges (from line 59). The
  contract's check is what makes `SittingsSettleTheWholeBook` hold all the same.

## 4. Fairness

Escrow. `refund_all` and `reclaim_lot` can be called by anyone, and those whose
funds are in escrow want to, so a call that stays possible is eventually made:
`Callers` is weak fairness of each, beside that of the clock. Nothing is assumed
of `settle`, which needs the operator's key, nor of `place_bid`. That outages end
(weak fairness of their ends) is assumed only in the part `outages_end`.

Index. `Service` is weak fairness of `Boot` (the service is restarted
after a crash) and of `Ingestion`, the process's own next step: a promise that is
awaited settles and the timer fires. It asks nothing of the contract's callers.
Skips, failed syncs and crashes are not fair and their number is bounded, so they
end; a network that never answers is not a network the index can follow.

Submission. `Fairness` is weak fairness of the awaits the node answers or fails
(account, prepare, send, poll). It says nothing of the wallet, which
may never sign, nor of the ledger, which may never apply.

Reveal. The operator presses the buttons that are enabled and awaits are answered
(`Stepper`), and time passes. Failures are bounded by `MaxFaults` and not fair. It
is checked without the command line: an operator who keeps pasting a bundle the
contract rejects gets nowhere. The conclusion is asked only of books that are
properly sealed, with a winner on a list the stepper can know, and before any refund.

Room. The interval fires and what was sent is answered or fails (`RoomFairness`);
failures are bounded. The user need do nothing.

No strong fairness is used anywhere.

## 5. Proofs

All theorems hold for every value of the constants that meets the named
assumptions, which TLC evaluates in the runs. Every proof of an invariant has the
same shape: an inductive invariant (`IInv`, or named for its component), one lemma
per action that can disturb it, and a temporal last step.

Escrow, from `SlotsAssumption` (at least one slot), `U64Assumption`,
`EscrowAssumption` (the contract is no bidder or seller), `ListingsAssumption`
(arguments have their types), `CommitmentsAssumption` (the empty marker is no
submitted commitment), `PricesAssumption`, `EndowmentAssumption` (the contract
starts with nothing), `BoundsAssumption`, `OutagesAssumption`:

* `TypeCorrect`, `Spec => []TypeOK`. `TypeOK` is inductive as it stands because
  a stored auction's terms are `AcceptedListings`: the checks of `create_auction`
  are what later keeps balances natural numbers, through `winning_price <=
  max_price` in `settle`.
* `PoolIsSolvent`, `Spec => []Solvency`. Inductive relative to `TypeOK`. For each
  call a lemma (`PlaceBidFacts`, `SettleFacts`, ...) shows that it touches one
  auction and moves the escrow by what that auction is owed (`EscrowFollows`);
  `SolvencyKept` turns that into the sum, using `SumUpdate`, and `SumExtend` for a
  new auction. In `SettleFacts` the legs add up because the losing slots are all
  slots but the winner's.
* `OutcomeIsUnique`, `Spec => []AtMostOneOutcome`. A fact of every state: two
  slots that both satisfy the circuit's maximality constraint are equal
  (`WinnerUnique`), and the clearing price is a function of the book and the
  winner (`StatementDetermines`).
* `ProofsNeverGoStale`, `Spec => ProofsStayValid`. No step changes an auction's
  terms, and none changes its bids from the deadline on (`StepFreezesBook`), so
  the signals are the same.
* `RefundsWaitForGrace`, `Spec => []GraceHonoured`. Only `refund_all` makes an
  auction `Refunded`, at a time past the saturated sum; terms are frozen and the
  clock does not turn back.
* `EveryAccountIsWhole`, `Spec => []EveryoneWhole`. As for solvency, now per
  account and token: every call moves an account's balance and its claim on one
  auction by what that auction's sale moves (`WealthFollows`), and `WholeKept`
  carries that into the two sums. `ClaimFacts` computes claims and trades by
  status; the cases where one account is seller and winner, or where lot and
  payment are the same token, add up rather than being told apart.
* `ContractIsTheIdealAuction`, `Spec => ImplementsIdealAuction`. The mapping is
  stated once per auction and without variables (`View`), so that each call has one
  lemma about one lot (`BidRefines`, `SettleRefines`, ...) and `OneLotChanges` puts
  it back among the others. `ProofIsFairSale` is the core: what `verify` accepts
  over the stored bids is a fair sale, by `CircuitIsVickrey`, also when commitments
  open elsewhere or out of range. Beside `TypeOK` it needs that no book outgrows
  the circuit (`BooksFit`), since a bid without a slot is in no proof. The proof
  fixed the model in one place: without the `u64` range of a listing's deadline, an
  auction could end past the last value of the clock and no house would close it.

Circuit and selection, from `SlotsAssumption`, `U64Assumption`,
`EmptyAssumption` (the empty marker is no commitment) and `SelectionAssumption`
(`PriceBound` is a natural number):

* `CircuitIsVickrey`. The fold of the circuit is a recursive function, so
  `FoldHoldsMaximum` shows by `SetInduction` that whatever satisfies its recursion
  holds the maximum of every prefix, and `FoldExists` that something does.
* `SelectionTypeCorrect`, `LoopsSelectVickreyOutcome`, `AbortsAreRight`,
  `BundleIsUnique`. `SelectionInv`, the loop invariant, says what the first loop knows
  of the slots before `slotIndex` (`WinnerSoFar`: the highest price and that it is
  strictly above every earlier one) and what the second does (`BestRivalBelow`). That
  an abort is right is an invariant of its own: from the phase in which the loops gave
  up, `NothingProvable` of any winner and price.

Reveal and settlement, from the same and `RevealAssumption`, which says what the
comments at the constants of `RevealPipeline` say (prices fit `u64` and are not 0, the
lists are of accounts):

* `PipelineTypeCorrect`, `WholeBookSettles`, `ShownOutcomeIsOnChain`,
  `BundlesAreProven`. What carries them (`PipelineInv`) is that every bundle in the
  stepper, on its way or handed out has a proof (`Sound`), whatever part of the book
  it was made of (`ProvenIsSound`); the contract rebuilds the signals from its own
  storage, so an accepted bundle proves the whole book (`AcceptedIsRight`).

Index, from `ContractAssumption`, `IndexerAssumption` and `NullAssumption`:

* `IndexTellsTheTruth`, `Spec => []RowsTellTheTruth`. The property is
  not inductive: it says nothing of events not yet applied or of an auction read
  and not yet stored. `IInv` adds that every logged event says what is so
  (`LogHolds`), that what was read is an earlier state of the auction it will be
  stored under (`ReadInv`), and that bids are recorded once per slot, which bounds
  the counted ones (`BookIsSmall`). The core is `Later`: the contract never takes
  back an end, a returned lot or a bid, so a fact stays a fact however late it is
  applied (`HoldsStays`, `RowHoldsStays`, `BookHoldsStays`).
* `RowsStay`, `Spec => RowsNeverRegress`. A row could be taken back by a late read,
  by an older event, or by a recount. `HistoryInv` excludes each: the auction that
  is read has the end its row already shows, for only the process writes the row
  (`ReadIsFresh`); all settlements of an auction have one winner (`OneWinner`),
  because a settlement is published only while the auction is open; and a row
  counts no more bids than are recorded (`Counted`), which only grow.
* `CursorSkipsNothing`, `~MayOutpaceWalk |- Spec => ResumesFromLastSeen`. `CursorInv`
  says that a finished walk leaves nothing before the ledger it will save
  (`WalkIsComplete`), that a walk has pages for what still awaits
  (`WalkBringsAll`), and that no ledger remembered is later than the chain's
  (`LedgersKnown`), so that what is published is never before one. The hypothesis
  is necessary: `index_page_bound` violates the property without it.
* `IndexTypeCorrect`, `Spec => []TypeOK`, needs all of the above: the recorded bids
  fit because the chain has them and its books fit (`BooksFit`).

Submission, from `CallsAssumption`, `LimitsAssumption` and `ErrorsAssumption` (the
numbers are natural, a refusal's is not 0):

* `SentencesAreTrue`, `Spec => SentencesNameTheCause`. A sentence with a cause comes
  from the error of one simulation, so it is named in the state it is shown in
  (`RejectionIsNamed`). Either the auction's check of that number failed
  (`AuctionErrorIsNamed`, case by case over the four calls), or the token refused with
  a marker, or with a number the flow has no sentence for, or it is the exception
  (`TransferErrorIsNamed`). All other outcomes say nothing of a cause
  (`NeutralHolds`, `ShownHolds`). The set of unmarked numbers is a parameter, so the
  theorem covers every token.
* `TypeCorrect`, `SuccessIsOnChain`, `NothingWasSent`, `FailuresBecomeFinal` (the
  three together: `AnswersBecomeFinal`) and `RetriesTakeEffectOnce` all follow from
  `ClientInv`. It adds to `TypeOK`: where an attempt can stand in each stage and that
  later attempts have left no trace (`Progress`); that a node holds at most what one
  attempt built, with a verdict still open (`OneEach`); what an answer already given
  says of the ledger (`Told`); that held transactions expire within a window
  (`InWindow`); and that a call which is the same on every attempt took effect at most
  once (`Once`), because its second application is rejected or changes nothing.
  `ApplyKeeps` is the core: a transaction may be applied in any stage of any later
  attempt.

Request limit, from `BucketAssumption`:

* `BucketTypeCorrect`, `RateIsBounded`, `RetryAfterIsEnough`. `BucketInv` says that
  the credit spent in any stretch of requests plus what is left is at most a full
  bucket and what the readings since its start earned (`Earned`), and, on a clock that
  is not set back, that readings only grow (`Monotone`). `WaitingIsEnough` (a refused
  client that waits as long as the refusal says is admitted) is stated for such a
  clock and is proved only, not run. `RateIsBounded` needs no such clock: what a step
  back takes away is at least what its way forward earns again.

Storage, from `LifetimeAssumption` and `CadenceAssumption`:

* `StorageTypeCorrect`; `OrdinaryAuctionsStayReadable` and `MembersStayReadable`,
  together `NothingIsArchivedEarly`. `Earliest(l)` is the
  earliest time at which ledger `l` can have passed. `StorageInv` says that for every
  entry, instance and registration this time is past what was asked for at
  creation (`Lasting`, `MembersLast`); closing a ledger moves the clock by at
  least what it moves `Earliest` (`LedgerKeeps`). `Quotient` is what the day of
  margin is for: the division in `lifetime_ledgers` rounds down.

Creation, from `DemoAssumption` and `TimesAssumption`:

* `MembersAreBehindEveryAuction`. `FlowInv` says that registrations, also those on
  their way, are of a list under its own root, and that the list of every auction
  created, or about to be, is registered or the demo list. `LandKeeps` covers a
  registration reported as failed that lands later.
* `WindowIsKept`, `Spec => []BiddersGetTheWindow`. What has to be known of a
  transaction still on its way is that it is valid and when it was built
  (`OnItsWay`), since the deadline it asks for was computed then.
* `FlowTypeCorrect`. `FlowTypes` adds what `TypeOK` leaves open: transactions on
  their way and runs past the form name lists with members, so that what lands
  later is a well-formed auction or registration.

Command line, from the circuit's assumptions and `CommandAssumption` (auctions are
numbers, prices fit `u64` and are not 0):

* `CommandTypeCorrect`, `WrittenInputsAreProvable`, `WholeBooksSettle`. No invariant
  on the present state says where a file comes from, since the fetch it was made of
  may be overwritten. `CommandInv` says that there is a document `doc[s]` of every fetch
  `s` (`OfFetches`) such that every file of every terminal, and what lies in the
  shared build directory, is what its tool makes of one of them (`FileOf`,
  `BuildOf`), a bundle of two (`BundleOf`: the meta of one, the proof of another).
  What was fetched stays true of books that only grow (`FetchesStand`), so each tool
  has one lemma (`BuildInputKeeps`, `ProveKeeps`, ...). `FirstPassIsRight` and
  `SecondPassIsRight` show that the JavaScript passes are the reference definition,
  hence `InputIsProvable`; `AcceptedIsOutcome` that what the contract accepts proves the
  book it stores, from wherever the parts came; `UndisturbedSettles` that a bundle
  of one undisturbed sitting is accepted.

Whitelist tree, from `TreeAssumption` (at least one level):

* `TreeTypeCorrect`, `PathsProve`. `TreeInv` says of every level built that it is
  half as wide as the one below and each node the hash of its two (`LevelsInv`), and
  that a path follows the places above the member's (`Way`). That a member's path is
  accepted climbs the levels (`LevelNodeClimbs`). That nothing else is goes down:
  Poseidon is injective, so a node of the tree was made of the two nodes below it
  only (`PlaceBelow`), and from the root downwards the bits of an accepted path spell a
  place of the list (`AcceptedIsMember`). The arithmetic of powers of two is
  `PowersOfTwo`, by an induction on sets of numbers as for the sums, and `HalvesDivide`.

Lists, from `ListAssumption`:

* `ListTypeCorrect`, `PagesAreFaithful`, `FallbackShowsTheSame`. `ListInv` says that
  the cursor is the boundary of the walk: of the rows that did not change, those before
  it are on the pages and those past it are not (`CompleteInv`), in the order of
  the view (`ListedInv`). `FetchNextPageKeeps` carries it over a page,
  `ChangeKeeps` over whatever ingestion writes in between. The order is total
  (`KeysAreOrdered`), so a set of rows has one arrangement
  (`ArrangementExists`, `ArrangementIsUnique`) and a page is its beginning
  (`QueryFacts`). What the browser shows of its probe satisfies the query on every tab
  (`VisibleIsSelected`), so a quiet walk has brought it; where both mean the same, the
  fallback's list is the arrangement of the same rows.

Faucet, from `FaucetAssumption`:

* `FaucetTypeCorrect`, `DoneIsFunded`, `CooldownHolds`. `FaucetInv` says what every
  press has behind it at each step (`Behind`); that every grant a process remembers
  was given (`MemoryIsTrue`), and that a process that is not restarted remembers every
  grant it gave, or a later one (`MemoryIsWhole`). The spacing of grants in turn is
  not inductive, since the cooldown is checked on arrival and the grant recorded after
  the mints: `AdmittedInTurnAreSpaced` states it from the moment a press is let in.

Room, from `RoomAssumption` and for `~InPlace`:

* `RoomTypeCorrect`, `RoomShowsItsAuction`. `RoomInv` says that everything under way
  is of the route's auction (`RouteInv`), and that every winner cached, looked up or
  submitted is the chain's (`RecordInv`), which stays so because a settlement is final
  (`WinnersStay`). An answer served earlier may show an older state of the auction
  and not another auction.

The laws of the sum are proved from its recursive definition in
`AuctionWinnerProofs`. The sum is a recursive function, so existence and uniqueness
of what it denotes are proved first, by an induction over sets (`SetInduction`) drawn
from the well-foundedness of strict subsets.

Only model-checked. Liveness, ENABLED and what recursive definitions compute for every
input are outside the prover's reach: `Converges` and the properties of the `liveness`
run. `PartsTypeOK` is the conjunction of the types of all parts of `operator` or
`web`, the instances included; the type invariant of each component is proved, the
conjunction over the parts of a run is not, for it says nothing of the code. Every
other invariant and action property that a passing run checks is a theorem.

## 6. Not modelled

* Commitments as field elements: the contract compares 256-bit integers, the
  proof reads them modulo the field. Poseidon is injective in the models, and two
  residues that coincide cannot occur among small numbers.
* The pairing arithmetic of the verifier, the bytes of addresses, proofs and
  XDR: data without control.
* Sealing a bid (`crypto.ts`, `make-bid.js`): pure functions, abstracted to the
  commitment record and to `seal`.
* What the RPC server answers to a start ledger it no longer keeps
  (ingest.ts:135): its answer is not in the repository.
* Restoring archived entries; the list's text search, its filters by token and
  seller, statistics; balances.
* Rendering, formatting, animation; deployment and demonstration scripts.

## 7. What is left

The components with logic of their own are modelled, some in part (`PROJECT.json`
says which and why), and every safety property of the passing runs is proved but
`PartsTypeOK`. What could be added:

* the reading side of the index: filters by token and seller, and the text search;
* an abstract specification of the index (the chain's auctions, read late) which
  `Indexer` implements, beside the invariants that say so now;
* `RoomShowsItsAuction` without `~InPlace`, should the body of the room get a key.
