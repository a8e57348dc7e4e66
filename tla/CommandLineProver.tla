-------------------------- MODULE CommandLineProver --------------------------
(***************************************************************************)
(* The operator's command-line pipeline (prover/*.js and circuits/scripts/ *)
(* prove.sh): bid events to decrypted bids, circuit input and settle meta, *)
(* proof, contract arguments, bundle.  Each tool reads the files of the    *)
(* one before it and overwrites its own; a tool that fails leaves its file *)
(* as it was.  Every terminal has its own working files, but prove.sh      *)
(* writes witness, proof and public signals to one place in the checkout.  *)
(***************************************************************************)
EXTENDS AuctionWinner, Sequences

CONSTANTS
    Auctions,
    Senders,
    SealedPrices,   \* prices bids are sealed with, in 1..U64Max
    BidSeals,       \* "opens": the ciphertext opens to the committed bid
    MemberLists,    \* whitelists the operator may have built
    Terminals,
    NoFile,
    MaxSittings,    \* bound: fetches of the bid events
    MaxWriteFaults  \* bound: writes that fail

ASSUME CommandAssumption == Auctions \subseteq Nat /\ SealedPrices \subseteq 1..U64Max

VARIABLES
    books,          \* auction -> its bids, in slot order
    roots,          \* auction -> its whitelist root
    settledWith,    \* auction -> what it was settled with, or NoFile
    sittings,       \* history: fetches made
    writeFaults,
    files,          \* terminal -> kind -> file
    step,           \* terminal -> where its prove.sh stands
    build           \* circuits/build: witness and proof, with what they are of

contractVars == <<books, roots, settledWith>>
commandVars == <<contractVars, sittings, writeFaults, files, step, build>>

FileKinds == {"events", "decrypted", "whitelist", "input", "meta", "args", "bundle"}

Write(t, kind, file) == files' = [files EXCEPT ![t][kind] = file]
Has(t, kind) == files[t][kind] # NoFile

-----------------------------------------------------------------------------
(* The chain.                                                              *)

BidCommitment(a, slot, bid) == Poseidon3(bid.price, slot, a)

BidArrives(a) ==
    /\ settledWith[a] = NoFile /\ Len(books[a]) < MaxBidSlots
    /\ \E x \in Senders, p \in SealedPrices, s \in BidSeals :
          books' = [books EXCEPT ![a] = Append(@, [bidder |-> x, price |-> p, seal |-> s])]
    /\ UNCHANGED <<roots, settledWith, sittings, writeFaults, files, step, build>>

\* settle: the signals are rebuilt from storage; the proof must be of them.
ContractAccepts(b) ==
    LET a == b.auctionId IN
    /\ b.winnerIndex \in DOMAIN books[a]
    /\ books[a][b.winnerIndex].bidder = b.winnerAddress
    /\ b.proves = [auctionId      |-> a,
                   commitments    |-> [i \in Slots |-> IF i \in DOMAIN books[a]
                                                       THEN BidCommitment(a, i, books[a][i])
                                                       ELSE EmptyCommitment],
                   winnerIndex    |-> b.winnerIndex,
                   winningPrice   |-> b.winningPrice,
                   whitelistRoot  |-> roots[a],
                   winnerAddrHash |-> b.winnerAddress]

\* The bundle is pasted in the room of the auction it names.
Settle(t) ==
    /\ Has(t, "bundle")
    /\ LET b == files[t].bundle IN
       /\ settledWith[b.auctionId] = NoFile /\ ContractAccepts(b)
       /\ settledWith' = [settledWith EXCEPT ![b.auctionId] =
                          [winnerIndex |-> b.winnerIndex, winningPrice |-> b.winningPrice]]
    /\ UNCHANGED <<books, roots, sittings, writeFaults, files, step, build>>

-----------------------------------------------------------------------------
(* The tools.                                                              *)

\* build-whitelist: the root is of the members as they were given.
BuildWhitelist(t) ==
    /\ \E m \in MemberLists : Write(t, "whitelist", m)
    /\ UNCHANGED <<contractVars, sittings, writeFaults, step, build>>

\* fetch-bid-events: from the start ledger the operator gives, up to where the
\* page bound or the index ends; sorted by slot.
FetchBidEvents(t, a) ==
    /\ sittings < MaxSittings /\ sittings' = sittings + 1
    /\ \E first \in 1..Len(books[a]) + 1, last \in 0..Len(books[a]) :
          Write(t, "events", [auctionId |-> a, sitting |-> sittings + 1,
                              bids |-> [i \in first..last |-> books[a][i]]])
    /\ UNCHANGED <<contractVars, writeFaults, step, build>>

\* operator-decrypt: every bid opens to its commitment, or nothing is written.
OperatorDecrypt(t) ==
    /\ Has(t, "events")
    /\ \A i \in DOMAIN files[t].events.bids : files[t].events.bids[i].seal = "opens"
    /\ Write(t, "decrypted", files[t].events)
    /\ UNCHANGED <<contractVars, sittings, writeFaults, step, build>>

PaddedPrices(bids) == [i \in Slots |-> IF i \in DOMAIN bids THEN bids[i].price ELSE 0]

\* selectVickreyOutcome: two passes over the slots.
WinnerIndexFaulty(price) ==
    LET best[i \in 0..MaxBidSlots] ==
            IF i = 0 THEN [index |-> 0, price |-> -1]
            ELSE IF price[i] >= best[i - 1].price THEN [index |-> i, price |-> price[i]]
            ELSE best[i - 1]
    IN  best[MaxBidSlots].index
WinnerIndex(price) ==
    LET best[i \in 0..MaxBidSlots] ==
            IF i = 0 THEN [index |-> 0, price |-> -1]
            ELSE IF price[i] > best[i - 1].price THEN [index |-> i, price |-> price[i]]
            ELSE best[i - 1]
    IN  best[MaxBidSlots].index

ClearingPrice(price, winner) ==
    LET best[i \in 0..MaxBidSlots] ==
            IF i = 0 THEN 0
            ELSE IF i # winner /\ price[i] > best[i - 1] THEN price[i] ELSE best[i - 1]
    IN  best[MaxBidSlots]

CircuitInput(doc, members) ==
    LET price == PaddedPrices(doc.bids)
        winner == WinnerIndex(price)
    IN  [sitting |-> doc.sitting,
         signals |-> [auctionId      |-> doc.auctionId,
                      commitments    |-> [i \in Slots |-> IF i \in DOMAIN doc.bids
                                             THEN BidCommitment(doc.auctionId, i, doc.bids[i])
                                             ELSE EmptyCommitment],
                      winnerIndex    |-> winner,
                      winningPrice   |-> ClearingPrice(price, winner),
                      whitelistRoot  |-> members,
                      winnerAddrHash |-> doc.bids[winner].bidder],
         prices  |-> price,
         salts   |-> [i \in Slots |-> IF i \in DOMAIN doc.bids THEN i ELSE 0]]

SettleMetaFaulty(doc) ==
    LET price == PaddedPrices(doc.bids)
        winner == WinnerIndex(price)
    IN  [sitting |-> doc.sitting, auctionId |-> doc.auctionId, winnerIndex |-> winner,
         winningPrice |-> price[winner], winnerAddress |-> doc.bids[winner].bidder]
SettleMeta(doc) ==
    LET price == PaddedPrices(doc.bids)
        winner == WinnerIndex(price)
    IN  [sitting |-> doc.sitting, auctionId |-> doc.auctionId, winnerIndex |-> winner,
         winningPrice |-> ClearingPrice(price, winner),
         winnerAddress |-> doc.bids[winner].bidder]

HasOutcome(doc, members) ==
    LET price == PaddedPrices(doc.bids) IN
    /\ DOMAIN doc.bids # {}
    /\ ClearingPrice(price, WinnerIndex(price)) > 0
    /\ doc.bids[WinnerIndex(price)].bidder \in members

\* build-input: the input is written, then the meta; the second write may fail.
BuildInput(t) ==
    /\ Has(t, "decrypted") /\ Has(t, "whitelist")
    /\ LET doc == files[t].decrypted
           members == files[t].whitelist
           written == [files EXCEPT ![t].input = CircuitInput(doc, members)]
       IN  /\ HasOutcome(doc, members)
           /\ \/ /\ files' = [written EXCEPT ![t].meta = SettleMeta(doc)]
                 /\ UNCHANGED writeFaults
              \/ /\ writeFaults < MaxWriteFaults /\ writeFaults' = writeFaults + 1
                 /\ files' = written
    /\ UNCHANGED <<contractVars, sittings, step, build>>

\* prove.sh: the witness first, which only a satisfied circuit has ...
GenerateWitness(t) ==
    /\ step[t] = "shell" /\ Has(t, "input")
    /\ LET in == files[t].input IN
       /\ WinnerStatement(in.signals, in.prices, in.salts)
       /\ build' = [build EXCEPT !.witness = in]
    /\ step' = [step EXCEPT ![t] = "witness"]
    /\ UNCHANGED <<contractVars, sittings, writeFaults, files>>

\* ... then the proof of whatever witness is there, which verifies locally.
Groth16Prove(t) ==
    /\ step[t] = "witness"
    /\ build' = [build EXCEPT !.proof = [sitting |-> build.witness.sitting,
                                         proves  |-> build.witness.signals]]
    /\ step' = [step EXCEPT ![t] = "shell"]
    /\ UNCHANGED <<contractVars, sittings, writeFaults, files>>

\* format-args: the proof and the public signals, re-encoded.
FormatArgs(t) ==
    /\ step[t] = "shell" /\ build.proof # NoFile
    /\ Write(t, "args", build.proof)
    /\ UNCHANGED <<contractVars, sittings, writeFaults, step, build>>

\* build-settle-bundle: the auction is the one typed on the command line.
BuildSettleBundle(t, a) ==
    /\ Has(t, "args") /\ Has(t, "meta")
    /\ LET m == files[t].meta IN
       Write(t, "bundle", [sitting |-> IF files[t].args.sitting = m.sitting /\ m.auctionId = a
                                       THEN m.sitting ELSE 0,
                           auctionId |-> a, winnerIndex |-> m.winnerIndex,
                           winningPrice |-> m.winningPrice, winnerAddress |-> m.winnerAddress,
                           proves |-> files[t].args.proves])
    /\ UNCHANGED <<contractVars, sittings, writeFaults, step, build>>

-----------------------------------------------------------------------------
CommandInit ==
    /\ books = [a \in Auctions |-> <<>>]
    /\ roots \in [Auctions -> MemberLists]
    /\ settledWith = [a \in Auctions |-> NoFile]
    /\ sittings = 0 /\ writeFaults = 0
    /\ files = [t \in Terminals |-> [k \in FileKinds |-> NoFile]]
    /\ step = [t \in Terminals |-> "shell"]
    /\ build = [witness |-> NoFile, proof |-> NoFile]

CommandNext ==
    \/ \E a \in Auctions : BidArrives(a)
    \/ \E t \in Terminals :
          \/ BuildWhitelist(t) \/ OperatorDecrypt(t) \/ BuildInput(t)
          \/ GenerateWitness(t) \/ Groth16Prove(t) \/ FormatArgs(t) \/ Settle(t)
          \/ \E a \in Auctions : FetchBidEvents(t, a) \/ BuildSettleBundle(t, a)

CommandSpec == CommandInit /\ [][CommandNext]_commandVars

-----------------------------------------------------------------------------
(* Properties.                                                             *)

\* The files have their form, and a file never says it is of a sitting that was
\* not held.
CommandTypeOK ==
    /\ \A a \in Auctions : Len(books[a]) \in 0..MaxBidSlots
    /\ step \in [Terminals -> {"shell", "witness"}]
    /\ \A t \in Terminals :
          /\ step[t] = "witness" => build.witness # NoFile
          /\ \A k \in FileKinds \ {"whitelist"} : Has(t, k) => files[t][k].sitting \in 0..sittings
          /\ Has(t, "bundle") => files[t].bundle.auctionId \in Auctions

\* Whatever build-input writes satisfies the circuit: a run that gets past it is
\* never stopped at the witness.
InputsAreProvable ==
    \A t \in DOMAIN files : Has(t, "input") =>
        LET in == files[t].input IN WinnerStatement(in.signals, in.prices, in.salts)

\* A bundle whose files all come from one fetch settles its auction, if that
\* fetch had the whole book and the whitelist was the auction's own, whatever
\* other terminals did to the checkout in between.
OneSittingSettles ==
    \A t \in DOMAIN files : Has(t, "bundle") =>
        LET b == files[t].bundle IN
        /\ b.sitting # 0
        /\ b.proves.whitelistRoot = roots[b.auctionId]
        /\ \A i \in Slots : b.proves.commitments[i] # EmptyCommitment <=>
                            i \in DOMAIN books[b.auctionId]
        => ContractAccepts(b)

\* What settles is the Vickrey outcome of the whole book, however the files were
\* mixed up on the way.
OnlyWholeBooksSettle ==
    \A a \in DOMAIN settledWith : settledWith[a] # NoFile =>
        LET price == PaddedPrices(books[a]) IN
        /\ IsVickreyWinner(price, settledWith[a].winnerIndex)
        /\ IsClearingPrice(price, settledWith[a].winnerIndex, settledWith[a].winningPrice)

\* A sitting that nobody disturbed settles its auction, and nothing but the
\* outcome of the whole book ever does.
SittingsSettleTheWholeBook == OneSittingSettles /\ OnlyWholeBooksSettle
=============================================================================
