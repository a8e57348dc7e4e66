------------------------- MODULE TransactionClient -------------------------
(***************************************************************************)
(* The write path of the web application, web/src/lib/transactions.ts, and *)
(* the dialogs that retry it: one wallet with one intent (a bid, a new     *)
(* auction, a settlement, a whitelist registration), which it attempts     *)
(* again after every failure.  An attempt builds a transaction on the      *)
(* account's sequence number, simulates it, has the wallet sign it, sends  *)
(* it and polls for its status; each await is a step, so the ledger, the   *)
(* other bidders and the clock move between any two of them.               *)
(*                                                                         *)
(* The ledger is external: it applies a transaction at most once, on the   *)
(* next sequence number of the account and within the validity window.     *)
(***************************************************************************)
EXTENDS Integers, Sequences, SequencesExt

CONSTANTS
    Calls,                  \* the intents checked, members of AllCalls
    TX_TIMEOUT,             \* the validity window, in ticks
    CONFIRM_POLL_LIMIT,
    POLL_FAILURE_LIMIT,     \* consecutive failed polls tolerated, plus one
    MAX_BID_SLOTS,
    Funds,                  \* deposits or lots the wallet covers at first
    Faults,                 \* numbers of the checks the arguments may fail
    RefusalCodes,           \* numbers in a token's refusals without a marker
    MaxAttempts,            \* bound: attempts at the intent
    MaxOthers,              \* bound: unrelated transactions of the account
    MaxTime                 \* bound: the last tick

AllCalls == {"place_bid", "create_auction", "settle", "register"}

ASSUME CallsAssumption == Calls \subseteq AllCalls
ASSUME LimitsAssumption ==
    /\ TX_TIMEOUT \in Nat /\ MAX_BID_SLOTS \in Nat /\ Funds \in Nat
    /\ CONFIRM_POLL_LIMIT \in Nat \ {0} /\ POLL_FAILURE_LIMIT \in Nat \ {0}
    /\ MaxAttempts \in Nat \ {0} /\ MaxOthers \in Nat /\ MaxTime \in Nat
ASSUME ErrorsAssumption == Faults \subseteq Nat /\ RefusalCodes \subseteq Nat \ {0}

VARIABLES
    call,       \* the intent
    now,        \* time, as the validity window measures it
    sequence,   \* the account's sequence number on the ledger
    network,    \* transactions some node holds and may still apply
    verdict,    \* attempt -> what getTransaction can say of it
    effects,    \* attempts whose invocation took effect, in ledger order
    taken,      \* slots of the auction other bidders hold
    closed,     \* bidding is over (place_bid), someone else settled (settle)
    fault,      \* the number of the check the call's arguments fail, or 0
    refusal,    \* what a token answers the transfer, the amount aside
    others,     \* unrelated transactions of the account so far
    attempt,    \* the number of the latest attempt, 0 before the first
    stage,      \* what the attempt awaits
    tx,         \* the transaction built
    polls,
    consecutivePollFailures,
    outcome     \* attempt -> how submitInvocation answered, and what was shown

ledgerVars == <<sequence, network, verdict, effects, others>>
worldVars  == <<call, taken, closed, fault, refusal>>
clientVars == <<attempt, stage, tx, polls, consecutivePollFailures, outcome>>
vars       == <<now, ledgerVars, worldVars, clientVars>>

Attempts == 1..MaxAttempts
Times == 0..(MaxTime + TX_TIMEOUT)
Transaction == [attempt : Attempts, seq : Nat, validUntil : Times]

Stages == {"idle", "account", "prepare", "sign", "send", "poll"}
Kinds == {"none", "ok", "account_missing", "rpc_unreachable", "prepare_failed",
          "wallet_declined", "submission_failed"}
Shown == {"none", "ok", "rpc_unreachable", "wallet_declined", "submission_failed",
          "deadline_passed", "slots_full", "duplicate_commitment", "deposit_uncovered",
          "lot_uncovered", "lot_not_positive", "price_not_positive", "price_too_large",
          "deadline_not_future", "grace_zero", "deadline_not_reached", "already_finalized",
          "winner_index_invalid", "price_exceeds_max", "winner_mismatch", "proof_invalid",
          "verifier_failed"}

NothingYet == [kind |-> "none", shown |-> "none"]

-----------------------------------------------------------------------------
(* What the contracts answer.  An error reaches the client as a text with  *)
(* a number in it.  A token's has a number of the token's, which overlap   *)
(* the auction's; the words of two of them are known to the client, a      *)
(* balance too small and a missing trustline.  An account may be frozen by *)
(* the issuer (#11, or #6 for an account that is gone), and a token that a *)
(* seller brings refuses with any number it likes.                         *)

LotAmountNotPositive == 2
MaxPriceNotPositive == 3
MaxPriceExceeds64Bits == 4
DeadlineNotInFuture == 5
GracePeriodZero == 6
AlreadySettled == 7
AlreadyRefunded == 8
BidAfterDeadline == 9
BidsFull == 10
DuplicateCommitment == 11
SettleBeforeDeadline == 14
WinnerIndexOutOfRange == 15
WinningPriceNotPositive == 16
WinningPriceExceedsMax == 17
WinnerAddressMismatch == 18
ProofInvalid == 19
VerifierCallFailed == 20

NoError == [marker |-> FALSE, code |-> 0]
ContractError(code) == [marker |-> FALSE, code |-> code]
BalanceError == [marker |-> TRUE, code |-> 10]
TrustlineMissing == [marker |-> TRUE, code |-> 13]
Refusals == {NoError, TrustlineMissing} \cup [marker : {FALSE}, code : RefusalCodes]

\* The checks of the arguments.  The client makes those of a bid pass: the salt
\* is fresh on every attempt and the ciphertext has one length.
ArgumentChecks(c) ==
    CASE c = "create_auction" -> LotAmountNotPositive..GracePeriodZero
      [] c = "settle" -> SettleBeforeDeadline..VerifierCallFailed
      [] OTHER -> {}

SlotsFull == taken + Len(effects) >= MAX_BID_SLOTS
Short == Len(effects) >= Funds
Uncovered == Short \/ refusal = TrustlineMissing

\* The first check of the auction that fails in the present state of the ledger.
AuctionError ==
    IF call = "place_bid" /\ closed THEN ContractError(BidAfterDeadline)
    ELSE IF call = "place_bid" /\ SlotsFull THEN ContractError(BidsFull)
    ELSE IF call = "settle" /\ (closed \/ effects # <<>>) THEN ContractError(AlreadySettled)
    ELSE ContractError(fault)

\* The deposit, the lot, the payouts of a settlement (which the escrow covers).
TransferError ==
    IF refusal # NoError THEN refusal
    ELSE IF call # "settle" /\ Short THEN BalanceError
    ELSE NoError

\* The error of invoking the call: the registry's register has none.
Rejection ==
    IF call = "register" THEN NoError
    ELSE IF AuctionError # NoError THEN AuctionError
    ELSE TransferError

\* register succeeds again for a known root and changes nothing.
EffectiveFaulty == Rejection = NoError
Effective == Rejection = NoError /\ ~(call = "register" /\ (closed \/ effects # <<>>))

-----------------------------------------------------------------------------
(* What the user is shown: the maps from failures to each flow's sentences. *)

BidSentence(code) ==
    CASE code = BidAfterDeadline -> "deadline_passed"
      [] code = BidsFull -> "slots_full"
      [] code = DuplicateCommitment -> "duplicate_commitment"
      [] OTHER -> "submission_failed"

CreateSentence(code) ==
    CASE code = LotAmountNotPositive -> "lot_not_positive"
      [] code = MaxPriceNotPositive -> "price_not_positive"
      [] code = MaxPriceExceeds64Bits -> "price_too_large"
      [] code = DeadlineNotInFuture -> "deadline_not_future"
      [] code = GracePeriodZero -> "grace_zero"
      [] OTHER -> "submission_failed"

SettleSentence(code) ==
    CASE code = SettleBeforeDeadline -> "deadline_not_reached"
      [] code \in {AlreadySettled, AlreadyRefunded} -> "already_finalized"
      [] code = WinnerIndexOutOfRange -> "winner_index_invalid"
      [] code = WinningPriceNotPositive -> "price_not_positive"
      [] code = WinningPriceExceedsMax -> "price_exceeds_max"
      [] code = WinnerAddressMismatch -> "winner_mismatch"
      [] code = ProofInvalid -> "proof_invalid"
      [] code = VerifierCallFailed -> "verifier_failed"
      [] OTHER -> "submission_failed"

\* The markers go before the number, except in a settlement, which has no use
\* for them.
BidFailureFaulty(error) ==
    IF BidSentence(error.code) = "submission_failed" /\ error.marker
    THEN "deposit_uncovered" ELSE BidSentence(error.code)
BidFailure(error) == IF error.marker THEN "deposit_uncovered" ELSE BidSentence(error.code)
CreateFailure(error) == IF error.marker THEN "lot_uncovered" ELSE CreateSentence(error.code)
SettleFailure(error) == SettleSentence(error.code)

PreparationFailure(error) ==
    CASE call = "place_bid" -> BidFailure(error)
      [] call = "settle" -> SettleFailure(error)
      [] OTHER -> CreateFailure(error)

\* submitInvocation returns, the dialog shows the outcome.
Finish(kind, shown) ==
    /\ outcome' = [outcome EXCEPT ![attempt] = [kind |-> kind, shown |-> shown]]
    /\ stage' = "idle"
    /\ UNCHANGED <<attempt, tx, polls, consecutivePollFailures>>

Await(next) ==
    /\ stage' = next
    /\ UNCHANGED <<attempt, tx, polls, consecutivePollFailures, outcome>>

-----------------------------------------------------------------------------
(* The client, one action per await.                                       *)

Init ==
    /\ call \in Calls
    /\ now = 0 /\ sequence = 0 /\ network = {} /\ effects = <<>>
    /\ verdict = [a \in Attempts |-> "NOT_FOUND"]
    /\ taken = 0 /\ closed = FALSE /\ others = 0
    /\ fault \in {0} \cup (Faults \cap ArgumentChecks(call)) /\ refusal = NoError
    /\ attempt = 0 /\ stage = "idle" /\ polls = 0 /\ consecutivePollFailures = 0
    /\ tx = [attempt |-> 1, seq |-> 0, validUntil |-> 0]
    /\ outcome = [a \in Attempts |-> NothingYet]

\* The user presses the button, or tries again after a failure.
Start ==
    /\ stage = "idle"
    /\ attempt < MaxAttempts
    /\ attempt > 0 => outcome[attempt].kind # "ok"
    /\ attempt' = attempt + 1
    /\ stage' = "account"
    /\ UNCHANGED <<now, ledgerVars, worldVars, tx, polls, consecutivePollFailures, outcome>>

\* getAccount, then build with the timeout.
ValidUntil == now + TX_TIMEOUT

GetAccount ==
    /\ stage = "account"
    /\ \/ /\ tx' = [attempt |-> attempt, seq |-> sequence + 1, validUntil |-> ValidUntil]
          /\ stage' = "prepare"
          /\ UNCHANGED <<attempt, polls, consecutivePollFailures, outcome>>
       \/ Finish("rpc_unreachable", "rpc_unreachable")
       \/ Finish("account_missing", "submission_failed")
    /\ UNCHANGED <<now, ledgerVars, worldVars>>

\* prepareTransaction simulates the call; it also throws when the node is away.
Prepare ==
    /\ stage = "prepare"
    /\ \/ Rejection = NoError /\ Await("sign")
       \/ Rejection # NoError
          /\ Finish("prepare_failed", PreparationFailure(Rejection))
       \/ Finish("prepare_failed", "submission_failed")
    /\ UNCHANGED <<now, ledgerVars, worldVars>>

Sign ==
    /\ stage = "sign"
    /\ Await("send") \/ Finish("wallet_declined", "wallet_declined")
    /\ UNCHANGED <<now, ledgerVars, worldVars>>

\* sendTransaction: taken by the node, put off (TRY_AGAIN_LATER is polled like
\* PENDING), refused with ERROR, or thrown, whether or not the node has it.
Send ==
    /\ stage = "send"
    /\ \/ /\ network' = network \cup {tx}
          /\ \/ /\ stage' = "poll" /\ polls' = 0 /\ consecutivePollFailures' = 0
                /\ UNCHANGED <<attempt, tx, outcome>>
             \/ Finish("rpc_unreachable", "rpc_unreachable")
       \/ /\ network' = network
          /\ \/ /\ stage' = "poll" /\ polls' = 0 /\ consecutivePollFailures' = 0
                /\ UNCHANGED <<attempt, tx, outcome>>
             \/ Finish("rpc_unreachable", "rpc_unreachable")
             \/ Finish("submission_failed", "submission_failed")
    /\ UNCHANGED <<now, worldVars, sequence, verdict, effects, others>>

\* One turn of the confirmation loop; the last one gives up.
KeepPollingFaulty(failures) ==
    IF failures = POLL_FAILURE_LIMIT THEN Finish("submission_failed", "submission_failed")
    ELSE /\ polls' = (polls + 1) % CONFIRM_POLL_LIMIT /\ consecutivePollFailures' = failures
         /\ UNCHANGED <<attempt, stage, tx, outcome>>
KeepPolling(failures) ==
    IF polls + 1 = CONFIRM_POLL_LIMIT \/ failures = POLL_FAILURE_LIMIT
    THEN Finish("submission_failed", "submission_failed")
    ELSE /\ polls' = polls + 1 /\ consecutivePollFailures' = failures
         /\ UNCHANGED <<attempt, stage, tx, outcome>>

\* The status of the attempt's own transaction; the server may lag behind.
ReportsFaulty == {verdict[a] : a \in 1..attempt} \cup {"NOT_FOUND"}
Reports == {verdict[attempt], "NOT_FOUND"}

Poll ==
    /\ stage = "poll"
    /\ now' = IF now < MaxTime THEN now + 1 ELSE now
    /\ \/ KeepPolling(consecutivePollFailures + 1)
       \/ \E status \in Reports :
             \/ status = "SUCCESS" /\ Finish("ok", "ok")
             \/ status = "FAILED" /\ Finish("submission_failed", "submission_failed")
             \/ status = "NOT_FOUND" /\ KeepPolling(0)
    /\ UNCHANGED <<ledgerVars, worldVars>>

-----------------------------------------------------------------------------
(* The ledger, the other users and the clock.                              *)

Applicable(t) == t.seq = sequence + 1 /\ now <= t.validUntil

Apply(t) ==
    /\ Applicable(t)
    /\ sequence' = sequence + 1
    /\ network' = network \ {t}
    /\ verdict' = [verdict EXCEPT ![t.attempt] = IF Rejection = NoError THEN "SUCCESS" ELSE "FAILED"]
    /\ effects' = IF Effective THEN Append(effects, t.attempt) ELSE effects
    /\ UNCHANGED <<now, others, worldVars, clientVars>>

\* Any node may forget a transaction, and does when it can no longer apply.
Drop(t) ==
    /\ network' = network \ {t}
    /\ UNCHANGED <<now, sequence, verdict, effects, others, worldVars, clientVars>>

OtherTransaction ==
    /\ others < MaxOthers
    /\ others' = others + 1
    /\ sequence' = sequence + 1
    /\ UNCHANGED <<now, network, verdict, effects, worldVars, clientVars>>

TakeSlot ==
    /\ call = "place_bid" /\ ~closed /\ ~SlotsFull
    /\ taken' = taken + 1
    /\ UNCHANGED <<now, ledgerVars, call, closed, fault, refusal, clientVars>>

Close ==
    /\ call # "create_auction"
    /\ ~closed
    /\ call = "settle" => effects = <<>> /\ fault # SettleBeforeDeadline
    /\ closed' = TRUE
    /\ UNCHANGED <<now, ledgerVars, call, taken, fault, refusal, clientVars>>

\* The deadline passes on the ledger, after it passed on the operator's clock.
BiddingEnds ==
    /\ fault = SettleBeforeDeadline
    /\ fault' = 0
    /\ UNCHANGED <<now, ledgerVars, call, taken, closed, refusal, clientVars>>

\* An issuer freezes or frees an account, a trustline is opened or removed.
TokenTurns ==
    /\ call # "register"
    /\ refusal' \in Refusals \ {refusal}
    /\ UNCHANGED <<now, ledgerVars, call, taken, closed, fault, clientVars>>

Tick ==
    /\ now < MaxTime
    /\ now' = now + 1
    /\ UNCHANGED <<ledgerVars, worldVars, clientVars>>

submitInvocation == GetAccount \/ Prepare \/ Sign \/ Send \/ Poll

World ==
    \/ \E t \in network : Apply(t) \/ Drop(t)
    \/ OtherTransaction \/ TakeSlot \/ Close \/ BiddingEnds \/ TokenTurns \/ Tick

Next == Start \/ submitInvocation \/ World

Spec == Init /\ [][Next]_vars

\* Every await of submitInvocation is answered: the calls to the node resolve
\* or throw, the poll has its own timer.  The wallet's answer is the user's, so
\* a signature need not ever come.
Fairness == WF_vars(GetAccount) /\ WF_vars(Prepare) /\ WF_vars(Send) /\ WF_vars(Poll)

-----------------------------------------------------------------------------
(* Properties.                                                             *)

TypeOK ==
    /\ call \in Calls /\ now \in 0..MaxTime /\ sequence \in Nat
    /\ network \subseteq Transaction /\ tx \in Transaction
    /\ verdict \in [Attempts -> {"NOT_FOUND", "SUCCESS", "FAILED"}]
    /\ effects \in Seq(Attempts) /\ taken \in Nat /\ closed \in BOOLEAN
    /\ fault \in {0} \cup (Faults \cap ArgumentChecks(call)) /\ refusal \in Refusals
    /\ others \in Nat /\ attempt \in 0..MaxAttempts /\ stage \in Stages
    /\ polls \in 0..(CONFIRM_POLL_LIMIT - 1)
    /\ consecutivePollFailures \in 0..(POLL_FAILURE_LIMIT - 1)
    /\ outcome \in [Attempts -> [kind : Kinds, shown : Shown]]

\* A success that submitInvocation reports is a transaction the ledger applied,
\* whichever attempts are still on their way.
ConfirmedIsOnChain ==
    \A a \in Attempts : outcome[a].kind = "ok" => verdict[a] = "SUCCESS"

\* An attempt that failed before the send (the account, the simulation, the
\* wallet: "Nothing was sent") is on no node and never lands.
NeverSentNeverLands ==
    \A a \in Attempts :
        outcome[a].kind \in {"account_missing", "prepare_failed", "wallet_declined"} =>
            /\ verdict[a] = "NOT_FOUND"
            /\ \A t \in network : t.attempt # a

\* What each sentence of errors.ts says of the ledger.  No commitment of the
\* client is on the ledger before it is sent, so none is a duplicate.
Holds(sentence) ==
    /\ sentence = "deadline_passed" => closed
    /\ sentence = "slots_full" => SlotsFull
    /\ sentence # "duplicate_commitment"
    /\ sentence \in {"deposit_uncovered", "lot_uncovered"} => Uncovered
    /\ sentence = "already_finalized" => closed \/ effects # <<>>
    /\ sentence = "deadline_not_reached" => fault = SettleBeforeDeadline
    /\ sentence = "deadline_not_future" => fault = DeadlineNotInFuture
    /\ sentence = "grace_zero" => fault = GracePeriodZero
    /\ sentence = "lot_not_positive" => fault = LotAmountNotPositive
    /\ sentence = "price_not_positive" =>
          fault = IF call = "settle" THEN WinningPriceNotPositive ELSE MaxPriceNotPositive
    /\ sentence = "price_too_large" => fault = MaxPriceExceeds64Bits
    /\ sentence = "price_exceeds_max" => fault = WinningPriceExceedsMax
    /\ sentence = "winner_index_invalid" => fault = WinnerIndexOutOfRange
    /\ sentence = "winner_mismatch" => fault = WinnerAddressMismatch
    /\ sentence = "proof_invalid" => fault = ProofInvalid
    /\ sentence = "verifier_failed" => fault = VerifierCallFailed

\* The numbers a flow has a sentence for.
NamedCodes(c) ==
    CASE c = "place_bid" -> {BidAfterDeadline, BidsFull, DuplicateCommitment}
      [] c = "settle" -> {AlreadySettled, AlreadyRefunded}
                         \cup SettleBeforeDeadline..VerifierCallFailed
      [] OTHER -> LotAmountNotPositive..GracePeriodZero

\* The exception: the auction accepts the call, its token refuses the transfer in
\* words the flow does not look for, with a number the flow has a sentence for.
ReadAsTheAuctions ==
    /\ call # "register"
    /\ AuctionError = NoError
    /\ refusal.code \in NamedCodes(call)
    /\ call = "settle" \/ ~refusal.marker

\* Whatever sentence a failure is given names a cause that holds when it is shown,
\* for every refusal of the auction and of its tokens but the exception above: a
\* small balance is never read as the full book that has its number, nor a full
\* book as a small balance (mapInvocationToBidFailure and its two siblings).
SentencesNameTheCause ==
    [][\A a \in Attempts :
          outcome'[a].shown # outcome[a].shown =>
              Holds(outcome'[a].shown) \/ ReadAsTheAuctions]_vars

\* No transaction can land later than TX_TIMEOUT after any moment at which some
\* node holds it: waiting that long after a failure makes the failure final.
WaitingOutTheWindowIsEnough ==
    \A t \in network : t.validUntil <= now + TX_TIMEOUT

\* What the answer of submitInvocation says of the ledger: a success is applied, a
\* refusal before the send never is, and any other failure is final after a window.
AnswersAreFinal ==
    ConfirmedIsOnChain /\ NeverSentNeverLands /\ WaitingOutTheWindowIsEnough

\* However often a settlement or a registration is retried, and whatever of the
\* earlier attempts lands late, it takes effect once.
SafeToRetry == call \in {"settle", "register"} => Len(effects) <= 1

\* What is signed is sent and its confirmation ends: no answer of the node, and
\* no silence, keeps the dialog waiting for ever.
SubmissionEnds == (stage \in {"send", "poll"}) ~> (stage = "idle")

\* "Your bid is safe to retry" (errors.ts:89), "Creating the auction is safe to
\* retry" (errors.ts:226): a user who retries only when told so by one of these
\* sentences escrows one deposit, or one lot.
RetryIsSafe ==
    /\ call \in {"place_bid", "create_auction"}
    /\ \A a \in 1..(attempt - 1) : outcome[a].shown = "rpc_unreachable"
    => Len(effects) <= 1
=============================================================================
