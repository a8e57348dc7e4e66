-------------------------- MODULE OperatorProofs ---------------------------
(***************************************************************************)
(* What happens outside the contract around a settlement.                  *)
(*                                                                         *)
(* The selection: for every number of slots, every book of revealed bids   *)
(* and every member list the loops end at the outcome of the second-price  *)
(* rule, which by module AuctionWinnerProofs is the only one the circuit   *)
(* accepts.                                                                *)
(*                                                                         *)
(* The reveal and settlement pipeline: for every number of slots, of       *)
(* accounts, of failures and of bundles pasted from elsewhere, an auction  *)
(* settles only as the committed prices of the whole book say, and the     *)
(* room is told the outcome the chain has.  A bundle only ever exists with *)
(* a proof (Sound), and the contract accepts it only for the signals of    *)
(* its own storage; a proof of those is, by CircuitIsVickrey, the outcome  *)
(* of the committed prices.                                                *)
(*                                                                         *)
(* The submission: what a reported success, a reported "nothing was sent"  *)
(* and the sentence shown after a failure mean, for every number of        *)
(* attempts, every window and every poll limit.                            *)
(***************************************************************************)
EXTENDS TransactionClient, VickreySelection, RevealPipeline, AuctionWinnerProofs

-----------------------------------------------------------------------------
(* THE SUBMISSION OF A CALL.                                               *)

Unsent == {"account_missing", "prepare_failed", "wallet_declined"}

\* No node has, or had, a transaction of the attempt.
Untouched(a) == verdict[a] = "NOT_FOUND" /\ \A t \in network : t.attempt # a

\* The attempt under way has no outcome yet and, until it is sent, has touched
\* nothing; neither has any attempt to come.
Progress ==
    /\ stage # "idle" => attempt \in Attempts /\ outcome[attempt].kind = "none"
    /\ stage \in {"prepare", "sign", "send", "poll"} => tx.attempt = attempt
    /\ stage \in {"account", "prepare", "sign", "send"} => Untouched(attempt)
    /\ \A a \in Attempts : a > attempt => outcome[a].kind = "none" /\ Untouched(a)

\* An attempt has one transaction, which is on the network or decided.
OneEach ==
    /\ \A t \in network : verdict[t.attempt] = "NOT_FOUND"
    /\ \A t, u \in network : t.attempt = u.attempt => t = u

Told ==
    /\ \A a \in Attempts : outcome[a].kind \in Unsent => Untouched(a)
    /\ \A a \in Attempts : outcome[a].kind = "ok" => verdict[a] = "SUCCESS"

\* What is built, or held by a node, is valid for no longer than the window.
InWindow ==
    /\ tx.validUntil <= now + TX_TIMEOUT
    /\ \A t \in network : t.validUntil <= now + TX_TIMEOUT

Once == call \in {"settle", "register"} => Len(effects) <= 1

ClientInv == TypeOK /\ Progress /\ OneEach /\ Told /\ InWindow /\ Once

\* The sentences of a rejected simulation are sentences.
LEMMA FailuresAreShown ==
    ASSUME NEW error \in [marker : BOOLEAN, code : Nat]
    PROVE  PreparationFailure(error) \in Shown
  BY DEF PreparationFailure, BidFailure, CreateFailure, SettleFailure,
         BidSentence, CreateSentence, SettleSentence, Shown

\* What a token may answer: a text and a number, and only a missing trustline
\* in known words.
LEMMA RefusalsAreErrors ==
    ASSUME NEW error \in Refusals
    PROVE  /\ error \in [marker : BOOLEAN, code : Nat]
           /\ error.marker => error = TrustlineMissing
<1>1. CASE error = NoError
  BY <1>1 DEF NoError
<1>2. CASE error = TrustlineMissing
  BY <1>2 DEF TrustlineMissing
<1>3. CASE error \in [marker : {FALSE}, code : RefusalCodes]
  <2>1. error = [marker |-> error.marker, code |-> error.code]
    BY <1>3
  <2>2. error.marker = FALSE /\ error.code \in Nat
    BY <1>3, ErrorsAssumption
  <2>. QED  BY <2>1, <2>2
<1>. QED  BY <1>1, <1>2, <1>3 DEF Refusals

\* An error of the auction or of a token is a text and a number.
LEMMA RejectionIsAnError ==
    ASSUME TypeOK
    PROVE  Rejection \in [marker : BOOLEAN, code : Nat]
<1>1. fault \in Nat
  BY ErrorsAssumption DEF TypeOK
<1>2. refusal \in [marker : BOOLEAN, code : Nat]
  BY RefusalsAreErrors DEF TypeOK
<1>3. AuctionError \in [marker : BOOLEAN, code : Nat]
  BY <1>1 DEF AuctionError, ContractError, AlreadySettled, BidAfterDeadline, BidsFull
<1>4. TransferError \in [marker : BOOLEAN, code : Nat]
  BY <1>2 DEF TransferError, BalanceError, NoError
<1>. QED  BY <1>3, <1>4 DEF Rejection, NoError

\* The first attempt has yet to be made.
LEMMA ClientStarts == Init => ClientInv
<1>. SUFFICES ASSUME Init PROVE ClientInv  OBVIOUS
<1>1. /\ TX_TIMEOUT \in Nat /\ MaxTime \in Nat /\ MaxAttempts \in Nat \ {0}
      /\ CONFIRM_POLL_LIMIT \in Nat \ {0} /\ POLL_FAILURE_LIMIT \in Nat \ {0}
  BY LimitsAssumption
<1>2. tx \in Transaction
  BY <1>1 DEF Init, Transaction, Attempts, Times
<1>3. outcome \in [Attempts -> [kind : Kinds, shown : Shown]]
  BY DEF Init, NothingYet, Kinds, Shown
<1>4. effects \in Seq(Attempts) /\ Len(effects) = 0
  BY DEF Init
<1>5. TypeOK
  <2>1. verdict \in [Attempts -> {"NOT_FOUND", "SUCCESS", "FAILED"}]
    BY DEF Init
  <2>2. /\ now \in 0..MaxTime /\ sequence \in Nat /\ attempt \in 0..MaxAttempts
        /\ polls \in 0..(CONFIRM_POLL_LIMIT - 1) /\ taken \in Nat /\ others \in Nat
        /\ consecutivePollFailures \in 0..(POLL_FAILURE_LIMIT - 1)
    BY <1>1 DEF Init
  <2>3. call \in Calls /\ network \subseteq Transaction /\ closed \in BOOLEAN /\ stage \in Stages
    BY DEF Init, Stages
  <2>4. fault \in {0} \cup (Faults \cap ArgumentChecks(call)) /\ refusal \in Refusals
    BY DEF Init, Refusals
  <2>. QED  BY <1>2, <1>3, <1>4, <2>1, <2>2, <2>3, <2>4 DEF TypeOK
<1>6. Progress /\ OneEach /\ Told
  BY DEF Init, Progress, OneEach, Told, Untouched, NothingYet, Unsent
<1>7. InWindow /\ Once
  BY <1>1, <1>4 DEF Init, InWindow, Once
<1>. QED  BY <1>5, <1>6, <1>7 DEF ClientInv

\* The ledger as a client step leaves it, but for a transaction it sends.
Kept == UNCHANGED <<call, taken, closed, fault, refusal, sequence, verdict, effects, others>>

\* An answer of submitInvocation: it may have sent the transaction only from the
\* send, and it says so or says "ok" only when that is so.
LEMMA FinishKeeps ==
    ASSUME ClientInv, Kept, now' \in 0..MaxTime, now' >= now, stage # "idle",
           NEW kind \in Kinds, NEW sentence \in Shown, Finish(kind, sentence),
           \/ network' = network
           \/ stage = "send" /\ network' = network \cup {tx} /\ kind \notin Unsent \cup {"ok"},
           kind \in Unsent => stage # "poll",
           kind = "ok" => verdict[attempt] = "SUCCESS"
    PROVE  ClientInv'
<1>1. /\ stage' = "idle" /\ UNCHANGED <<attempt, tx, polls, consecutivePollFailures>>
      /\ outcome' = [outcome EXCEPT ![attempt] = [kind |-> kind, shown |-> sentence]]
  BY DEF Finish
<1>2. /\ TypeOK /\ Progress /\ OneEach /\ Told /\ InWindow /\ Once
  BY DEF ClientInv
<1>3. attempt \in Attempts /\ outcome[attempt].kind = "none"
  BY <1>2 DEF Progress
<1>4. /\ outcome' \in [Attempts -> [kind : Kinds, shown : Shown]]
      /\ outcome'[attempt].kind = kind
      /\ \A a \in Attempts : a # attempt => outcome'[a] = outcome[a]
  BY <1>1, <1>2, <1>3 DEF TypeOK
<1>5. /\ \A t \in network' : t \in network \/ (t = tx /\ stage = "send")
      /\ stage = "send" => tx.attempt = attempt /\ Untouched(attempt)
      /\ network' # network => kind \notin Unsent \cup {"ok"}
  BY <1>2 DEF Progress
<1>6. TypeOK'
  <2>1. network' \subseteq Transaction
    BY <1>2, <1>5 DEF TypeOK
  <2>. QED  BY <1>1, <1>2, <1>4, <2>1 DEF TypeOK, Kept, Stages
<1>7. ASSUME NEW a \in Attempts, a # attempt, Untouched(a) PROVE Untouched(a)'
  BY <1>5, <1>7 DEF Untouched, Kept
<1>8. Progress'
  <2>1. ASSUME NEW a \in Attempts, a > attempt PROVE outcome'[a].kind = "none" /\ Untouched(a)'
    <3>1. a # attempt
      BY <1>3, <2>1 DEF Attempts
    <3>2. outcome[a].kind = "none" /\ Untouched(a)
      BY <1>2, <2>1 DEF Progress
    <3>. QED  BY <1>4, <1>7, <3>1, <3>2
  <2>. QED  BY <1>1, <2>1 DEF Progress
<1>9. OneEach'
  BY <1>2, <1>5 DEF OneEach, Untouched, Kept
<1>10. Told'
  <2>1. ASSUME NEW a \in Attempts, outcome'[a].kind \in Unsent PROVE Untouched(a)'
    <3>1. CASE a # attempt
      BY <1>2, <1>4, <1>7, <2>1, <3>1 DEF Told
    <3>2. CASE a = attempt
      <4>1. kind \in Unsent /\ network' = network
        BY <1>4, <1>5, <2>1, <3>2
      <4>2. stage \in {"account", "prepare", "sign", "send"}
        BY <1>2, <4>1 DEF TypeOK, Stages
      <4>3. Untouched(a)
        BY <1>2, <3>2, <4>2 DEF Progress
      <4>. QED  BY <4>1, <4>3 DEF Untouched, Kept
    <3>. QED  BY <3>1, <3>2
  <2>2. ASSUME NEW a \in Attempts, outcome'[a].kind = "ok" PROVE verdict'[a] = "SUCCESS"
    <3>1. CASE a # attempt
      BY <1>2, <1>4, <2>2, <3>1 DEF Told, Kept
    <3>2. CASE a = attempt
      BY <1>4, <2>2, <3>2 DEF Kept
    <3>. QED  BY <3>1, <3>2
  <2>. QED  BY <2>1, <2>2 DEF Told
<1>11. InWindow'
  <2>1. now \in Nat /\ now' \in Nat /\ TX_TIMEOUT \in Nat
    BY <1>2, LimitsAssumption DEF TypeOK
  <2>2. ASSUME NEW t \in Transaction, t.validUntil <= now + TX_TIMEOUT
        PROVE  t.validUntil <= now' + TX_TIMEOUT
    <3>1. t.validUntil \in Nat
      BY LimitsAssumption DEF Transaction, Times
    <3>. QED  BY <2>1, <2>2, <3>1
  <2>3. tx \in Transaction /\ network \subseteq Transaction
    BY <1>2 DEF TypeOK
  <2>. QED  BY <1>1, <1>2, <1>5, <2>2, <2>3 DEF InWindow
<1>12. Once'
  BY <1>2 DEF Once, Kept
<1>. QED  BY <1>6, <1>8, <1>9, <1>10, <1>11, <1>12 DEF ClientInv

\* A client step that sends nothing and reports nothing.
LEMMA QuietKeeps ==
    ASSUME ClientInv, Kept, network' = network, outcome' = outcome,
           now' \in 0..MaxTime, now' >= now,
           tx' \in Transaction, tx'.validUntil <= now' + TX_TIMEOUT,
           attempt' \in 0..MaxAttempts, stage' \in Stages,
           polls' \in 0..(CONFIRM_POLL_LIMIT - 1),
           consecutivePollFailures' \in 0..(POLL_FAILURE_LIMIT - 1),
           Progress'
    PROVE  ClientInv'
<1>1. /\ TypeOK /\ Progress /\ OneEach /\ Told /\ InWindow /\ Once
  BY DEF ClientInv
<1>2. TypeOK'
  BY <1>1 DEF TypeOK, Kept
<1>3. OneEach' /\ Told' /\ Once'
  BY <1>1 DEF OneEach, Told, Once, Untouched, Kept
<1>4. InWindow'
  <2>1. now \in Nat /\ now' \in Nat /\ TX_TIMEOUT \in Nat
    BY <1>1, LimitsAssumption DEF TypeOK
  <2>2. ASSUME NEW t \in network PROVE t.validUntil <= now' + TX_TIMEOUT
    <3>1. t.validUntil \in Nat
      BY <1>1, LimitsAssumption DEF TypeOK, Transaction, Times
    <3>2. t.validUntil <= now + TX_TIMEOUT
      BY <1>1 DEF InWindow
    <3>. QED  BY <2>1, <3>1, <3>2
  <2>. QED  BY <2>2 DEF InWindow
<1>. QED  BY <1>2, <1>3, <1>4 DEF ClientInv

LEMMA StartKeeps == ClientInv /\ Start => ClientInv'
<1>. SUFFICES ASSUME ClientInv, Start PROVE ClientInv'  OBVIOUS
<1>1. TypeOK /\ Progress /\ InWindow
  BY DEF ClientInv
<1>2. /\ attempt' = attempt + 1 /\ stage' = "account" /\ attempt < MaxAttempts
      /\ Kept /\ UNCHANGED <<now, network, tx, polls, consecutivePollFailures, outcome>>
  BY DEF Start, Kept, ledgerVars, worldVars
<1>3. attempt' \in Attempts /\ attempt \in Nat /\ MaxAttempts \in Nat
  BY <1>1, <1>2, LimitsAssumption DEF TypeOK, Attempts
<1>4. \A a \in Attempts : a > attempt => outcome[a].kind = "none" /\ Untouched(a)
  BY <1>1 DEF Progress
<1>5. \A a \in Attempts : Untouched(a) => Untouched(a)'
  BY <1>2 DEF Untouched, Kept
<1>6. \A a \in Attempts : a >= attempt' => outcome'[a].kind = "none" /\ Untouched(a)'
  BY <1>2, <1>3, <1>4, <1>5 DEF Attempts
<1>7. attempt' >= attempt' /\ \A a \in Attempts : a > attempt' => a >= attempt'
  BY <1>3 DEF Attempts
<1>8. outcome'[attempt'].kind = "none" /\ Untouched(attempt)'
  BY <1>3, <1>6, <1>7 DEF Untouched
<1>9. Progress'
  BY <1>2, <1>3, <1>6, <1>7, <1>8 DEF Progress
<1>10. now' \in 0..MaxTime /\ now' >= now /\ attempt' \in 0..MaxAttempts /\ stage' \in Stages
  BY <1>1, <1>2, <1>3, LimitsAssumption DEF TypeOK, Stages, Attempts
<1>11. /\ tx' \in Transaction /\ tx'.validUntil <= now' + TX_TIMEOUT
       /\ polls' \in 0..(CONFIRM_POLL_LIMIT - 1)
       /\ consecutivePollFailures' \in 0..(POLL_FAILURE_LIMIT - 1)
  BY <1>1, <1>2 DEF TypeOK, InWindow
<1>. QED  BY <1>2, <1>9, <1>10, <1>11, QuietKeeps

\* Waiting for the next answer before the send keeps the attempt untouched.
LEMMA ProgressMoves ==
    ASSUME ClientInv, Kept, UNCHANGED <<network, outcome, attempt>>, stage # "idle",
           stage' \in {"prepare", "sign", "send"} => stage \in {"account", "prepare", "sign"},
           stage' \in {"prepare", "sign", "send", "poll"}, tx'.attempt = attempt
    PROVE  Progress'
<1>1. TypeOK /\ Progress
  BY DEF ClientInv
<1>2. \A a \in Attempts : Untouched(a) => Untouched(a)'
  BY DEF Untouched, Kept
<1>3. attempt \in Attempts /\ outcome[attempt].kind = "none"
  BY <1>1 DEF Progress
<1>4. stage' # "poll" => Untouched(attempt)'
  BY <1>1, <1>2, <1>3 DEF Progress, Untouched
<1>5. \A a \in Attempts : a > attempt => outcome[a].kind = "none" /\ Untouched(a)'
  BY <1>1, <1>2 DEF Progress
<1>. QED  BY <1>3, <1>4, <1>5 DEF Progress

LEMMA GetAccountKeeps == ClientInv /\ GetAccount => ClientInv'
<1>. SUFFICES ASSUME ClientInv, GetAccount PROVE ClientInv'  OBVIOUS
<1>1. TypeOK /\ Progress
  BY DEF ClientInv
<1>2. stage = "account" /\ Kept /\ UNCHANGED <<now, network>>
  BY DEF GetAccount, Kept, ledgerVars, worldVars
<1>3. now' \in 0..MaxTime /\ now' >= now /\ now \in Nat /\ TX_TIMEOUT \in Nat /\ MaxTime \in Nat
  BY <1>1, <1>2, LimitsAssumption DEF TypeOK
<1>4. CASE /\ tx' = [attempt |-> attempt, seq |-> sequence + 1, validUntil |-> ValidUntil]
           /\ stage' = "prepare"
           /\ UNCHANGED <<attempt, polls, consecutivePollFailures, outcome>>
  <2>1. attempt \in Attempts /\ sequence + 1 \in Nat /\ now + TX_TIMEOUT \in Times
    BY <1>1, <1>2, <1>3 DEF TypeOK, Progress, Times
  <2>2. tx' \in Transaction /\ tx'.validUntil = now + TX_TIMEOUT /\ tx'.attempt = attempt
    BY <1>4, <2>1 DEF Transaction, ValidUntil
  <2>3. Progress'
    BY <1>2, <1>4, <2>2, ProgressMoves
  <2>4. /\ attempt' \in 0..MaxAttempts /\ stage' \in Stages
        /\ polls' \in 0..(CONFIRM_POLL_LIMIT - 1)
        /\ consecutivePollFailures' \in 0..(POLL_FAILURE_LIMIT - 1)
    BY <1>1, <1>4 DEF TypeOK, Stages
  <2>5. tx'.validUntil <= now' + TX_TIMEOUT
    BY <1>2, <1>3, <2>2
  <2>. QED  BY <1>2, <1>3, <1>4, <2>2, <2>3, <2>4, <2>5, QuietKeeps
<1>5. CASE Finish("rpc_unreachable", "rpc_unreachable")
  BY <1>2, <1>3, <1>5, FinishKeeps DEF Kinds, Shown, Unsent
<1>6. CASE Finish("account_missing", "submission_failed")
  BY <1>2, <1>3, <1>6, FinishKeeps DEF Kinds, Shown, Unsent
<1>. QED  BY <1>4, <1>5, <1>6 DEF GetAccount

\* Going on to the wallet, and from it to the send.
LEMMA AwaitKeeps ==
    ASSUME ClientInv, Kept, UNCHANGED <<now, network>>, stage \in {"prepare", "sign"},
           NEW next \in {"sign", "send"}, Await(next)
    PROVE  ClientInv'
<1>1. TypeOK /\ Progress /\ InWindow
  BY DEF ClientInv
<1>2. stage' = next /\ UNCHANGED <<attempt, tx, polls, consecutivePollFailures, outcome>>
  BY DEF Await
<1>3. now' \in 0..MaxTime /\ now' >= now
  BY <1>1 DEF TypeOK
<1>4. tx.attempt = attempt
  BY <1>1 DEF Progress
<1>5. Progress'
  BY <1>2, <1>4, ProgressMoves
<1>6. /\ attempt' \in 0..MaxAttempts /\ stage' \in Stages /\ tx' \in Transaction
      /\ polls' \in 0..(CONFIRM_POLL_LIMIT - 1)
      /\ consecutivePollFailures' \in 0..(POLL_FAILURE_LIMIT - 1)
      /\ tx'.validUntil <= now' + TX_TIMEOUT
  BY <1>1, <1>2 DEF TypeOK, Stages, InWindow
<1>. QED  BY <1>2, <1>3, <1>5, <1>6, QuietKeeps

LEMMA PrepareKeeps == ClientInv /\ Prepare => ClientInv'
<1>. SUFFICES ASSUME ClientInv, Prepare PROVE ClientInv'  OBVIOUS
<1>1. stage = "prepare" /\ Kept /\ UNCHANGED <<now, network>>
  BY DEF Prepare, Kept, ledgerVars, worldVars
<1>2. now' \in 0..MaxTime /\ now' >= now
  BY <1>1 DEF ClientInv, TypeOK
<1>3. CASE Await("sign")
  BY <1>1, <1>3, AwaitKeeps
<1>4. CASE Finish("prepare_failed", PreparationFailure(Rejection))
  BY <1>1, <1>2, <1>4, RejectionIsAnError, FailuresAreShown, FinishKeeps
     DEF ClientInv, Kinds, Unsent
<1>5. CASE Finish("prepare_failed", "submission_failed")
  BY <1>1, <1>2, <1>5, FinishKeeps DEF Kinds, Shown, Unsent
<1>. QED  BY <1>3, <1>4, <1>5 DEF Prepare

LEMMA SignKeeps == ClientInv /\ Sign => ClientInv'
<1>. SUFFICES ASSUME ClientInv, Sign PROVE ClientInv'  OBVIOUS
<1>1. stage = "sign" /\ Kept /\ UNCHANGED <<now, network>>
  BY DEF Sign, Kept, ledgerVars, worldVars
<1>2. now' \in 0..MaxTime /\ now' >= now
  BY <1>1 DEF ClientInv, TypeOK
<1>3. CASE Await("send")
  BY <1>1, <1>3, AwaitKeeps
<1>4. CASE Finish("wallet_declined", "wallet_declined")
  BY <1>1, <1>2, <1>4, FinishKeeps DEF Kinds, Shown, Unsent
<1>. QED  BY <1>3, <1>4 DEF Sign

\* The send: the node has the transaction, or has not, and is polled for it.
LEMMA SentKeeps ==
    ASSUME ClientInv, Kept, now' = now, stage = "send", stage' = "poll",
           polls' = 0, consecutivePollFailures' = 0, UNCHANGED <<attempt, tx, outcome>>,
           network' = network \/ network' = network \cup {tx}
    PROVE  ClientInv'
<1>1. TypeOK /\ Progress /\ OneEach /\ Told /\ InWindow /\ Once
  BY DEF ClientInv
<1>2. /\ attempt \in Attempts /\ outcome[attempt].kind = "none"
      /\ tx.attempt = attempt /\ Untouched(attempt) /\ tx \in Transaction
  BY <1>1 DEF Progress, TypeOK
<1>3. \A t \in network' : t \in network \/ t = tx
  OBVIOUS
<1>4. TypeOK'
  <2>1. network' \subseteq Transaction /\ stage' \in Stages
    BY <1>1, <1>2, <1>3 DEF TypeOK, Stages
  <2>2. polls' \in 0..(CONFIRM_POLL_LIMIT - 1)
        /\ consecutivePollFailures' \in 0..(POLL_FAILURE_LIMIT - 1)
    BY LimitsAssumption
  <2>. QED  BY <1>1, <2>1, <2>2 DEF TypeOK, Kept
<1>5. \A a \in Attempts : a # attempt /\ Untouched(a) => Untouched(a)'
  BY <1>2, <1>3 DEF Untouched, Kept
<1>6. Progress'
  <2>1. ASSUME NEW a \in Attempts, a > attempt PROVE outcome[a].kind = "none" /\ Untouched(a)'
    <3>1. a # attempt
      BY <1>2, <2>1 DEF Attempts
    <3>. QED  BY <1>1, <1>5, <2>1, <3>1 DEF Progress
  <2>. QED  BY <1>2, <2>1 DEF Progress
<1>7. OneEach'
  BY <1>1, <1>2, <1>3 DEF OneEach, Untouched, Kept
<1>8. Told'
  <2>1. ASSUME NEW a \in Attempts, outcome[a].kind \in Unsent PROVE Untouched(a)'
    <3>1. a # attempt
      BY <1>2, <2>1 DEF Unsent
    <3>. QED  BY <1>1, <1>5, <2>1, <3>1 DEF Told
  <2>. QED  BY <1>1, <2>1 DEF Told, Kept
<1>9. InWindow' /\ Once'
  BY <1>1, <1>3 DEF InWindow, Once, Kept
<1>. QED  BY <1>4, <1>6, <1>7, <1>8, <1>9 DEF ClientInv

LEMMA SendKeeps == ClientInv /\ Send => ClientInv'
<1>. SUFFICES ASSUME ClientInv, Send PROVE ClientInv'  OBVIOUS
<1>1. stage = "send" /\ Kept /\ now' = now
  BY DEF Send, Kept, worldVars
<1>2. now' \in 0..MaxTime /\ now' >= now
  BY <1>1 DEF ClientInv, TypeOK
<1>3. network' = network \/ network' = network \cup {tx}
  BY DEF Send
<1>4. CASE /\ stage' = "poll" /\ polls' = 0 /\ consecutivePollFailures' = 0
           /\ UNCHANGED <<attempt, tx, outcome>>
  BY <1>1, <1>3, <1>4, SentKeeps
<1>5. CASE Finish("rpc_unreachable", "rpc_unreachable")
  BY <1>1, <1>2, <1>3, <1>5, FinishKeeps DEF Kinds, Shown, Unsent
<1>6. CASE Finish("submission_failed", "submission_failed")
  BY <1>1, <1>2, <1>3, <1>6, FinishKeeps DEF Kinds, Shown, Unsent
<1>. QED  BY <1>4, <1>5, <1>6 DEF Send

\* One turn of the loop, after an answer (no failures) or another failure.
LEMMA KeepPollingKeeps ==
    ASSUME ClientInv, Kept, network' = network, now' \in 0..MaxTime, now' >= now,
           stage = "poll", NEW failures \in 0..POLL_FAILURE_LIMIT, KeepPolling(failures)
    PROVE  ClientInv'
<1>1. TypeOK /\ Progress /\ InWindow
  BY DEF ClientInv
<1>2. CASE Finish("submission_failed", "submission_failed")
  BY <1>2, FinishKeeps DEF Kinds, Shown, Unsent
<1>3. CASE ~(polls + 1 = CONFIRM_POLL_LIMIT \/ failures = POLL_FAILURE_LIMIT)
  <2>1. /\ polls' = polls + 1 /\ consecutivePollFailures' = failures
        /\ UNCHANGED <<attempt, stage, tx, outcome>>
    BY <1>3 DEF KeepPolling
  <2>2. /\ polls' \in 0..(CONFIRM_POLL_LIMIT - 1)
        /\ consecutivePollFailures' \in 0..(POLL_FAILURE_LIMIT - 1)
    BY <1>1, <1>3, <2>1, LimitsAssumption DEF TypeOK
  <2>3. tx.attempt = attempt
    BY <1>1 DEF Progress
  <2>4. Progress'
    BY <2>1, <2>3, ProgressMoves
  <2>5. tx'.validUntil <= now' + TX_TIMEOUT
    <3>1. tx.validUntil \in Nat /\ now \in Nat /\ now' \in Nat /\ TX_TIMEOUT \in Nat
      BY <1>1, LimitsAssumption DEF TypeOK, Transaction, Times
    <3>2. tx.validUntil <= now + TX_TIMEOUT
      BY <1>1 DEF InWindow
    <3>. QED  BY <2>1, <3>1, <3>2
  <2>6. attempt' \in 0..MaxAttempts /\ stage' \in Stages /\ tx' \in Transaction
    BY <1>1, <2>1 DEF TypeOK
  <2>. QED  BY <2>1, <2>2, <2>4, <2>5, <2>6, QuietKeeps
<1>. QED  BY <1>2, <1>3 DEF KeepPolling

LEMMA PollKeeps == ClientInv /\ Poll => ClientInv'
<1>. SUFFICES ASSUME ClientInv, Poll PROVE ClientInv'  OBVIOUS
<1>1. TypeOK
  BY DEF ClientInv
<1>2. stage = "poll" /\ Kept /\ network' = network
      /\ now' = IF now < MaxTime THEN now + 1 ELSE now
  BY DEF Poll, Kept, ledgerVars, worldVars
<1>3. now' \in 0..MaxTime /\ now' >= now
  BY <1>1, <1>2, LimitsAssumption DEF TypeOK
<1>4. CASE KeepPolling(consecutivePollFailures + 1)
  <2>1. consecutivePollFailures + 1 \in 0..POLL_FAILURE_LIMIT
    BY <1>1, LimitsAssumption DEF TypeOK
  <2>. QED  BY <1>2, <1>3, <1>4, <2>1, KeepPollingKeeps
<1>5. ASSUME NEW reply \in Reports,
             \/ reply = "SUCCESS" /\ Finish("ok", "ok")
             \/ reply = "FAILED" /\ Finish("submission_failed", "submission_failed")
             \/ reply = "NOT_FOUND" /\ KeepPolling(0)
      PROVE  ClientInv'
  <2>1. CASE reply = "SUCCESS" /\ Finish("ok", "ok")
    <3>1. verdict[attempt] = "SUCCESS"
      BY <2>1 DEF Reports
    <3>. QED  BY <1>2, <1>3, <2>1, <3>1, FinishKeeps DEF Kinds, Shown, Unsent
  <2>2. CASE reply = "FAILED" /\ Finish("submission_failed", "submission_failed")
    BY <1>2, <1>3, <2>2, FinishKeeps DEF Kinds, Shown, Unsent
  <2>3. CASE reply = "NOT_FOUND" /\ KeepPolling(0)
    <3>1. 0 \in 0..POLL_FAILURE_LIMIT
      BY LimitsAssumption
    <3>. QED  BY <1>2, <1>3, <2>3, <3>1, KeepPollingKeeps
  <2>. QED  BY <1>5, <2>1, <2>2, <2>3
<1>. QED  BY <1>4, <1>5 DEF Poll

-----------------------------------------------------------------------------
(* The ledger.                                                             *)

\* Applying a transaction decides its attempt and no other.
LEMMA ApplyKeeps ==
    ASSUME ClientInv, NEW t \in network, Apply(t)
    PROVE  ClientInv'
<1>1. TypeOK /\ Progress /\ OneEach /\ Told /\ InWindow /\ Once
  BY DEF ClientInv
<1>2. /\ network' = network \ {t} /\ sequence' = sequence + 1
      /\ verdict' = [verdict EXCEPT ![t.attempt] =
                        IF Rejection = NoError THEN "SUCCESS" ELSE "FAILED"]
      /\ effects' = IF Effective THEN Append(effects, t.attempt) ELSE effects
      /\ UNCHANGED <<now, others, call, taken, closed, fault, refusal,
                     attempt, stage, tx, polls, consecutivePollFailures, outcome>>
  BY DEF Apply, worldVars, clientVars
<1>3. t.attempt \in Attempts /\ verdict[t.attempt] = "NOT_FOUND"
  BY <1>1 DEF TypeOK, Transaction, OneEach
<1>4. /\ verdict' \in [Attempts -> {"NOT_FOUND", "SUCCESS", "FAILED"}]
      /\ \A a \in Attempts : a # t.attempt => verdict'[a] = verdict[a]
  BY <1>1, <1>2, <1>3 DEF TypeOK
<1>5. ASSUME NEW a \in Attempts, Untouched(a) PROVE Untouched(a)'
  <2>1. a # t.attempt
    BY <1>5 DEF Untouched
  <2>. QED  BY <1>2, <1>4, <1>5, <2>1 DEF Untouched
<1>6. effects' \in Seq(Attempts)
  BY <1>1, <1>2, <1>3 DEF TypeOK
<1>7. TypeOK'
  <2>1. sequence' \in Nat /\ network' \subseteq Transaction
    BY <1>1, <1>2 DEF TypeOK
  <2>. QED  BY <1>1, <1>2, <1>4, <1>6, <2>1 DEF TypeOK
<1>8. Progress'
  <2>1. \A a \in Attempts : a > attempt => outcome[a].kind = "none" /\ Untouched(a)'
    BY <1>1, <1>5 DEF Progress
  <2>2. ASSUME stage \in {"account", "prepare", "sign", "send"} PROVE Untouched(attempt)'
    <3>1. attempt \in Attempts /\ Untouched(attempt)
      BY <1>1, <2>2 DEF Progress
    <3>2. attempt # t.attempt
      BY <3>1 DEF Untouched
    <3>. QED  BY <1>2, <1>4, <3>1, <3>2 DEF Untouched
  <2>. QED  BY <1>1, <1>2, <2>1, <2>2 DEF Progress
<1>9. OneEach'
  <2>1. ASSUME NEW u \in network' PROVE verdict'[u.attempt] = "NOT_FOUND"
    <3>1. u \in network /\ u # t
      BY <1>2
    <3>2. u.attempt # t.attempt /\ u.attempt \in Attempts /\ verdict[u.attempt] = "NOT_FOUND"
      BY <1>1, <3>1 DEF OneEach, TypeOK, Transaction
    <3>. QED  BY <1>4, <3>2
  <2>2. \A u, w \in network' : u.attempt = w.attempt => u = w
    BY <1>1, <1>2 DEF OneEach
  <2>. QED  BY <2>1, <2>2 DEF OneEach
<1>10. Told'
  BY <1>1, <1>2, <1>3, <1>4, <1>5 DEF Told
<1>11. InWindow'
  BY <1>1, <1>2 DEF InWindow
<1>12. Once'
  <2>1. CASE Effective
    <3>1. call \in {"settle", "register"} => effects = <<>>
      BY <2>1 DEF Effective, Rejection, AuctionError, NoError, ContractError, AlreadySettled
    <3>2. effects' = Append(effects, t.attempt)
      BY <1>2, <2>1
    <3>3. effects \in Seq(Attempts)
      BY <1>1 DEF TypeOK
    <3>4. Len(effects') = Len(effects) + 1
      BY <1>3, <3>2, <3>3
    <3>5. effects = <<>> => Len(effects) = 0
      OBVIOUS
    <3>. QED  BY <1>2, <3>1, <3>4, <3>5 DEF Once
  <2>2. CASE ~Effective
    BY <1>1, <1>2, <2>2 DEF Once
  <2>. QED  BY <2>1, <2>2
<1>. QED  BY <1>7, <1>8, <1>9, <1>10, <1>11, <1>12 DEF ClientInv

\* The rest of the world moves no attempt: it forgets transactions, takes
\* sequence numbers and slots, closes the auction, and time passes.
LEMMA WorldKeeps ==
    ASSUME ClientInv, clientVars' = clientVars, UNCHANGED <<call, verdict, effects>>,
           network' \subseteq network, sequence' \in Nat, others' \in Nat,
           taken' \in Nat, closed' \in BOOLEAN, now' \in 0..MaxTime, now' >= now,
           fault' \in {0} \cup (Faults \cap ArgumentChecks(call)), refusal' \in Refusals
    PROVE  ClientInv'
<1>1. TypeOK /\ Progress /\ OneEach /\ Told /\ InWindow /\ Once
  BY DEF ClientInv
<1>2. UNCHANGED <<attempt, stage, tx, polls, consecutivePollFailures, outcome>>
  BY DEF clientVars
<1>3. \A a \in Attempts : Untouched(a) => Untouched(a)'
  BY DEF Untouched
<1>4. Untouched(attempt) => Untouched(attempt)'
  BY <1>2 DEF Untouched
<1>5. TypeOK'
  BY <1>1, <1>2 DEF TypeOK
<1>6. Progress'
  BY <1>1, <1>2, <1>3, <1>4 DEF Progress
<1>7. OneEach'
  BY <1>1 DEF OneEach
<1>8. Told'
  BY <1>1, <1>2, <1>3 DEF Told
<1>9. InWindow'
  <2>1. now \in Nat /\ now' \in Nat /\ TX_TIMEOUT \in Nat
    BY <1>1, LimitsAssumption DEF TypeOK
  <2>2. ASSUME NEW u \in Transaction, u.validUntil <= now + TX_TIMEOUT
        PROVE  u.validUntil <= now' + TX_TIMEOUT
    <3>1. u.validUntil \in Nat
      BY LimitsAssumption DEF Transaction, Times
    <3>. QED  BY <2>1, <2>2, <3>1
  <2>3. tx \in Transaction /\ network \subseteq Transaction
    BY <1>1 DEF TypeOK
  <2>. QED  BY <1>1, <1>2, <2>2, <2>3 DEF InWindow
<1>10. Once'
  BY <1>1 DEF Once
<1>. QED  BY <1>5, <1>6, <1>7, <1>8, <1>9, <1>10 DEF ClientInv

LEMMA ClientStepKeeps == ClientInv /\ [Next]_vars => ClientInv'
<1>. SUFFICES ASSUME ClientInv, [Next]_vars PROVE ClientInv'  OBVIOUS
<1>1. TypeOK
  BY DEF ClientInv
<1>2. /\ now \in 0..MaxTime /\ MaxTime \in Nat /\ sequence \in Nat /\ others \in Nat
      /\ taken \in Nat /\ closed \in BOOLEAN /\ now >= now
      /\ fault \in {0} \cup (Faults \cap ArgumentChecks(call)) /\ refusal \in Refusals
  BY <1>1, LimitsAssumption DEF TypeOK
<1>3. CASE Start
  BY <1>3, StartKeeps
<1>4. CASE submitInvocation
  BY <1>4, GetAccountKeeps, PrepareKeeps, SignKeeps, SendKeeps, PollKeeps DEF submitInvocation
<1>5. CASE World
  <2>1. CASE \E t \in network : Apply(t)
    BY <2>1, ApplyKeeps
  <2>2. ASSUME NEW t \in network, Drop(t) PROVE ClientInv'
    BY <1>2, <2>2, WorldKeeps DEF Drop, worldVars
  <2>3. CASE OtherTransaction
    BY <1>2, <2>3, WorldKeeps DEF OtherTransaction, worldVars
  <2>4. CASE TakeSlot
    BY <1>2, <2>4, WorldKeeps DEF TakeSlot, ledgerVars
  <2>5. CASE Close
    BY <1>2, <2>5, WorldKeeps DEF Close, ledgerVars
  <2>6. CASE Tick
    BY <1>2, <2>6, WorldKeeps DEF Tick, ledgerVars, worldVars
  <2>7. CASE BiddingEnds
    BY <1>2, <2>7, WorldKeeps DEF BiddingEnds, ledgerVars
  <2>8. CASE TokenTurns
    BY <1>2, <2>8, WorldKeeps DEF TokenTurns, ledgerVars
  <2>. QED  BY <1>5, <2>1, <2>2, <2>3, <2>4, <2>5, <2>6, <2>7, <2>8 DEF World
<1>6. CASE vars' = vars
  BY <1>2, <1>6, WorldKeeps DEF vars, ledgerVars, worldVars
<1>. QED  BY <1>3, <1>4, <1>5, <1>6 DEF Next

LEMMA ClientInvHolds == Spec => []ClientInv
<1>1. Init => ClientInv
  BY ClientStarts
<1>2. ClientInv /\ [Next]_vars => ClientInv'
  BY ClientStepKeeps
<1>. QED  BY <1>1, <1>2, PTL DEF Spec

-----------------------------------------------------------------------------
(* What the runs check, for every value of the constants.                  *)

\* Every variable of the write path keeps its type, whatever is answered.
THEOREM TypeCorrect == Spec => []TypeOK
<1>1. ClientInv => TypeOK
  BY DEF ClientInv
<1>. QED  BY <1>1, ClientInvHolds, PTL

\* A reported success is on the chain, whatever earlier attempts are under way.
THEOREM SuccessIsOnChain == Spec => []ConfirmedIsOnChain
<1>1. ClientInv => ConfirmedIsOnChain
  BY DEF ClientInv, Told, ConfirmedIsOnChain
<1>. QED  BY <1>1, ClientInvHolds, PTL

\* "Nothing was sent" is true for ever: no such attempt is ever applied.
THEOREM NothingWasSent == Spec => []NeverSentNeverLands
<1>1. ClientInv => NeverSentNeverLands
  BY DEF ClientInv, Told, Untouched, Unsent, NeverSentNeverLands
<1>. QED  BY <1>1, ClientInvHolds, PTL

\* A failure older than the validity window is final.
THEOREM FailuresBecomeFinal == Spec => []WaitingOutTheWindowIsEnough
<1>1. ClientInv => WaitingOutTheWindowIsEnough
  BY DEF ClientInv, InWindow, WaitingOutTheWindowIsEnough
<1>. QED  BY <1>1, ClientInvHolds, PTL

\* What submitInvocation answered stays true of the ledger: the three together.
THEOREM AnswersBecomeFinal == Spec => []AnswersAreFinal
<1>1. ConfirmedIsOnChain /\ NeverSentNeverLands /\ WaitingOutTheWindowIsEnough
      => AnswersAreFinal
  BY DEF AnswersAreFinal
<1>. QED  BY <1>1, SuccessIsOnChain, NothingWasSent, FailuresBecomeFinal, PTL

\* Settling and registering are idempotent under every schedule of retries.
THEOREM RetriesTakeEffectOnce == Spec => []SafeToRetry
<1>1. ClientInv => SafeToRetry
  BY DEF ClientInv, Once, SafeToRetry
<1>. QED  BY <1>1, ClientInvHolds, PTL

-----------------------------------------------------------------------------
(* The sentences and their causes.                                         *)

Neutral == {"none", "ok", "rpc_unreachable", "wallet_declined", "submission_failed"}

\* Sentences that blame nothing are true.
LEMMA NeutralHolds == \A sentence \in Neutral : Holds(sentence)
  BY DEF Neutral, Holds

\* A refusal of the auction is named for what it is: of a bid the deadline or the
\* book, of a settlement its end or the check its arguments fail, of a creation
\* that check.
LEMMA AuctionErrorIsNamed ==
    ASSUME TypeOK, call \in AllCalls \ {"register"}, AuctionError # NoError
    PROVE  Holds(PreparationFailure(AuctionError))
<1>. USE DEF ContractError, NoError, LotAmountNotPositive, MaxPriceNotPositive,
             MaxPriceExceeds64Bits, DeadlineNotInFuture, GracePeriodZero, AlreadySettled,
             AlreadyRefunded, BidAfterDeadline, BidsFull, DuplicateCommitment,
             SettleBeforeDeadline, WinnerIndexOutOfRange, WinningPriceNotPositive,
             WinningPriceExceedsMax, WinnerAddressMismatch, ProofInvalid, VerifierCallFailed
<1>1. fault \in {0} \cup ArgumentChecks(call)
  BY DEF TypeOK
<1>2. CASE call = "place_bid"
  <2>1. fault = 0
    BY <1>1, <1>2 DEF ArgumentChecks
  <2>2. CASE closed
    <3>1. PreparationFailure(AuctionError) = "deadline_passed"
      BY <1>2, <2>2 DEF AuctionError, PreparationFailure, BidFailure, BidSentence
    <3>. QED  BY <2>2, <3>1 DEF Holds
  <2>3. CASE ~closed
    <3>1. SlotsFull /\ AuctionError = ContractError(10)
      BY <1>2, <2>1, <2>3 DEF AuctionError
    <3>2. PreparationFailure(AuctionError) = "slots_full"
      BY <1>2, <3>1 DEF PreparationFailure, BidFailure, BidSentence
    <3>. QED  BY <3>1, <3>2 DEF Holds
  <2>. QED  BY <2>2, <2>3
<1>3. CASE call = "create_auction"
  <2>1. AuctionError = ContractError(fault) /\ fault \in 2..6
    BY <1>1, <1>3 DEF AuctionError, ArgumentChecks
  <2>2. PreparationFailure(AuctionError) = CreateSentence(fault)
    BY <1>3, <2>1 DEF PreparationFailure, CreateFailure
  <2>3. Holds(CreateSentence(fault))
    BY <1>3, <2>1 DEF Holds, CreateSentence
  <2>. QED  BY <2>2, <2>3
<1>4. CASE call = "settle" /\ (closed \/ effects # <<>>)
  <2>1. PreparationFailure(AuctionError) = "already_finalized"
    BY <1>4 DEF AuctionError, PreparationFailure, SettleFailure, SettleSentence
  <2>. QED  BY <1>4, <2>1 DEF Holds
<1>5. CASE call = "settle" /\ ~(closed \/ effects # <<>>)
  <2>1. AuctionError = ContractError(fault) /\ fault \in 14..20
    BY <1>1, <1>5 DEF AuctionError, ArgumentChecks
  <2>2. PreparationFailure(AuctionError) = SettleSentence(fault)
    BY <1>5, <2>1 DEF PreparationFailure, SettleFailure
  <2>3. Holds(SettleSentence(fault))
    BY <1>5, <2>1 DEF Holds, SettleSentence
  <2>. QED  BY <2>2, <2>3
<1>. QED  BY <1>2, <1>3, <1>4, <1>5 DEF AllCalls

\* A refusal of a token is named for what it is, or for nothing, unless its words
\* are unknown and its number is one of the flow's own.
LEMMA TransferErrorIsNamed ==
    ASSUME TypeOK, call \in AllCalls \ {"register"}, AuctionError = NoError,
           TransferError # NoError, ~ReadAsTheAuctions
    PROVE  Holds(PreparationFailure(TransferError))
<1>. USE DEF LotAmountNotPositive, MaxPriceNotPositive,
             MaxPriceExceeds64Bits, DeadlineNotInFuture, GracePeriodZero, AlreadySettled,
             AlreadyRefunded, BidAfterDeadline, BidsFull, DuplicateCommitment,
             SettleBeforeDeadline, WinnerIndexOutOfRange, WinningPriceNotPositive,
             WinningPriceExceedsMax, WinnerAddressMismatch, ProofInvalid, VerifierCallFailed
<1>1. /\ refusal.marker \in BOOLEAN /\ refusal.code \in Nat
      /\ refusal.marker => refusal = TrustlineMissing
  BY RefusalsAreErrors DEF TypeOK
<1>2. Holds("submission_failed")
  BY DEF Holds
<1>3. CASE call = "settle"
  <2>1. TransferError = refusal /\ refusal # NoError
    BY <1>3 DEF TransferError
  <2>2. refusal.code \notin {7, 8} \cup 14..20 /\ refusal.code \in Nat
    BY <1>1, <1>3 DEF ReadAsTheAuctions, NamedCodes
  <2>3. PreparationFailure(TransferError) = "submission_failed"
    BY <1>3, <2>1, <2>2 DEF PreparationFailure, SettleFailure, SettleSentence
  <2>. QED  BY <1>2, <2>3
<1>4. CASE call \in {"place_bid", "create_auction"} /\ TransferError.marker
  <2>1. (TransferError = BalanceError /\ Short) \/ TransferError = refusal
    BY <1>4 DEF TransferError
  <2>2. Uncovered
    BY <1>1, <1>4, <2>1 DEF Uncovered
  <2>3. PreparationFailure(TransferError) \in {"deposit_uncovered", "lot_uncovered"}
    BY <1>4 DEF PreparationFailure, BidFailure, CreateFailure
  <2>. QED  BY <2>2, <2>3 DEF Holds
<1>5. CASE call \in {"place_bid", "create_auction"} /\ ~TransferError.marker
  <2>1. TransferError = refusal
    BY <1>5 DEF TransferError, BalanceError
  <2>2. refusal.code \notin NamedCodes(call) /\ refusal.code \in Nat
    BY <1>1, <1>5, <2>1 DEF ReadAsTheAuctions
  <2>3. PreparationFailure(TransferError) = "submission_failed"
    BY <1>5, <2>1, <2>2
       DEF NamedCodes, PreparationFailure, BidFailure, CreateFailure, BidSentence, CreateSentence
  <2>. QED  BY <1>2, <2>3
<1>. QED  BY <1>3, <1>4, <1>5 DEF AllCalls

\* So the sentence of a rejected simulation names its cause.
LEMMA RejectionIsNamed ==
    ASSUME TypeOK, Rejection # NoError, ~ReadAsTheAuctions
    PROVE  Holds(PreparationFailure(Rejection))
<1>1. call \in AllCalls \ {"register"}
  BY CallsAssumption DEF TypeOK, Rejection
<1>2. CASE AuctionError # NoError
  <2>1. Rejection = AuctionError
    BY <1>1, <1>2 DEF Rejection
  <2>. QED  BY <1>1, <1>2, <2>1, AuctionErrorIsNamed
<1>3. CASE AuctionError = NoError
  <2>1. Rejection = TransferError
    BY <1>1, <1>3 DEF Rejection
  <2>. QED  BY <1>1, <1>3, <2>1, TransferErrorIsNamed
<1>. QED  BY <1>2, <1>3

\* A step shows nothing new, or a sentence that names a cause.
LEMMA ShownHolds ==
    ASSUME TypeOK, [Next]_vars, NEW a \in Attempts,
           outcome'[a].shown # outcome[a].shown
    PROVE  Holds(outcome'[a].shown) \/ ReadAsTheAuctions
<1>. DEFINE Spoken(sentence) == Holds(sentence) \/ ReadAsTheAuctions
<1>1. ASSUME NEW kind, NEW sentence, Finish(kind, sentence), Spoken(sentence)
      PROVE  Spoken(outcome'[a].shown)
  <2>1. outcome' = [outcome EXCEPT ![attempt] = [kind |-> kind, shown |-> sentence]]
    BY <1>1 DEF Finish
  <2>2. outcome'[a].shown \in {outcome[a].shown, sentence}
    BY <2>1 DEF TypeOK
  <2>3. outcome'[a].shown = sentence
    BY <2>2
  <2>. QED  BY <1>1, <2>3
<1>2. ASSUME NEW kind, NEW sentence \in Neutral, Finish(kind, sentence)
      PROVE  Spoken(outcome'[a].shown)
  BY <1>1, <1>2, NeutralHolds
<1>3. /\ "ok" \in Neutral /\ "rpc_unreachable" \in Neutral
      /\ "wallet_declined" \in Neutral /\ "submission_failed" \in Neutral
  BY DEF Neutral
<1>4. CASE outcome' = outcome
  BY <1>4
<1>5. CASE Start \/ World \/ UNCHANGED vars
  <2>1. outcome' = outcome
    BY <1>5 DEF Start, World, Apply, Drop, OtherTransaction, TakeSlot, Close, BiddingEnds,
                TokenTurns, Tick, vars, clientVars
  <2>. QED  BY <1>4, <2>1
<1>6. CASE GetAccount
  BY <1>2, <1>3, <1>4, <1>6 DEF GetAccount
<1>7. CASE Prepare
  <2>1. CASE Await("sign")
    BY <1>4, <2>1 DEF Await
  <2>2. CASE Rejection # NoError /\ Finish("prepare_failed", PreparationFailure(Rejection))
    BY <1>1, <2>2, RejectionIsNamed
  <2>3. CASE Finish("prepare_failed", "submission_failed")
    BY <1>2, <1>3, <2>3
  <2>. QED  BY <1>7, <2>1, <2>2, <2>3 DEF Prepare
<1>8. CASE Sign
  BY <1>2, <1>3, <1>4, <1>8 DEF Sign, Await
<1>9. CASE Send
  BY <1>2, <1>3, <1>4, <1>9 DEF Send
<1>10. CASE Poll
  <2>1. ASSUME NEW failed, KeepPolling(failed)
        PROVE  Spoken(outcome'[a].shown)
    BY <1>2, <1>3, <1>4, <2>1 DEF KeepPolling
  <2>. QED  BY <1>2, <1>3, <1>10, <2>1 DEF Poll
<1>. QED  BY <1>5, <1>6, <1>7, <1>8, <1>9, <1>10 DEF Next, submitInvocation

\* Whatever sentence a failure is given names a cause that holds when it is shown,
\* for any arguments and whatever the tokens refuse with, unless a token's refusal
\* comes in unknown words with a number the flow has a sentence for (errors.ts).
THEOREM SentencesAreTrue == Spec => SentencesNameTheCause
<1>1. TypeOK /\ [Next]_vars
      => \A a \in Attempts :
            outcome'[a].shown # outcome[a].shown =>
                Holds(outcome'[a].shown) \/ ReadAsTheAuctions
  BY ShownHolds
<1>. QED  BY <1>1, TypeCorrect, PTL DEF Spec, SentencesNameTheCause

-----------------------------------------------------------------------------
(* THE OPERATOR'S SELECTION.                                               *)

USE SelectionAssumption

\* Every revealed bid is the one its bidder committed to.
Opens == \A i \in Slots : revealed[i].honest

\* The first loop has seen the slots below slotIndex.
WinnerSoFar ==
    /\ slotIndex = 1 => winnerIndex = 0 /\ winnerPrice = -1
    /\ slotIndex > 1 =>
          /\ winnerIndex \in 1..(slotIndex - 1)
          /\ winnerPrice = Price(winnerIndex)
          /\ \A i \in 1..(slotIndex - 1) :
                /\ Price(i) <= winnerPrice
                /\ i < winnerIndex => Price(i) < winnerPrice

\* The first loop is over.
WinnerFound ==
    /\ winnerIndex \in Slots
    /\ winnerPrice = Price(winnerIndex)
    /\ HoldsMaximum(RevealedPrices, winnerIndex)

\* The second loop has seen the slots below n.
BestRivalBelow(n) ==
    /\ clearingPrice = 0 \/ \E i \in Slots \ {winnerIndex} : Price(i) = clearingPrice
    /\ \A i \in Slots \ {winnerIndex} : i < n => Price(i) <= clearingPrice

\* Both loops are over.
Selected == WinnerFound /\ BestRivalBelow(MaxBidSlots + 1)

SelectionInv ==
    /\ SelectionTypeOK
    /\ operatorPhase = "verifying" => slotIndex = 1 /\ winnerIndex = 0 /\ winnerPrice = -1
    /\ operatorPhase \in {"verifying", "winner"} => clearingPrice = 0
    /\ operatorPhase \notin {"verifying", "aborted"} => Opens
    /\ operatorPhase = "winner" => WinnerSoFar
    /\ operatorPhase = "clearing" => WinnerFound /\ BestRivalBelow(slotIndex)
    /\ operatorPhase \in {"checking", "done", "unavailable"} => Selected
    /\ operatorPhase = "done" =>
          /\ settleBundle = [winnerIndex |-> winnerIndex, winningPrice |-> clearingPrice]
          /\ WinnerStatement(PublicSignals(winnerIndex, clearingPrice), RevealedPrices, RevealedSalts)
    /\ NeverAbortsASettleableAuction

-----------------------------------------------------------------------------
(* The revealed bids and what their commitments open to.                   *)

LEMMA BookFacts ==
    ASSUME revealed \in [Slots -> RevealedBids \cup {NoBid}]
    PROVE  /\ \A i \in Slots : Price(i) \in 0..PriceBound /\ Price(i) \in Nat
           /\ \A i \in Slots : RevealedPrices[i] = Price(i)
           /\ \A i \in Slots : RevealedPrices[i] \in Nat
           /\ \A i \in Slots : ~Filled(i) => Price(i) = 0
           /\ \A i \in Slots : revealed[i].honest \in BOOLEAN
           /\ \A i \in Slots : i \in 1..MaxBidSlots /\ i \in Nat
<1>1. \A i \in Slots : revealed[i] \in RevealedBids \/ revealed[i] = NoBid
    OBVIOUS
<1>2. \A i \in Slots : revealed[i].price \in 0..PriceBound /\ revealed[i].honest \in BOOLEAN
    <2>1. \A b \in RevealedBids : b.price \in 0..PriceBound /\ b.honest \in BOOLEAN
        BY DEF RevealedBids
    <2>2. NoBid.price = 0 /\ NoBid.honest = TRUE
        BY DEF NoBid
    <2>3. 0 \in 0..PriceBound
        OBVIOUS
    <2> QED BY <1>1, <2>1, <2>2, <2>3
<1>3. \A i \in Slots : Price(i) \in 0..PriceBound /\ Price(i) \in Nat
    BY <1>2 DEF Price
<1>4. \A i \in Slots : ~Filled(i) => Price(i) = 0
    BY DEF Price, Filled, NoBid
<1>5. \A i \in Slots : i \in 1..MaxBidSlots /\ i \in Nat
    BY SlotsAssumption DEF Slots
<1> QED BY <1>2, <1>3, <1>4, <1>5 DEF RevealedPrices

\* The check that VerifySlots makes passes exactly for a book that opens.
LEMMA CheckIsOpens ==
    ASSUME revealed \in [Slots -> RevealedBids \cup {NoBid}]
    PROVE  Opens <=> \A i \in Slots : Filled(i) =>
                        Poseidon3(Price(i), RevealedSalts[i], 1) = Commitments[i]
<1>1. ASSUME NEW i \in Slots, Filled(i)
      PROVE  revealed[i].honest <=> Poseidon3(Price(i), RevealedSalts[i], 1) = Commitments[i]
    <2>1. RevealedSalts[i] = i /\ Commitments[i] = Poseidon3(CommittedPrice(i), i, 1)
        BY <1>1 DEF RevealedSalts, Commitments
    <2>2. Price(i) \in Nat /\ revealed[i].honest \in BOOLEAN
        BY BookFacts
    <2>3. revealed[i].honest <=> CommittedPrice(i) = Price(i)
        BY <2>2 DEF CommittedPrice
    <2>4. Poseidon3(Price(i), i, 1) = Poseidon3(CommittedPrice(i), i, 1)
            <=> CommittedPrice(i) = Price(i)
        <3>1. Poseidon3(Price(i), i, 1).price = Price(i)
              /\ Poseidon3(CommittedPrice(i), i, 1).price = CommittedPrice(i)
            BY DEF Poseidon3
        <3> QED BY <3>1
    <2> QED BY <2>1, <2>3, <2>4
<1>2. \A i \in Slots : ~Filled(i) => revealed[i].honest
    BY DEF Filled, NoBid
<1> QED BY <1>1, <1>2 DEF Opens

\* Of a book that opens, the verifier sees the revealed prices and salts.
LEMMA OpenedIsRevealed ==
    ASSUME revealed \in [Slots -> RevealedBids \cup {NoBid}], Opens
    PROVE  /\ OpenedPrices(Commitments) = RevealedPrices
           /\ OpenedSalts(Commitments) = RevealedSalts
<1>1. ASSUME NEW i \in Slots, Filled(i)
      PROVE  /\ Commitments[i] # EmptyCommitment
             /\ Commitments[i].price = Price(i) /\ Commitments[i].salt = i
    <2>1. Commitments[i] = Poseidon3(Price(i), i, 1)
        BY <1>1 DEF Commitments, CommittedPrice, Opens
    <2>2. Price(i) \in Int /\ i \in Int
        BY BookFacts
    <2> QED BY <2>1, <2>2, EmptyAssumption DEF Poseidon3
<1>2. ASSUME NEW i \in Slots, ~Filled(i)
      PROVE  Commitments[i] = EmptyCommitment /\ Price(i) = 0
    BY <1>2, BookFacts DEF Commitments
<1>3. OpenedPrices(Commitments) = RevealedPrices
    BY <1>1, <1>2 DEF OpenedPrices, RevealedPrices
<1>4. OpenedSalts(Commitments) = RevealedSalts
    BY <1>1, <1>2 DEF OpenedSalts, RevealedSalts
<1> QED BY <1>3, <1>4

LEMMA SelectionSignals ==
    ASSUME NEW w, NEW p
    PROVE  /\ PublicSignals(w, p).commitments = Commitments
           /\ PublicSignals(w, p).winnerIndex = w
           /\ PublicSignals(w, p).winningPrice = p
           /\ PublicSignals(w, p).whitelistRoot = root
           /\ PublicSignals(w, p).auctionId = 1
           /\ w \in Slots => PublicSignals(w, p).winnerAddrHash = revealed[w].bidder
BY DEF PublicSignals

\* Of a book that opens, whatever claim the verifier accepts is the selected one.
LEMMA AcceptedIsVickrey ==
    ASSUME revealed \in [Slots -> RevealedBids \cup {NoBid}], Opens,
           NEW w \in Slots, NEW p \in 0..PriceBound, Verify(PublicSignals(w, p))
    PROVE  /\ HoldsMaximum(RevealedPrices, w) /\ IsClearingPrice(RevealedPrices, w, p)
           /\ p # 0 /\ revealed[w].bidder \in root
           /\ WinnerStatement(PublicSignals(w, p), RevealedPrices, RevealedSalts)
<1>1. WinnerStatement(PublicSignals(w, p), RevealedPrices, RevealedSalts)
    BY OpenedIsRevealed, SelectionSignals DEF Verify
<1>2. \A i \in Slots : RevealedPrices[i] \in Nat
    BY BookFacts
<1>3. HoldsMaximum(RevealedPrices, w) /\ p = RunningSecondMax(OtherPrices(RevealedPrices, w))
      /\ p # 0 /\ revealed[w].bidder \in root
    BY <1>1, SelectionSignals DEF WinnerStatement
<1>4. IsClearingPrice(RevealedPrices, w, p)
    BY <1>2, <1>3, PriceIsClearing
<1> QED BY <1>1, <1>3, <1>4

\* Two slots that hold the maximum are one, and so are two best rival prices.
LEMMA SelectionUnique ==
    ASSUME NEW price, \A i \in Slots : price[i] \in Nat,
           NEW w1 \in Slots, NEW w2 \in Slots, HoldsMaximum(price, w1), HoldsMaximum(price, w2),
           NEW p1 \in Nat, NEW p2 \in Nat,
           IsClearingPrice(price, w1, p1), IsClearingPrice(price, w2, p2)
    PROVE  w1 = w2 /\ p1 = p2
<1>1. w1 = w2
    BY SlotsAssumption DEF HoldsMaximum, Slots
<1> QED BY <1>1, PriceIsClearing

\* Both loops over: the reference outcome.
LEMMA SelectedIsVickrey ==
    ASSUME SelectionTypeOK, Selected
    PROVE  /\ IsVickreyWinner(RevealedPrices, winnerIndex)
           /\ IsClearingPrice(RevealedPrices, winnerIndex, clearingPrice)
<1>1. \A i \in Slots : RevealedPrices[i] = Price(i) /\ RevealedPrices[i] \in Nat /\ i < MaxBidSlots + 1
    BY BookFacts, SlotsAssumption DEF SelectionTypeOK
<1>2. IsVickreyWinner(RevealedPrices, winnerIndex)
    BY <1>1, WinnerIsVickrey DEF Selected, WinnerFound
<1>3. IsClearingPrice(RevealedPrices, winnerIndex, clearingPrice)
    BY <1>1 DEF Selected, BestRivalBelow, IsClearingPrice
<1> QED BY <1>2, <1>3

-----------------------------------------------------------------------------
(* The invariant.                                                          *)

LEMMA SelectionStarts == SelectionInit => SelectionInv
  BY SlotsAssumption DEF SelectionInit, SelectionInv, SelectionTypeOK, Slots, NoSettleBundle,
      NeverAbortsASettleableAuction

\* The loop moves on to the next slot, or ends after the last one.
LEMMA LoopFacts ==
    ASSUME NEW next, AdvanceLoop(next), slotIndex \in Slots
    PROVE  /\ slotIndex' \in Slots
           /\ \/ slotIndex = MaxBidSlots /\ slotIndex' = 1 /\ operatorPhase' = next
              \/ slotIndex < MaxBidSlots /\ slotIndex' = slotIndex + 1 /\ operatorPhase' = operatorPhase
BY SlotsAssumption DEF AdvanceLoop, Slots

\* What a step of a loop or an end leaves as it was.
SameBook == revealed' = revealed /\ whitelistMembers' = whitelistMembers /\ root' = root

LEMMA SameBookFacts ==
    ASSUME SameBook
    PROVE  /\ Opens' <=> Opens
           /\ RevealedPrices' = RevealedPrices
           /\ \A i : Price(i)' = Price(i)
           /\ \A i : Filled(i)' <=> Filled(i)
           /\ RevealedSalts' = RevealedSalts
           /\ \A w, p : PublicSignals(w, p)' = PublicSignals(w, p)
BY DEF SameBook, Opens, RevealedPrices, Price, Filled, RevealedSalts, PublicSignals,
    Commitments, CommittedPrice

\* One slot of the first loop.
LEMMA PickWinnerKeeps ==
    ASSUME SelectionInv, PickWinner
    PROVE  SelectionInv'
<1>1. /\ SameBook /\ operatorPhase = "winner" /\ clearingPrice' = clearingPrice /\ settleBundle' = settleBundle
      /\ slotIndex \in Slots
    BY DEF PickWinner, SameBook, SelectionInv, SelectionTypeOK
<1>2. /\ Opens /\ WinnerSoFar /\ clearingPrice = 0
      /\ \A i \in Slots : Price(i) \in 0..PriceBound /\ Price(i) \in Nat
    BY <1>1, BookFacts DEF SelectionInv, SelectionTypeOK
<1>3. /\ slotIndex' \in Slots
      /\ \/ slotIndex = MaxBidSlots /\ slotIndex' = 1 /\ operatorPhase' = "clearing"
         \/ slotIndex < MaxBidSlots /\ slotIndex' = slotIndex + 1 /\ operatorPhase' = "winner"
    BY <1>1, LoopFacts DEF PickWinner
<1>4. /\ winnerIndex' \in 1..slotIndex
      /\ winnerPrice' = Price(winnerIndex')
      /\ \A i \in 1..slotIndex : /\ Price(i) <= winnerPrice'
                                 /\ i < winnerIndex' => Price(i) < winnerPrice'
    <2>1. slotIndex \in Nat /\ slotIndex >= 1 /\ \A i \in 1..slotIndex : Price(i) \in Nat
        BY <1>1, <1>2, SlotsAssumption DEF Slots
    <2>2. \A i \in 1..slotIndex : i \in 1..(slotIndex - 1) \/ i = slotIndex
        BY <2>1
    <2>3. CASE TakesOver(Price(slotIndex), winnerPrice)
        <3>1. winnerPrice' = Price(slotIndex) /\ winnerIndex' = slotIndex
            BY <2>3 DEF PickWinner
        <3>2. \A i \in 1..(slotIndex - 1) : Price(i) < Price(slotIndex)
            BY <1>2, <2>1, <2>3 DEF TakesOver, WinnerSoFar
        <3> QED BY <2>1, <2>2, <3>1, <3>2
    <2>4. CASE ~TakesOver(Price(slotIndex), winnerPrice)
        <3>1. winnerPrice' = winnerPrice /\ winnerIndex' = winnerIndex
            BY <2>4 DEF PickWinner
        <3>2. slotIndex > 1 /\ Price(slotIndex) <= winnerPrice
            BY <1>2, <2>1, <2>4 DEF TakesOver, WinnerSoFar
        <3>3. winnerIndex \in 1..(slotIndex - 1) /\ winnerPrice = Price(winnerIndex)
              /\ \A i \in 1..(slotIndex - 1) :
                    /\ Price(i) <= winnerPrice
                    /\ i < winnerIndex => Price(i) < winnerPrice
            BY <1>2, <3>2 DEF WinnerSoFar
        <3> QED BY <2>1, <2>2, <3>1, <3>2, <3>3
    <2> QED BY <2>3, <2>4
<1>5. SelectionTypeOK'
    <2>1. winnerIndex' \in 0..MaxBidSlots /\ winnerPrice' \in -1..PriceBound
        BY <1>1, <1>2, <1>4, SlotsAssumption DEF Slots
    <2> QED BY <1>1, <1>3, <2>1 DEF SelectionInv, SelectionTypeOK, SameBook
<1>6. CASE slotIndex = MaxBidSlots /\ slotIndex' = 1 /\ operatorPhase' = "clearing"
    <2>1. WinnerFound'
        <3>1. winnerIndex' \in Slots /\ winnerPrice' = Price(winnerIndex)'
            BY <1>1, <1>4, <1>6 DEF Slots, Price, SameBook
        <3>2. HoldsMaximum(RevealedPrices, winnerIndex')
            BY <1>2, <1>4, <1>6 DEF HoldsMaximum, RevealedPrices, Slots
        <3>3. HoldsMaximum(RevealedPrices, winnerIndex)'
            BY <1>1, <3>2 DEF HoldsMaximum, RevealedPrices, Price, SameBook
        <3> QED BY <3>1, <3>3 DEF WinnerFound
    <2>2. BestRivalBelow(1)'
        BY <1>1, <1>2, SlotsAssumption DEF BestRivalBelow, Slots
    <2> QED BY <1>1, <1>2, <1>5, <1>6, <2>1, <2>2, SameBookFacts
            DEF SelectionInv, BestRivalBelow, NeverAbortsASettleableAuction
<1>7. CASE slotIndex < MaxBidSlots /\ slotIndex' = slotIndex + 1 /\ operatorPhase' = "winner"
    <2>1. WinnerSoFar'
        BY <1>1, <1>4, <1>7, SlotsAssumption, SameBookFacts DEF WinnerSoFar, Slots
    <2> QED BY <1>1, <1>2, <1>5, <1>7, <2>1, SameBookFacts
            DEF SelectionInv, NeverAbortsASettleableAuction
<1> QED BY <1>3, <1>6, <1>7

\* One slot of the second loop.
LEMMA PickClearingPriceKeeps ==
    ASSUME SelectionInv, PickClearingPrice
    PROVE  SelectionInv'
<1>1. /\ SameBook /\ operatorPhase = "clearing" /\ settleBundle' = settleBundle
      /\ winnerIndex' = winnerIndex /\ winnerPrice' = winnerPrice /\ slotIndex \in Slots
    BY DEF PickClearingPrice, SameBook, SelectionInv, SelectionTypeOK
<1>2. /\ Opens /\ WinnerFound /\ BestRivalBelow(slotIndex) /\ clearingPrice \in 0..PriceBound
      /\ \A i \in Slots : Price(i) \in 0..PriceBound /\ Price(i) \in Nat /\ i \in Nat
    BY <1>1, BookFacts DEF SelectionInv, SelectionTypeOK
<1>3. /\ slotIndex' \in Slots
      /\ \/ slotIndex = MaxBidSlots /\ slotIndex' = 1 /\ operatorPhase' = "checking"
         \/ slotIndex < MaxBidSlots /\ slotIndex' = slotIndex + 1 /\ operatorPhase' = "clearing"
    BY <1>1, LoopFacts DEF PickClearingPrice
<1>4. /\ clearingPrice' = 0 \/ \E i \in Slots \ {winnerIndex} : Price(i) = clearingPrice'
      /\ \A i \in Slots \ {winnerIndex} : i < slotIndex + 1 => Price(i) <= clearingPrice'
      /\ clearingPrice' \in 0..PriceBound
    <2>1. \A i \in Slots : i < slotIndex + 1 => i < slotIndex \/ i = slotIndex
        BY <1>1, <1>2
    <2>2. CASE slotIndex # winnerIndex /\ TakesOver(Price(slotIndex), clearingPrice)
        <3>1. clearingPrice' = Price(slotIndex) /\ Price(slotIndex) > clearingPrice
            BY <2>2 DEF PickClearingPrice, TakesOver
        <3>2. \E i \in Slots \ {winnerIndex} : Price(i) = clearingPrice'
            BY <1>1, <2>2, <3>1
        <3>3. \A i \in Slots \ {winnerIndex} : i < slotIndex + 1 => Price(i) <= clearingPrice'
            BY <1>1, <1>2, <2>1, <3>1 DEF BestRivalBelow
        <3> QED BY <1>1, <1>2, <3>1, <3>2, <3>3
    <2>3. CASE ~(slotIndex # winnerIndex /\ TakesOver(Price(slotIndex), clearingPrice))
        <3>1. clearingPrice' = clearingPrice
            BY <2>3 DEF PickClearingPrice
        <3>2. \A i \in Slots \ {winnerIndex} : i < slotIndex + 1 => Price(i) <= clearingPrice
            BY <1>1, <1>2, <2>1, <2>3 DEF BestRivalBelow, TakesOver
        <3> QED BY <1>2, <3>1, <3>2 DEF BestRivalBelow
    <2> QED BY <2>2, <2>3
<1>5. SelectionTypeOK'
    BY <1>1, <1>3, <1>4 DEF SelectionInv, SelectionTypeOK, SameBook
<1>6. WinnerFound' /\ Opens'
    BY <1>1, <1>2 DEF WinnerFound, HoldsMaximum, Opens, RevealedPrices, Price, SameBook
<1>7. operatorPhase' = "clearing" => BestRivalBelow(slotIndex)'
    BY <1>1, <1>3, <1>4 DEF BestRivalBelow, Price, SameBook
<1>8. operatorPhase' = "checking" => Selected'
    BY <1>1, <1>2, <1>3, <1>4, <1>6 DEF BestRivalBelow, Selected, Price, SameBook
<1> QED BY <1>3, <1>5, <1>6, <1>7, <1>8 DEF SelectionInv, NeverAbortsASettleableAuction

-----------------------------------------------------------------------------
\* Giving up is right: no claim about this book has a proof.
NothingProvable ==
    whitelistMembers = root /\ Opens =>
        \A winner \in Slots, price \in 0..PriceBound : ~Verify(PublicSignals(winner, price))

LEMMA AbortKeeps ==
    ASSUME SelectionInv, Abort, NothingProvable
    PROVE  SelectionInv'
<1>1. /\ SameBook /\ operatorPhase' = "aborted"
      /\ UNCHANGED <<slotIndex, winnerIndex, winnerPrice, clearingPrice, settleBundle>>
    BY DEF Abort, SameBook
<1>2. SelectionTypeOK'
    BY <1>1 DEF SelectionInv, SelectionTypeOK, SameBook
<1>3. NeverAbortsASettleableAuction'
    <2>1. whitelistMembers' = root' /\ Opens' =>
            \A w \in Slots, p \in 0..PriceBound : ~Verify(PublicSignals(w, p)')
        BY <1>1, SameBookFacts DEF NothingProvable, SameBook
    <2> QED BY <2>1 DEF NeverAbortsASettleableAuction, Opens
<1> QED BY <1>1, <1>2, <1>3 DEF SelectionInv

\* No bid at all: the prices the commitments open to are all 0.
LEMMA NothingRevealedIsRight ==
    ASSUME SelectionInv, NothingRevealed
    PROVE  NothingProvable
<1>1. revealed \in [Slots -> RevealedBids \cup {NoBid}]
    BY DEF SelectionInv, SelectionTypeOK
<1>2. SUFFICES ASSUME Opens, NEW w \in Slots, NEW p \in 0..PriceBound, Verify(PublicSignals(w, p))
               PROVE  FALSE
    BY DEF NothingProvable
<1>3. IsClearingPrice(RevealedPrices, w, p) /\ p # 0
    BY <1>1, <1>2, AcceptedIsVickrey
<1>4. \A i \in Slots : RevealedPrices[i] = 0
    BY <1>1, BookFacts DEF NothingRevealed
<1> QED BY <1>3, <1>4 DEF IsClearingPrice

\* After both loops a claim with a proof is the selected outcome, and it passes
\* the checks and the prover.
LEMMA AcceptedIsSelected ==
    ASSUME SelectionInv, Opens, Selected,
           NEW w \in Slots, NEW p \in 0..PriceBound, Verify(PublicSignals(w, p))
    PROVE  w = winnerIndex /\ p = clearingPrice
<1>1. /\ \A i \in Slots : RevealedPrices[i] \in Nat
      /\ clearingPrice \in Nat /\ p \in Nat
    BY BookFacts DEF SelectionInv, SelectionTypeOK
<1>2. /\ HoldsMaximum(RevealedPrices, w) /\ IsClearingPrice(RevealedPrices, w, p)
    BY AcceptedIsVickrey DEF SelectionInv, SelectionTypeOK
<1>3. /\ winnerIndex \in Slots /\ HoldsMaximum(RevealedPrices, winnerIndex)
      /\ IsClearingPrice(RevealedPrices, winnerIndex, clearingPrice)
    BY SelectedIsVickrey DEF SelectionInv, Selected, WinnerFound
<1> QED BY <1>1, <1>2, <1>3, SelectionUnique

LEMMA AcceptedIsSettleable ==
    ASSUME SelectionInv, Opens, Selected, whitelistMembers = root,
           NEW w \in Slots, NEW p \in 0..PriceBound, Verify(PublicSignals(w, p))
    PROVE  /\ CanProve
           /\ WinnerStatement(PublicSignals(winnerIndex, clearingPrice), RevealedPrices, RevealedSalts)
<1>1. w = winnerIndex /\ p = clearingPrice
    BY AcceptedIsSelected
<1>2. /\ HoldsMaximum(RevealedPrices, w) /\ IsClearingPrice(RevealedPrices, w, p)
      /\ p # 0 /\ revealed[w].bidder \in root
      /\ WinnerStatement(PublicSignals(w, p), RevealedPrices, RevealedSalts)
    BY AcceptedIsVickrey DEF SelectionInv, SelectionTypeOK
<1>3. \A i \in Slots : RevealedPrices[i] = Price(i) /\ RevealedPrices[i] \in Nat /\ (~Filled(i) => Price(i) = 0)
    BY BookFacts DEF SelectionInv, SelectionTypeOK
<1>4. winnerPrice = Price(winnerIndex) /\ winnerIndex \in Slots /\ winnerIndex > 0
    BY SlotsAssumption DEF Selected, WinnerFound, Slots
<1>5. clearingPrice > 0 /\ winnerPrice > 0 /\ Filled(winnerIndex)
    <2>1. PICK i \in Slots : RevealedPrices[i] = p
        BY <1>2 DEF IsClearingPrice
    <2>2. RevealedPrices[w] >= RevealedPrices[i] /\ p \in Nat
        BY <1>2, <2>1 DEF HoldsMaximum
    <2> QED BY <1>1, <1>2, <1>3, <1>4, <2>1, <2>2
<1> QED BY <1>1, <1>2, <1>4, <1>5 DEF CanProve

LEMMA GiveUpIsRight ==
    ASSUME SelectionInv, GiveUp \/ ProofRejected
    PROVE  NothingProvable
<1>1. Selected /\ Opens
    BY DEF GiveUp, ProofRejected, SelectionInv
<1>2. SUFFICES ASSUME whitelistMembers = root, NEW w \in Slots, NEW p \in 0..PriceBound,
                      Verify(PublicSignals(w, p))
               PROVE  FALSE
    BY DEF NothingProvable
<1>3. /\ CanProve
      /\ WinnerStatement(PublicSignals(winnerIndex, clearingPrice), RevealedPrices, RevealedSalts)
    BY <1>1, <1>2, AcceptedIsSettleable
<1> QED BY <1>3 DEF GiveUp, ProofRejected

-----------------------------------------------------------------------------
\* The ends that are not an abort.
LEMMA PassKeeps ==
    ASSUME SelectionInv, VerifySlots \/ ProveCircuit \/ ProverUnavailable
    PROVE  SelectionInv'
<1>1. SameBook /\ UNCHANGED <<slotIndex, winnerIndex, winnerPrice, clearingPrice>>
    BY DEF VerifySlots, ProveCircuit, ProverUnavailable, SameBook
<1>2. CASE VerifySlots
    <2>1. Opens
        BY <1>2, CheckIsOpens DEF VerifySlots, SelectionInv, SelectionTypeOK
    <2>2. /\ slotIndex = 1 /\ winnerIndex = 0 /\ winnerPrice = -1 /\ clearingPrice = 0
          /\ operatorPhase' = "winner" /\ settleBundle' = settleBundle
        BY <1>2 DEF VerifySlots, SelectionInv
    <2>3. SelectionTypeOK'
        BY <1>1, <2>2 DEF SelectionInv, SelectionTypeOK, SameBook
    <2> QED BY <1>1, <2>1, <2>2, <2>3, SameBookFacts
            DEF SelectionInv, WinnerSoFar, NeverAbortsASettleableAuction
<1>3. CASE ProveCircuit \/ ProverUnavailable
    <2>1. operatorPhase = "checking" /\ Selected /\ Opens
        BY <1>3 DEF ProveCircuit, ProverUnavailable, SelectionInv
    <2>2. \/ operatorPhase' = "unavailable" /\ settleBundle' = settleBundle
          \/ /\ operatorPhase' = "done"
             /\ settleBundle' = [winnerIndex |-> winnerIndex, winningPrice |-> clearingPrice]
             /\ WinnerStatement(PublicSignals(winnerIndex, clearingPrice), RevealedPrices, RevealedSalts)
        BY <1>3 DEF ProveCircuit, ProverUnavailable
    <2>3. SelectionTypeOK'
        BY <1>1, <2>2 DEF SelectionInv, SelectionTypeOK, SameBook
    <2>4. Selected' /\ Opens'
        BY <1>1, <2>1, SameBookFacts DEF Selected, WinnerFound, BestRivalBelow, HoldsMaximum
    <2>5. operatorPhase' = "done" =>
            WinnerStatement(PublicSignals(winnerIndex, clearingPrice), RevealedPrices, RevealedSalts)'
        <3>1. PublicSignals(winnerIndex, clearingPrice)' = PublicSignals(winnerIndex, clearingPrice)
            BY <1>1 DEF PublicSignals, Commitments, CommittedPrice, Filled, Price, SameBook
        <3>2. RevealedPrices' = RevealedPrices /\ RevealedSalts' = RevealedSalts
            BY <1>1, SameBookFacts
        <3> QED BY <2>2, <3>1, <3>2
    <2> QED BY <1>1, <2>2, <2>3, <2>4, <2>5 DEF SelectionInv, NeverAbortsASettleableAuction
<1> QED BY <1>2, <1>3

LEMMA SelectionStepKeeps ==
    ASSUME SelectionInv, [SelectionNext]_selectionVars
    PROVE  SelectionInv'
<1>1. CASE NothingRevealed
    BY <1>1, NothingRevealedIsRight, AbortKeeps DEF NothingRevealed
<1>2. CASE VerifySlotsFails
    <2>1. NothingProvable
        BY <1>2, CheckIsOpens DEF VerifySlotsFails, NothingProvable, SelectionInv, SelectionTypeOK
    <2> QED BY <1>2, <2>1, AbortKeeps DEF VerifySlotsFails
<1>3. CASE GiveUp \/ ProofRejected
    BY <1>3, GiveUpIsRight, AbortKeeps DEF GiveUp, ProofRejected
<1>4. CASE VerifySlots \/ ProveCircuit \/ ProverUnavailable
    BY <1>4, PassKeeps
<1>5. CASE PickWinner
    BY <1>5, PickWinnerKeeps
<1>6. CASE PickClearingPrice
    BY <1>6, PickClearingPriceKeeps
<1>7. CASE UNCHANGED selectionVars
    <2>1. SameBook /\ UNCHANGED <<operatorPhase, slotIndex, winnerIndex, winnerPrice, clearingPrice, settleBundle>>
        BY <1>7 DEF selectionVars, SameBook
    <2> QED BY <2>1 DEF SameBook, SelectionInv, SelectionTypeOK, Opens, WinnerSoFar, WinnerFound,
        BestRivalBelow,
                    Selected, NeverAbortsASettleableAuction, Price, RevealedPrices,
                        RevealedSalts, Filled,
                    PublicSignals, Commitments, CommittedPrice
<1> QED BY <1>1, <1>2, <1>3, <1>4, <1>5, <1>6, <1>7 DEF SelectionNext

LEMMA SelectionInvHolds ==
    SelectionSpec => []SelectionInv
<1>1. SelectionInit => SelectionInv
    BY SelectionStarts
<1>2. SelectionInv /\ [SelectionNext]_selectionVars => SelectionInv'
    BY SelectionStepKeeps
<1> QED BY <1>1, <1>2, PTL DEF SelectionSpec

-----------------------------------------------------------------------------
(* The theorems.                                                           *)

\* Every variable keeps its type.
THEOREM SelectionTypeCorrect ==
    SelectionSpec => []SelectionTypeOK
<1>1. SelectionInv => SelectionTypeOK
    BY DEF SelectionInv
<1> QED BY <1>1, SelectionInvHolds, PTL

\* Whatever bids are revealed, ties, zeros and empty slots included, the two
\* loops end at the lowest slot with the highest price and the best other price.
THEOREM LoopsSelectVickreyOutcome ==
    SelectionSpec => []SelectsVickreyOutcome
<1>1. SelectionInv => SelectsVickreyOutcome
    BY SelectedIsVickrey DEF SelectionInv, SelectsVickreyOutcome
<1> QED BY <1>1, SelectionInvHolds, PTL

\* An operator with every true opening and the auction's own member list gives up
\* only on a book no caller of settle could settle.
THEOREM AbortsAreRight ==
    SelectionSpec => []NeverAbortsASettleableAuction
<1>1. SelectionInv => NeverAbortsASettleableAuction
    BY DEF SelectionInv
<1> QED BY <1>1, SelectionInvHolds, PTL

\* The verifier takes the bundle, and takes no other winner and no other price.
THEOREM BundleIsUnique ==
    SelectionSpec => []BundleIsTheOnlyOutcome
<1>1. SelectionInv => BundleIsTheOnlyOutcome
    <2> SUFFICES ASSUME SelectionInv, operatorPhase = "done", NEW w \in Slots, NEW p \in 0..PriceBound
                 PROVE  Verify(PublicSignals(w, p)) <=>
                            [winnerIndex |-> w, winningPrice |-> p] = settleBundle
        BY DEF BundleIsTheOnlyOutcome
    <2>1. /\ Opens /\ Selected
          /\ settleBundle = [winnerIndex |-> winnerIndex, winningPrice |-> clearingPrice]
          /\ WinnerStatement(PublicSignals(winnerIndex, clearingPrice), RevealedPrices, RevealedSalts)
        BY DEF SelectionInv
    <2>2. Verify(PublicSignals(w, p)) => w = winnerIndex /\ p = clearingPrice
        BY <2>1, AcceptedIsSelected
    <2>3. Verify(PublicSignals(winnerIndex, clearingPrice))
        BY <2>1, OpenedIsRevealed, SelectionSignals DEF Verify, SelectionInv, SelectionTypeOK
    <2>4. [winnerIndex |-> w, winningPrice |-> p] = settleBundle
            <=> w = winnerIndex /\ p = clearingPrice
        BY <2>1
    <2> QED BY <2>2, <2>3, <2>4
<1> QED BY <1>1, SelectionInvHolds, PTL

-----------------------------------------------------------------------------
(* THE REVEAL AND SETTLEMENT PIPELINE.                                     *)

USE RevealAssumption

\* bids is a book, or the part of one that was read.
BidsOK(bids) == DOMAIN bids \subseteq Slots /\ \A i \in DOMAIN bids : bids[i] \in SealedBid

\* The prices the commitments of bids hold.
CommittedOf(bids) ==
    [i \in Slots |-> IF i \in DOMAIN bids THEN Commitment(i, bids[i]).price ELSE 0]

\* What the operator proves from bids.
BundleOf(bids) ==
    LET winner == SelectedWinner(bids)
        price == SelectedPrice(bids)
        address == bids[winner].bidder
    IN  [winnerIndex |-> winner, winningPrice |-> price, winnerAddress |-> address,
         proves |-> Signals(bids, winner, price, address)]

\* A bundle carries a proof of its own outcome.
Sound(b) ==
    /\ b.proves.winnerIndex = b.winnerIndex
    /\ b.proves.winningPrice = b.winningPrice
    /\ b.proves.winnerAddrHash = b.winnerAddress
    /\ Verify(b.proves)

PipelineInv ==
    /\ RevealTypeOK
    /\ book \in Seq(SealedBid) /\ Len(book) <= MaxBidSlots
    /\ BidsOK(seen)
    /\ \A b \in {bundle, settling} \cup exported : b = NoBundle \/ Sound(b)
    /\ OnlyTheWholeBookSettles
    /\ ShownIsWhatSettled

-----------------------------------------------------------------------------
(* Selecting from a part of the book.                                      *)

LEMMA PriceRange ==
    \A p \in Prices : p \in Nat /\ p \in 0..U64Max /\ p > 0 /\ p \in Int
<1>1. Prices \subseteq 1..U64Max
    BY RevealAssumption
<1>2. \A p \in 1..U64Max : p \in Nat /\ p \in 0..U64Max /\ p > 0 /\ p \in Int
    BY U64Assumption
<1> QED BY <1>1, <1>2

LEMMA PriceOfType ==
    ASSUME NEW bids, BidsOK(bids)
    PROVE  /\ \A i \in Slots : PriceOf(bids)[i] \in Nat /\ PriceOf(bids)[i] \in {0} \cup Prices
           /\ \A i \in Slots : PriceOf(bids)[i] \in 0..U64Max
           /\ \A i \in Slots : PriceOf(bids)[i] # 0 => i \in DOMAIN bids
<1>1. \A i \in DOMAIN bids : bids[i].price \in Prices
    BY DEF BidsOK, SealedBid
<1>2. 0 \in Nat /\ 0 \in 0..U64Max
    BY U64Assumption
<1> QED BY <1>1, <1>2, PriceRange DEF PriceOf

LEMMA SelectedFacts ==
    ASSUME NEW bids, BidsOK(bids), SelectedPrice(bids) > 0
    PROVE  /\ IsVickreyWinner(PriceOf(bids), SelectedWinner(bids))
           /\ IsClearingPrice(PriceOf(bids), SelectedWinner(bids), SelectedPrice(bids))
           /\ SelectedWinner(bids) \in Slots /\ SelectedWinner(bids) \in DOMAIN bids
           /\ SelectedPrice(bids) \in Prices
<1> DEFINE price == PriceOf(bids)
           w == SelectedWinner(bids)
           p == SelectedPrice(bids)
<1>1. \A i \in Slots : price[i] \in Nat
    BY PriceOfType
<1>2. w \in Slots /\ IsVickreyWinner(price, w)
    <2>1. \E i \in Slots : IsVickreyWinner(price, i)
        BY <1>1, OutcomeExists
    <2> QED BY <2>1 DEF SelectedWinner
<1>3. p \in {0} \cup Prices /\ IsClearingPrice(price, w, p)
    <2>1. PICK q \in Nat : IsClearingPrice(price, w, q)
        BY <1>1, <1>2, OutcomeExists
    <2>2. q = 0 \/ \E i \in Slots : price[i] = q
        BY <2>1 DEF IsClearingPrice
    <2>3. \A i \in Slots : price[i] \in {0} \cup Prices
        BY PriceOfType
    <2>4. q \in {0} \cup Prices
        BY <2>2, <2>3
    <2> QED BY <2>1, <2>4 DEF SelectedPrice
<1>4. p \in Prices
    BY <1>3
<1>5. w \in DOMAIN bids
    <2>1. PICK i \in Slots \ {w} : price[i] = p
        BY <1>3 DEF IsClearingPrice
    <2>2. HoldsMaximum(price, w)
        BY <1>1, <1>2, WinnerIsVickrey
    <2>3. price[w] >= price[i] /\ price[w] \in Nat /\ price[i] \in Nat
        BY <1>1, <1>2, <2>2 DEF HoldsMaximum
    <2>4. price[w] # 0
        BY <2>1, <2>3
    <2> QED BY <1>2, <2>4, PriceOfType
<1> QED BY <1>2, <1>3, <1>4, <1>5

-----------------------------------------------------------------------------
(* The commitments of a part of the book.                                  *)

LEMMA CommitmentFacts ==
    ASSUME NEW bids, BidsOK(bids), NEW i \in DOMAIN bids
    PROVE  /\ Commitment(i, bids[i]) # EmptyCommitment
           /\ Commitment(i, bids[i]) \in [price : Nat, salt : Slots, auctionId : {1}]
           /\ Commitment(i, bids[i]).salt = i
           /\ bids[i].seal # "lies" => Commitment(i, bids[i]).price = bids[i].price
<1>1. i \in Slots /\ i \in Int /\ bids[i].price \in Prices
    BY SlotsAssumption DEF BidsOK, SealedBid, Slots
<1>2. bids[i].price \in Nat
    BY <1>1, PriceRange
<1> DEFINE q == IF bids[i].seal = "lies" THEN bids[i].price + 1 ELSE bids[i].price
<1>3. q \in Nat /\ q \in Int
    BY <1>2
<1>4. Commitment(i, bids[i]) = [price |-> q, salt |-> i, auctionId |-> 1]
    BY DEF Commitment, Poseidon3
<1> HIDE DEF q
<1>5. Commitment(i, bids[i]) \in [price : Int, salt : Int, auctionId : Int]
    BY <1>1, <1>3, <1>4
<1>6. Commitment(i, bids[i]) \in [price : Nat, salt : Slots, auctionId : {1}]
    BY <1>1, <1>3, <1>4
<1>7. Commitment(i, bids[i]).price = q /\ Commitment(i, bids[i]).salt = i
    BY <1>4
<1>8. bids[i].seal # "lies" => q = bids[i].price
    BY DEF q
<1> QED BY <1>5, <1>6, <1>7, <1>8, EmptyAssumption

LEMMA SignalsFacts ==
    ASSUME NEW bids, BidsOK(bids), NEW w, NEW p, NEW a
    PROVE  /\ OpenedPrices(Signals(bids, w, p, a).commitments) = CommittedOf(bids)
           /\ Signals(bids, w, p, a).commitments
                 \in [Slots -> {EmptyCommitment} \cup [price : Nat, salt : Slots, auctionId : {1}]]
<1> DEFINE c == Signals(bids, w, p, a).commitments
<1>1. c = [i \in Slots |-> IF i \in DOMAIN bids THEN Commitment(i, bids[i]) ELSE EmptyCommitment]
    BY DEF Signals
<1> HIDE DEF c
<1>2. \A i \in Slots : (IF c[i] = EmptyCommitment THEN 0 ELSE c[i].price)
                     = (IF i \in DOMAIN bids THEN Commitment(i, bids[i]).price ELSE 0)
    BY <1>1, CommitmentFacts
<1>3. OpenedPrices(c) = CommittedOf(bids)
    BY <1>2 DEF OpenedPrices, CommittedOf
<1>4. c \in [Slots -> {EmptyCommitment} \cup [price : Nat, salt : Slots, auctionId : {1}]]
    BY <1>1, CommitmentFacts
<1> QED BY <1>3, <1>4 DEF c

\* A bundle selected from bids that commit to what they say has a proof.
LEMMA ProvenIsSound ==
    ASSUME NEW bids, BidsOK(bids), whitelistRoot \subseteq Accounts,
           \A i \in DOMAIN bids : bids[i].seal # "lies",
           SelectedPrice(bids) > 0,
           bids[SelectedWinner(bids)].bidder \in whitelistRoot
    PROVE  BundleOf(bids) \in Bundles /\ Sound(BundleOf(bids))
<1> DEFINE w == SelectedWinner(bids)
           p == SelectedPrice(bids)
           a == bids[w].bidder
           pub == Signals(bids, w, p, a)
           price == OpenedPrices(pub.commitments)
           salt == OpenedSalts(pub.commitments)
<1>1. /\ IsVickreyWinner(PriceOf(bids), w) /\ IsClearingPrice(PriceOf(bids), w, p)
      /\ w \in Slots /\ w \in DOMAIN bids /\ p \in Prices
    BY SelectedFacts
<1>2. price = PriceOf(bids)
    <2>1. CommittedOf(bids) = PriceOf(bids)
        BY CommitmentFacts DEF CommittedOf, PriceOf
    <2> QED BY <2>1, SignalsFacts
<1>3. /\ pub.auctionId = 1 /\ pub.winnerIndex = w /\ pub.winningPrice = p
      /\ pub.whitelistRoot = whitelistRoot /\ pub.winnerAddrHash = a
      /\ pub.commitments = [i \in Slots |-> IF i \in DOMAIN bids THEN Commitment(i, bids[i])
                                            ELSE EmptyCommitment]
    BY DEF Signals
<1>4. BindsCommitments(pub, price, salt)
    <2> SUFFICES ASSUME NEW i \in Slots
                 PROVE  IF pub.commitments[i] = EmptyCommitment THEN price[i] = 0
                        ELSE pub.commitments[i] = Poseidon3(price[i], salt[i], pub.auctionId)
        BY DEF BindsCommitments
    <2>1. CASE pub.commitments[i] = EmptyCommitment
        BY <2>1 DEF OpenedPrices
    <2>2. CASE pub.commitments[i] # EmptyCommitment
        <3>1. i \in DOMAIN bids /\ pub.commitments[i] = Commitment(i, bids[i])
            BY <1>3, <2>2
        <3>2. price[i] = Commitment(i, bids[i]).price /\ salt[i] = Commitment(i, bids[i]).salt
            BY <2>2, <3>1 DEF OpenedPrices, OpenedSalts
        <3>3. Commitment(i, bids[i]) = [price |-> Commitment(i, bids[i]).price,
                                        salt |-> Commitment(i, bids[i]).salt, auctionId |-> 1]
            BY DEF Commitment, Poseidon3
        <3> HIDE DEF price, salt, pub
        <3> QED BY <1>3, <2>2, <3>1, <3>2, <3>3 DEF Poseidon3
    <2> QED BY <2>1, <2>2
<1>5. Verify(pub)
    <2>1. \A i \in Slots : price[i] \in 0..U64Max
        BY <1>2, PriceOfType
    <2>2. p \in Int /\ p # 0
        <3>1. \A q \in Prices : q \in Int /\ q # 0
            BY PriceRange
        <3> HIDE DEF p
        <3> QED BY <1>1, <3>1
    <2>3. WinnerStatement(pub, price, salt)
        <3> HIDE DEF price, salt, pub, w, p, a
        <3>1. a \in whitelistRoot
            BY DEF a, w
        <3> QED BY <1>1, <1>2, <1>3, <1>4, <2>1, <2>2, <3>1, CircuitIsVickrey
    <2> QED BY <2>3 DEF Verify
<1>6. BundleOf(bids) = [winnerIndex |-> w, winningPrice |-> p, winnerAddress |-> a, proves |-> pub]
    BY DEF BundleOf
<1>7. pub \in Statements
    <2>1. a \in Accounts
        OBVIOUS
    <2>2. pub.commitments \in [Slots -> {EmptyCommitment} \cup
                                         [price : Nat, salt : Slots, auctionId : {1}]]
        BY SignalsFacts
    <2> DEFINE c == pub.commitments
    <2>3. pub = [auctionId |-> 1, commitments |-> c, winnerIndex |-> w,
                 winningPrice |-> p, whitelistRoot |-> whitelistRoot, winnerAddrHash |-> a]
        BY DEF Signals
    <2> HIDE DEF c, pub, w, p, a
    <2>4. c \in [Slots -> {EmptyCommitment} \cup [price : Nat, salt : Slots, auctionId : {1}]]
        BY <2>2 DEF c
    <2> QED BY <1>1, <2>1, <2>3, <2>4 DEF Statements
<1>8. a \in Accounts
    OBVIOUS
<1> HIDE DEF pub, w, p, a
<1>9. BundleOf(bids) \in Bundles
    BY <1>1, <1>6, <1>7, <1>8 DEF Bundles
<1> QED BY <1>3, <1>5, <1>6, <1>9 DEF Sound

-----------------------------------------------------------------------------
(* What the contract's check leaves of a bundle with a proof.              *)

LEMMA BookOK ==
    ASSUME RevealTypeOK
    PROVE  BidsOK(book) /\ CommittedPrices = CommittedOf(book)
BY DEF RevealTypeOK, BidsOK, CommittedPrices, CommittedOf

LEMMA AcceptedIsRight ==
    ASSUME RevealTypeOK, NEW b \in Bundles, b = NoBundle \/ Sound(b), VerifiesHere(b)
    PROVE  /\ IsVickreyWinner(CommittedPrices, b.winnerIndex)
           /\ IsClearingPrice(CommittedPrices, b.winnerIndex, b.winningPrice)
           /\ book[b.winnerIndex].bidder \in whitelistRoot
<1> DEFINE pub == b.proves
           price == OpenedPrices(pub.commitments)
<1>1. BidsOK(book) /\ CommittedPrices = CommittedOf(book)
    BY BookOK
<1>2. b # NoBundle
    <2>1. b.winnerIndex \in Slots
        BY <1>1 DEF VerifiesHere, BidsOK
    <2> QED BY <2>1 DEF NoBundle, Slots
<1>3. Sound(b) /\ b.winningPrice \in Int
    BY <1>2, PriceRange DEF Bundles
<1>4. pub = Signals(book, b.winnerIndex, b.winningPrice, b.winnerAddress)
    BY DEF VerifiesHere
<1>5. price = CommittedPrices
    <2>1. OpenedPrices(Signals(book, b.winnerIndex, b.winningPrice, b.winnerAddress).commitments)
            = CommittedOf(book)
        BY <1>1, SignalsFacts
    <2> QED BY <1>1, <1>4, <2>1
<1>6. pub.whitelistRoot = whitelistRoot
    BY <1>4 DEF Signals
<1>7. WinnerStatement(pub, price, OpenedSalts(pub.commitments)) /\ pub.winningPrice \in Int
    BY <1>3 DEF Sound, Verify
<1>8. /\ IsVickreyWinner(price, pub.winnerIndex)
      /\ IsClearingPrice(price, pub.winnerIndex, pub.winningPrice)
      /\ pub.winnerAddrHash \in pub.whitelistRoot
    <2> HIDE DEF pub, price
    <2> QED BY <1>7, CircuitIsVickrey
<1>9. book[b.winnerIndex].bidder = b.winnerAddress
    BY DEF VerifiesHere
<1> QED BY <1>3, <1>5, <1>6, <1>8, <1>9 DEF Sound

\* The settlement of a sound bundle.
LEMMA ApplySettleKeeps ==
    ASSUME RevealTypeOK, NEW b \in Bundles, b = NoBundle \/ Sound(b), ApplySettle(b)
    PROVE  OnlyTheWholeBookSettles'
<1>1. VerifiesHere(b)
    BY DEF ApplySettle, Settles
<1>2. /\ IsVickreyWinner(CommittedPrices, b.winnerIndex)
      /\ IsClearingPrice(CommittedPrices, b.winnerIndex, b.winningPrice)
      /\ book[b.winnerIndex].bidder \in whitelistRoot
    BY <1>1, AcceptedIsRight
<1>3. /\ book' = book /\ whitelistRoot' = whitelistRoot
      /\ chainOutcome'.winnerIndex = b.winnerIndex /\ chainOutcome'.winningPrice = b.winningPrice
    BY DEF ApplySettle
<1>4. CommittedPrices' = CommittedPrices
    BY <1>3 DEF CommittedPrices
<1> QED BY <1>2, <1>3, <1>4 DEF OnlyTheWholeBookSettles

\* Steps that leave the book, the status and the outcome alone.
LEMMA ChainKeeps ==
    ASSUME OnlyTheWholeBookSettles, UNCHANGED <<book, status, whitelistRoot, chainOutcome>>
    PROVE  OnlyTheWholeBookSettles'
<1>1. CommittedPrices' = CommittedPrices
    BY DEF CommittedPrices
<1> QED BY <1>1 DEF OnlyTheWholeBookSettles

LEMMA ShownKeeps ==
    ASSUME ShownIsWhatSettled, UNCHANGED <<status, chainOutcome, shown>>
    PROVE  ShownIsWhatSettled'
BY DEF ShownIsWhatSettled

-----------------------------------------------------------------------------
(* Every step keeps the invariant.                                         *)

\* The part of the book a service can read.
LEMMA PartOK ==
    ASSUME NEW bids, BidsOK(bids), NEW S \in SUBSET DOMAIN bids
    PROVE  BidsOK(Restrict(bids, S))
BY DEF BidsOK, Restrict

LEMMA NoBidsOK == BidsOK(NoBids)
BY DEF BidsOK, NoBids

LEMMA PipelineStarts == RevealInit => PipelineInv
<1> SUFFICES ASSUME RevealInit PROVE PipelineInv
    OBVIOUS
<1>1. book \in Seq(SealedBid) /\ Len(book) = 0 /\ DOMAIN book = {}
    BY DEF RevealInit
<1>2. RevealTypeOK
    <2>1. ledgerTime \in 0..LastTick /\ faults \in 0..MaxFaults
        BY DEF RevealInit
    <2>2. whitelistRoot \subseteq Accounts
        BY DEF RevealInit
    <2>3. {bundle, settling, shown} \cup exported \subseteq Bundles
        BY DEF RevealInit, Bundles
    <2>4. DOMAIN seen \subseteq Slots
        BY NoBidsOK DEF RevealInit, BidsOK
    <2> QED BY <1>1, <2>1, <2>2, <2>3, <2>4 DEF RevealInit, RevealTypeOK
<1>3. BidsOK(seen)
    BY NoBidsOK DEF RevealInit
<1> QED BY <1>1, <1>2, <1>3, SlotsAssumption
        DEF RevealInit, PipelineInv, OnlyTheWholeBookSettles, ShownIsWhatSettled

LEMMA PlaceBidKeeps == ASSUME PipelineInv, PlaceBid PROVE PipelineInv'
<1>1. PICK bid \in SealedBid : book' = Append(book, bid)
    BY DEF PlaceBid, SealedBid, PipelineInv, RevealTypeOK
<1>2. book' \in Seq(SealedBid) /\ Len(book') = Len(book) + 1
    BY <1>1 DEF PipelineInv
<1>3. Len(book') <= MaxBidSlots
    BY <1>2, SlotsAssumption DEF PlaceBid, PipelineInv
<1>4. DOMAIN book' \subseteq Slots /\ \A i \in DOMAIN book' : book'[i] \in SealedBid
    BY <1>2, <1>3, SlotsAssumption DEF Slots
<1>5. RevealTypeOK'
    BY <1>4 DEF PlaceBid, PipelineInv, RevealTypeOK, revealVars, settleVars
<1>6. BidsOK(seen)' /\ \A b \in {bundle', settling'} \cup exported' : b = NoBundle \/ Sound(b)
    BY DEF PlaceBid, PipelineInv, revealVars, settleVars, BidsOK
<1>7. OnlyTheWholeBookSettles'
    BY DEF PlaceBid, OnlyTheWholeBookSettles
<1>8. ShownIsWhatSettled'
    BY DEF PlaceBid, PipelineInv, ShownIsWhatSettled, settleVars
<1> QED BY <1>2, <1>3, <1>5, <1>6, <1>7, <1>8 DEF PipelineInv

\* Steps of the chain that move its clock, the registry, or an open auction to
\* its refund.
LEMMA ChainStepKeeps ==
    ASSUME PipelineInv, Register \/ LedgerAdvances \/ RefundAll
    PROVE  PipelineInv'
<1>1. UNCHANGED <<book, whitelistRoot, chainOutcome, faults, revealVars, bundle, exported,
                  settleVars, alreadySettled>>
    BY DEF Register, LedgerAdvances, RefundAll
<1>2. /\ ledgerTime' \in 0..LastTick /\ registered' \in BOOLEAN
      /\ status' = status \/ (status = "Open" /\ status' = "Refunded")
    <2>1. ledgerTime' \in 0..LastTick
        BY DEF Register, LedgerAdvances, RefundAll, PipelineInv, RevealTypeOK
    <2>2. registered' \in BOOLEAN
        BY DEF Register, LedgerAdvances, RefundAll, PipelineInv, RevealTypeOK
    <2>3. status' = status \/ (status = "Open" /\ status' = "Refunded")
        BY DEF Register, LedgerAdvances, RefundAll
    <2> QED BY <2>1, <2>2, <2>3
<1>3. RevealTypeOK'
    BY <1>1, <1>2 DEF PipelineInv, RevealTypeOK, revealVars, settleVars
<1>4. BidsOK(seen)' /\ \A b \in {bundle', settling'} \cup exported' : b = NoBundle \/ Sound(b)
    BY <1>1 DEF PipelineInv, revealVars, settleVars, BidsOK
<1>5. OnlyTheWholeBookSettles'
    <2>1. CASE status' = status
        BY <1>1, <2>1, ChainKeeps DEF PipelineInv
    <2>2. CASE status' = "Refunded"
        BY <2>2 DEF OnlyTheWholeBookSettles
    <2> QED BY <1>2, <2>1, <2>2
<1>6. ShownIsWhatSettled'
    BY <1>1, <1>2 DEF PipelineInv, ShownIsWhatSettled, settleVars
<1> QED BY <1>1, <1>3, <1>4, <1>5, <1>6 DEF PipelineInv

\* Steps that leave the chain alone and change what the operator holds: the
\* bids it read, the bundle, the bundles that exist and the one it submits.
LEMMA OperatorStepKeeps ==
    ASSUME PipelineInv, UNCHANGED <<chainVars, shown>>,
           phase' \in {"none", "status", "events", "members", "proving", "done"},
           faults' \in 0..MaxFaults, alreadySettled' \in BOOLEAN,
           members' \subseteq Accounts, BidsOK(seen'),
           \A b \in {bundle', settling'} \cup exported' :
              b \in Bundles /\ (b = NoBundle \/ Sound(b))
    PROVE  PipelineInv'
<1>1. RevealTypeOK'
    BY DEF PipelineInv, RevealTypeOK, chainVars, BidsOK
<1>2. OnlyTheWholeBookSettles'
    BY ChainKeeps DEF PipelineInv, chainVars
<1>3. ShownIsWhatSettled'
    BY ShownKeeps DEF PipelineInv, chainVars
<1> QED BY <1>1, <1>2, <1>3 DEF PipelineInv, chainVars, BidsOK

\* The bundles before a step.
LEMMA BundlesOK ==
    ASSUME PipelineInv
    PROVE  \A b \in {bundle, settling} \cup exported : b \in Bundles /\ (b = NoBundle \/ Sound(b))
BY DEF PipelineInv, RevealTypeOK

LEMMA RevealStepKeeps ==
    ASSUME PipelineInv, RunReveal \/ RevealFails \/ ReadStatus \/ ReadEvents \/ ReadMembers
    PROVE  PipelineInv'
<1>1. UNCHANGED <<chainVars, bundle, exported, settleVars>>
    BY DEF RunReveal, RevealFails, ReadStatus, ReadEvents, ReadMembers
<1>2. /\ phase' \in {"none", "status", "events", "members", "proving", "done"}
      /\ alreadySettled' \in BOOLEAN
    BY DEF RunReveal, RevealFails, RevealEnds, ReadStatus, ReadEvents, ReadMembers, PipelineInv,
        RevealTypeOK
<1>3. faults' \in 0..MaxFaults
    BY DEF RunReveal, RevealFails, ReadStatus, ReadEvents, ReadMembers, PipelineInv,
        RevealTypeOK
<1>4. members' \subseteq Accounts
    BY DEF RunReveal, RevealFails, RevealEnds, ReadStatus, ReadEvents, ReadMembers,
        Fallback,
           RegistryMembers, PipelineInv, RevealTypeOK
<1>5. BidsOK(seen')
    <2>1. BidsOK(VisibleBids)
        BY BookOK, PartOK DEF PipelineInv, VisibleBids
    <2> QED BY <2>1, NoBidsOK
            DEF RunReveal, RevealFails, RevealEnds, ReadStatus, ReadEvents, ReadMembers, PipelineInv
<1> QED BY <1>1, <1>2, <1>3, <1>4, <1>5, BundlesOK, OperatorStepKeeps DEF settleVars

LEMMA ProveKeeps == ASSUME PipelineInv, Prove PROVE PipelineInv'
<1>1. BidsOK(seen) /\ whitelistRoot \subseteq Accounts
    BY DEF PipelineInv, RevealTypeOK
<1>2. Provable => ProvenBundle \in Bundles /\ Sound(ProvenBundle)
    <2>1. ProvenBundle = BundleOf(seen)
        BY DEF ProvenBundle, BundleOf
    <2> QED BY <1>1, <2>1, ProvenIsSound DEF Provable
<1>3. /\ UNCHANGED <<chainVars, faults, settleVars, alreadySettled>>
      /\ phase' \in {"none", "done"} /\ members' = {} /\ seen' = NoBids
    BY DEF Prove, RevealEnds
<1>4. \A b \in {bundle', settling'} \cup exported' : b \in Bundles /\ (b = NoBundle \/ Sound(b))
    <2>1. CASE Provable
        BY <1>2, <1>3, <2>1, BundlesOK DEF Prove, settleVars
    <2>2. CASE ~Provable
        BY <1>3, <2>2, BundlesOK DEF Prove, settleVars
    <2> QED BY <2>1, <2>2
<1> QED BY <1>3, <1>4, NoBidsOK, OperatorStepKeeps DEF settleVars, PipelineInv, RevealTypeOK

LEMMA CommandLineKeeps == ASSUME PipelineInv, CommandLineProves PROVE PipelineInv'
<1>1. PICK k \in DOMAIN book :
          LET part == Restrict(book, {i \in DOMAIN book : i >= k})
          IN  /\ \A i \in DOMAIN part : part[i].seal = "opens"
              /\ SelectedPrice(part) > 0
              /\ part[SelectedWinner(part)].bidder \in whitelistRoot
              /\ exported' = {BundleOf(part)}
    BY DEF CommandLineProves, BundleOf
<1> DEFINE part == Restrict(book, {i \in DOMAIN book : i >= k})
<1>2. BidsOK(part) /\ whitelistRoot \subseteq Accounts
    BY BookOK, PartOK DEF PipelineInv, RevealTypeOK
<1>3. \A i \in DOMAIN part : part[i].seal # "lies"
    BY <1>1
<1>4. BundleOf(part) \in Bundles /\ Sound(BundleOf(part))
    <2>1. SelectedPrice(part) > 0 /\ part[SelectedWinner(part)].bidder \in whitelistRoot
        BY <1>1
    <2> HIDE DEF part
    <2> QED BY <1>2, <1>3, <2>1, ProvenIsSound
<1>5. UNCHANGED <<chainVars, faults, revealVars, bundle, settleVars, alreadySettled>>
    BY DEF CommandLineProves
<1>6. exported' = {BundleOf(part)}
    BY <1>1
<1> HIDE DEF part
<1>7. \A b \in {bundle', settling'} \cup exported' : b \in Bundles /\ (b = NoBundle \/ Sound(b))
    BY <1>4, <1>5, <1>6, BundlesOK DEF settleVars
<1> QED BY <1>5, <1>7, OperatorStepKeeps DEF revealVars, settleVars, PipelineInv, RevealTypeOK

LEMMA BundleStepKeeps ==
    ASSUME PipelineInv, LoadPastedBundle \/ RunSettle \/ SettleFails \/ Reload
    PROVE  PipelineInv'
<1>1. UNCHANGED <<chainVars, exported, shown>>
    BY DEF LoadPastedBundle, RunSettle, SettleFails, Reload, settleVars
<1>2. {bundle', settling'} \subseteq {bundle, settling, NoBundle} \cup exported
    BY DEF LoadPastedBundle, RunSettle, SettleFails, Reload, settleVars
<1>3. NoBundle \in Bundles
    BY DEF Bundles
<1>4. \A b \in {bundle', settling'} \cup exported' : b \in Bundles /\ (b = NoBundle \/ Sound(b))
    BY <1>1, <1>2, <1>3, BundlesOK
<1>5. /\ phase' \in {"none", "status", "events", "members", "proving", "done"}
      /\ alreadySettled' \in BOOLEAN /\ members' \subseteq Accounts /\ BidsOK(seen')
    BY NoBidsOK DEF LoadPastedBundle, RunSettle, SettleFails, Reload, RevealEnds,
        revealVars,
                    PipelineInv, RevealTypeOK
<1>6. faults' \in 0..MaxFaults
    BY DEF LoadPastedBundle, RunSettle, SettleFails, Reload, PipelineInv, RevealTypeOK
<1> QED BY <1>1, <1>4, <1>5, <1>6, OperatorStepKeeps

\* Who settles, and what the stepper is told of it.
LEMMA SettlementKeeps ==
    ASSUME PipelineInv, NEW b \in {settling} \cup exported, ApplySettle(b),
           UNCHANGED <<revealVars, bundle, exported, alreadySettled>>,
           faults' \in 0..MaxFaults,
           settling' \in {settling, NoBundle},
           shown' = shown \/ shown' = b
    PROVE  PipelineInv'
<1>1. b \in Bundles /\ (b = NoBundle \/ Sound(b)) /\ NoBundle \in Bundles
    BY BundlesOK DEF Bundles
<1>2. OnlyTheWholeBookSettles'
    BY <1>1, ApplySettleKeeps DEF PipelineInv
<1>3. /\ status = "Open" /\ status' = "Settled"
      /\ chainOutcome' = [winnerIndex |-> b.winnerIndex, winningPrice |-> b.winningPrice]
      /\ UNCHANGED <<ledgerTime, book, whitelistRoot, registered>>
    BY DEF ApplySettle, Settles
<1>4. ShownIsWhatSettled'
    <2>1. shown = NoBundle
        BY <1>3 DEF PipelineInv, ShownIsWhatSettled
    <2> QED BY <1>3, <2>1 DEF ShownIsWhatSettled
<1>5. RevealTypeOK'
    BY <1>1, <1>3 DEF PipelineInv, RevealTypeOK, revealVars
<1>6. \A c \in {bundle', settling'} \cup exported' : c = NoBundle \/ Sound(c)
    BY BundlesOK
<1> QED BY <1>2, <1>3, <1>4, <1>5, <1>6 DEF PipelineInv, revealVars, BidsOK

LEMMA PipelineStepKeeps == PipelineInv /\ [RevealNext]_pipelineVars => PipelineInv'
<1> SUFFICES ASSUME PipelineInv, [RevealNext]_pipelineVars PROVE PipelineInv'
    OBVIOUS
<1>1. CASE PlaceBid
    BY <1>1, PlaceBidKeeps
<1>2. CASE Register \/ LedgerAdvances \/ RefundAll
    BY <1>2, ChainStepKeeps
<1>3. CASE RunReveal \/ RevealFails \/ ReadStatus \/ ReadEvents \/ ReadMembers
    BY <1>3, RevealStepKeeps
<1>4. CASE Prove
    BY <1>4, ProveKeeps
<1>5. CASE CommandLineProves
    BY <1>5, CommandLineKeeps
<1>6. CASE LoadPastedBundle \/ RunSettle \/ SettleFails \/ Reload
    BY <1>6, BundleStepKeeps
<1>7. CASE OtherSettles
    <2>1. PICK b \in exported : ApplySettle(b)
        BY <1>7 DEF OtherSettles
    <2> QED BY <1>7, <2>1, SettlementKeeps DEF OtherSettles, settleVars, PipelineInv, RevealTypeOK
<1>8. CASE SettleSucceeds
    BY <1>8, SettlementKeeps DEF SettleSucceeds, Reported, PipelineInv, RevealTypeOK
<1>9. CASE SettleUnconfirmed
    <2>1. faults' \in 0..MaxFaults
        BY <1>9 DEF SettleUnconfirmed, PipelineInv, RevealTypeOK
    <2> QED BY <1>9, <2>1, SettlementKeeps DEF SettleUnconfirmed
<1>10. CASE UNCHANGED pipelineVars
    BY <1>10, BundlesOK, OperatorStepKeeps
       DEF pipelineVars, revealVars, settleVars, PipelineInv, RevealTypeOK
<1> QED BY <1>1, <1>2, <1>3, <1>4, <1>5, <1>6, <1>7, <1>8, <1>9, <1>10 DEF RevealNext, Stepper

LEMMA PipelineInvHolds == RevealSpec => []PipelineInv
BY PipelineStarts, PipelineStepKeeps, PTL DEF RevealSpec

-----------------------------------------------------------------------------
(* The results.                                                            *)

\* The variables of the chain, the service, the stepper and every bundle keep
\* their types.
THEOREM PipelineTypeCorrect == RevealSpec => []RevealTypeOK
<1>1. PipelineInv => RevealTypeOK
    BY DEF PipelineInv
<1> QED BY <1>1, PipelineInvHolds, PTL

\* Reads cut by the lookback, a whitelist guessed wrong, bundles pasted from
\* elsewhere, bids that lie or arrive after the reveal (reveal.ts,
\* OperatorStepper.tsx): the auction still settles only as the committed prices
\* of the whole book say, and to a whitelisted bidder.
THEOREM WholeBookSettles == RevealSpec => []OnlyTheWholeBookSettles
<1>1. PipelineInv => OnlyTheWholeBookSettles
    BY DEF PipelineInv
<1> QED BY <1>1, PipelineInvHolds, PTL

\* onSettled reports the outcome on chain, whatever was pasted or proved while
\* the transaction was out (OperatorStepper.tsx, runSettle).
THEOREM ShownOutcomeIsOnChain == RevealSpec => []ShownIsWhatSettled
<1>1. PipelineInv => ShownIsWhatSettled
    BY DEF PipelineInv
<1> QED BY <1>1, PipelineInvHolds, PTL

EveryBundleIsProven == \A b \in {bundle, settling} \cup exported : b = NoBundle \/ Sound(b)

\* The stepper never holds, submits or hands out a bundle without a proof
\* (assembleAndProve): each opens every commitment it names, and names the
\* winner and the price of the second-price rule over them.
THEOREM BundlesAreProven == RevealSpec => []EveryBundleIsProven
<1>1. PipelineInv => EveryBundleIsProven
    BY DEF PipelineInv, EveryBundleIsProven
<1> QED BY <1>1, PipelineInvHolds, PTL
=============================================================================
