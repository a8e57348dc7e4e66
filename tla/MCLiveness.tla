----------------------------- MODULE MCLiveness -----------------------------
(***************************************************************************)
(* What must eventually happen, in one run: the escrow while outages last  *)
(* and after they end, a submission, a reveal and the room of an auction.  *)
(* The parts are side by side: a behaviour is one of its part, which moves *)
(* under the fairness of its own module while the variables of the others  *)
(* keep their first values.  The escrow is the extended module, the others *)
(* are instances.                                                          *)
(***************************************************************************)
EXTENDS MCSealedAuction

CONSTANTS None

VARIABLES
    part,
    call, clientNow, sequence, network, verdict, effects, taken, closed, fault, refusal, others,
    attempt, stage, tx, polls, consecutivePollFailures, answered,
    revealNow, book, status, whitelistRoot, registered, outcome, faults, phase, seen,
    members, bundle, exported, settling, alreadySettled, shown,
    chain, indexed, route, room, reads, body, cache, lookups, failures, visits

clientVars == <<call, clientNow, sequence, network, verdict, effects, taken, closed, fault, refusal,
                others, attempt, stage, tx, polls, consecutivePollFailures, answered>>
revealVars == <<revealNow, book, status, whitelistRoot, registered, outcome, faults, phase,
                seen, members, bundle, exported, settling, alreadySettled, shown>>
roomVars == <<chain, indexed, route, room, reads, body, cache, lookups, failures, visits>>
allVars == <<part, vars, clientVars, revealVars, roomVars>>

\* The escrow again, with a lot token that may trap for ever.
Trap == INSTANCE SealedAuctionLiveness WITH
    MayTrap <- {gold}, MayRefuse <- {}, MaxOutages <- 1

Client == INSTANCE TransactionClient WITH
    Calls <- {"place_bid", "create_auction", "settle", "register"},
    TX_TIMEOUT <- 4, CONFIRM_POLL_LIMIT <- 3, POLL_FAILURE_LIMIT <- 2, MAX_BID_SLOTS <- 3,
    Funds <- 2, Faults <- {}, RefusalCodes <- {}, MaxAttempts <- 2, MaxOthers <- 0, MaxTime <- 3,
    now <- clientNow, outcome <- answered

\* The books of two bidders, properly sealed; two failures.
Reveal == INSTANCE RevealPipeline WITH
    MaxBidSlots <- 3, Accounts <- {"a", "b"}, CustomMembers <- {"a"},
    DEMO_WHITELIST_MEMBERS <- {"a", "b"}, Prices <- {1, 2}, Seals <- {"opens"},
    Deadline <- 1, Grace <- 9, Skew <- 0, EVENT_LOOKBACK <- 9, CommandLine <- FALSE,
    MaxFaults <- 2, LastTick <- 2, ledgerTime <- revealNow, chainOutcome <- outcome

\* Two polls at a time and one failure: a room through its settlement, and two
\* rooms on one route.
Room == INSTANCE AuctionRoom WITH
    Auctions <- {1, 2}, Winners <- {"w"}, Reads <- {"p", "q"}, InPlace <- FALSE,
    MaxBids <- 0, MaxFailures <- 1, MaxVisits <- 1
Rooms == INSTANCE AuctionRoom WITH
    Auctions <- {1, 2}, Winners <- {}, Reads <- {"p", "q"}, InPlace <- TRUE,
    MaxBids <- 0, MaxFailures <- 1, MaxVisits <- 2

-----------------------------------------------------------------------------
Parts == {"outages_end", "lot_traps", "submission", "reveal", "room", "rooms"}

AllInit ==
    /\ part \in Parts
    /\ Init
    /\ part = "submission" \/ (call = "settle" /\ fault = 0)
    /\ Client!Init
    /\ part = "reveal" \/ (whitelistRoot = {"a"} /\ registered = TRUE)
    /\ Reveal!RevealInit
    /\ Room!RoomInit

EscrowStep == part = "outages_end" /\ Next /\ UNCHANGED <<part, clientVars, revealVars, roomVars>>
TrapStep == part = "lot_traps" /\ Trap!Next /\ UNCHANGED <<part, clientVars, revealVars, roomVars>>
ClientStep == part = "submission" /\ Client!Next /\ UNCHANGED <<part, vars, revealVars, roomVars>>
RevealStep == part = "reveal" /\ Reveal!RevealNext /\ UNCHANGED <<part, vars, clientVars, roomVars>>
RoomStep == part = "room" /\ Room!RoomNext /\ UNCHANGED <<part, vars, clientVars, revealVars>>
RoomsStep == part = "rooms" /\ Rooms!RoomNext /\ UNCHANGED <<part, vars, clientVars, revealVars>>

AllNext == EscrowStep \/ TrapStep \/ ClientStep \/ RevealStep \/ RoomStep \/ RoomsStep

\* The fairness each module states, of the steps its part can take.  Outages are
\* bounded and in the first part issuers repair what they broke, so they end for
\* good.  The operator presses the stepper's enabled buttons, and reads that may
\* fail no longer are answered.
AllSpec ==
    /\ AllInit /\ [][AllNext]_allVars
    /\ WF_vars(part \in {"outages_end", "lot_traps"} /\ Tick) /\ Callers
    /\ \A token \in MayTrap : WF_vars(part = "outages_end" /\ StopTrapping(token))
    /\ \A pair \in MayRefuse : WF_vars(part = "outages_end" /\ StopRefusing(pair[1], pair[2]))
    /\ Client!Fairness
    /\ WF_revealVars(part = "reveal" /\ Reveal!Stepper)
    /\ WF_revealVars(part = "reveal" /\ Reveal!LedgerAdvances)
    /\ Room!RoomFairness

-----------------------------------------------------------------------------
\* See LotsLeaveEscrow: it needs the outages to end, so it is asked of the part
\* in which they do (reclaim_lot).
LotsLeaveWhenOutagesEnd == part = "outages_end" => LotsLeaveEscrow

\* See TransactionClient: a submission that was sent ends, whatever the node
\* answers or fails to answer (submitInvocation).
SubmissionEnds == Client!SubmissionEnds

\* See RevealPipeline: a properly sealed book with a listed winner ends settled
\* through two failures anywhere on the way (reveal.ts, OperatorStepper.tsx).
SettleableEndsSettled == Reveal!SettleableEndsSettled

\* See AuctionRoom: a room that is not left comes to show its own auction as the
\* chain has it (usePolledChainResource.ts).
RoomCatchesUp == Room!RoomCatchesUp
=============================================================================
