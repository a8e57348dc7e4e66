----------------------------- MODULE MCOperator -----------------------------
(***************************************************************************)
(* What runs outside the contract around a settlement, in one run: the     *)
(* submission of a call, the selection of the outcome, the reveal through  *)
(* the web application, the command line and the whitelist tree.  The      *)
(* parts are side by side: a behaviour is one of its part while the        *)
(* variables of the others keep their first values.  The modules are       *)
(* extended; a part that needs other constants is an instance.             *)
(***************************************************************************)
EXTENDS TransactionClient, VickreySelection, RevealPipeline, CommandLineProver, MerkleWhitelist

VARIABLE part

allVars == <<part, vars, selectionVars, pipelineVars, commandVars, treeVars>>

\* The lists the operator may be given, one of which is the auction's own.
MCMembers == {{"a"}, {"a", "b"}}
MCMemberLists == {{"x", "y"}, {"x"}}

\* The reveal again, of two bids that do not open or lie, read by a service whose
\* clock is ahead of the ledger's.
BadSeals == INSTANCE RevealPipeline WITH
    MaxBidSlots <- 2, U64Max <- 4, Seals <- {"opens", "lies", "garbled"}, Skew <- 1,
    CommandLine <- FALSE

\* The command line again, for two auctions in two terminals of one checkout.
Checkout == INSTANCE CommandLineProver WITH
    Auctions <- {1, 2}, Senders <- {"x"}, SealedPrices <- {1}, BidSeals <- {"opens"},
    MemberLists <- {{"x"}}, Terminals <- {"s", "t"}, MaxSittings <- 2, MaxWriteFaults <- 0

\* Bound: bids of each of the two auctions.
CheckoutBids == 2

-----------------------------------------------------------------------------
Parts == {"submission", "selection", "reveal", "bad_seals", "commands", "checkout", "tree"}

AllInit ==
    /\ part \in Parts
    /\ part = "submission" \/ (call = "settle" /\ fault = 0)
    /\ Init
    /\ \/ part = "selection"
       \/ revealed = [i \in Slots |-> NoBid] /\ whitelistMembers = {"a"} /\ root = {"a"}
    /\ SelectionInit
    /\ part \in {"reveal", "bad_seals"} \/ (whitelistRoot = {"a"} /\ registered = TRUE)
    /\ RevealInit
    /\ part \in {"commands", "checkout"} \/ roots = [x \in {1} |-> {"x"}]
    /\ IF part = "checkout" THEN Checkout!CommandInit ELSE CommandInit
    /\ part = "tree" \/ list = <<>>
    /\ TreeInit

AllNext ==
    \/ part = "submission" /\ Next
       /\ UNCHANGED <<part, selectionVars, pipelineVars, commandVars, treeVars>>
    \/ part = "selection" /\ SelectionNext
       /\ UNCHANGED <<part, vars, pipelineVars, commandVars, treeVars>>
    \/ part = "reveal" /\ RevealNext
       /\ UNCHANGED <<part, vars, selectionVars, commandVars, treeVars>>
    \/ part = "bad_seals" /\ BadSeals!RevealNext
       /\ UNCHANGED <<part, vars, selectionVars, commandVars, treeVars>>
    \/ part = "commands" /\ CommandNext
       /\ UNCHANGED <<part, vars, selectionVars, pipelineVars, treeVars>>
    \/ part = "checkout" /\ Checkout!CommandNext /\ \A a \in {1, 2} : Len(books'[a]) <= CheckoutBids
       /\ UNCHANGED <<part, vars, selectionVars, pipelineVars, treeVars>>
    \/ part = "tree" /\ TreeNext
       /\ UNCHANGED <<part, vars, selectionVars, pipelineVars, commandVars>>

AllSpec == AllInit /\ [][AllNext]_allVars

-----------------------------------------------------------------------------
\* The types of all parts.
PartsTypeOK ==
    /\ TypeOK /\ SelectionTypeOK /\ TreeTypeOK
    /\ IF part = "bad_seals" THEN BadSeals!RevealTypeOK ELSE RevealTypeOK
    /\ IF part = "checkout" THEN Checkout!CommandTypeOK ELSE CommandTypeOK
=============================================================================
