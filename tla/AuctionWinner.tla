--------------------------- MODULE AuctionWinner ----------------------------
(***************************************************************************)
(* The statement a settlement proof attests (circuits/auction_winner.      *)
(* circom): the relation between the public signals, which the contract    *)
(* rebuilds from its own storage, and the private witness, which only the  *)
(* operator holds.                                                         *)
(*                                                                         *)
(* Cryptography is abstracted to what the protocol relies on.  Poseidon is *)
(* injective, so a commitment is the record of what was hashed and a       *)
(* whitelist root is the set of its members.  Groth16 is sound and         *)
(* complete: the verifier accepts exactly the signals that some witness    *)
(* satisfies.  Slots are numbered from 1 here and from 0 in the code.      *)
(***************************************************************************)
EXTENDS Integers, FiniteSets

CONSTANTS
    MaxBidSlots,        \* slots in the circuit and in the contract, 8 in the code
    U64Max,             \* largest 64-bit value: the range of a price and of a clock
    EmptyCommitment     \* the zero commitment that marks a slot nobody filled

ASSUME SlotsAssumption == MaxBidSlots \in Nat \ {0}
ASSUME U64Assumption == U64Max \in Nat \ {0}

\* No opening hashes to the empty marker.
ASSUME EmptyAssumption == EmptyCommitment \notin [price : Int, salt : Int, auctionId : Int]

Slots == 1..MaxBidSlots

\* Definitions named ...Faulty are plausible slips of the definition after them;
\* nothing uses them, they are there to be swapped in.

Poseidon3(price, salt, auctionId) ==
    [price |-> price, salt |-> salt, auctionId |-> auctionId]

-----------------------------------------------------------------------------
(* The constraints, in the order of the template.  price and salt are the  *)
(* private inputs bidPrices and bidSalts, functions on Slots.               *)

\* 2. A zero commitment forces a zero price; any other one must open.
BindsCommitmentsFaulty(pub, price, salt) ==
    \A i \in Slots :
        IF pub.commitments[i] = EmptyCommitment
        THEN price[i] = 0
        ELSE pub.commitments[i] = Poseidon3(price[i], salt[i], pub.commitments[i].auctionId)
BindsCommitments(pub, price, salt) ==
    \A i \in Slots :
        IF pub.commitments[i] = EmptyCommitment
        THEN price[i] = 0
        ELSE pub.commitments[i] = Poseidon3(price[i], salt[i], pub.auctionId)

\* 4. The price vector with the winner's slot zeroed.
OtherPricesFaulty(price, winner) == price
OtherPrices(price, winner) ==
    [i \in Slots |-> IF i = winner THEN 0 ELSE price[i]]

\*    The fold that keeps the running value while it is >= the next price.
RunningSecondMax(other) ==
    LET running[i \in Slots] ==
            IF i = 1 THEN other[1]
            ELSE IF running[i - 1] >= other[i] THEN running[i - 1] ELSE other[i]
    IN  running[MaxBidSlots]

\* 5. Maximality, strict below the winner: the lowest slot wins a tie.
HoldsMaximumFaulty(price, winner) == \A i \in Slots : price[winner] >= price[i]
HoldsMaximum(price, winner) ==
    \A i \in Slots : /\ price[winner] >= price[i]
                     /\ i < winner => price[winner] > price[i]

\* The whole template.  Constraint 3 (one-hot selector) puts the winner in a
\* slot, constraint 6 is Merkle membership of the winner's address leaf.
WinnerStatement(pub, price, salt) ==
    /\ \A i \in Slots : price[i] \in 0..U64Max
    /\ BindsCommitments(pub, price, salt)
    /\ pub.winnerIndex \in Slots
    /\ pub.winningPrice = RunningSecondMax(OtherPrices(price, pub.winnerIndex))
    /\ pub.winningPrice # 0
    /\ HoldsMaximum(price, pub.winnerIndex)
    /\ pub.winnerAddrHash \in pub.whitelistRoot

-----------------------------------------------------------------------------
(* The only opening an injective hash leaves: what was hashed.             *)

OpenedPrices(commitments) ==
    [i \in Slots |-> IF commitments[i] = EmptyCommitment
                     THEN 0 ELSE commitments[i].price]

OpenedSalts(commitments) ==
    [i \in Slots |-> IF commitments[i] = EmptyCommitment
                     THEN 0 ELSE commitments[i].salt]

\* A Groth16 proof for the signals exists, which is what verify accepts.
Verify(pub) ==
    WinnerStatement(pub, OpenedPrices(pub.commitments), OpenedSalts(pub.commitments))

-----------------------------------------------------------------------------
(* What the circuit is for, stated without its fold: the reference.        *)

HighestPrice(price) == CHOOSE p \in {price[i] : i \in Slots} : \A i \in Slots : price[i] <= p

\* The lowest slot that holds the highest price.
IsVickreyWinner(price, winner) ==
    /\ winner \in Slots
    /\ price[winner] = HighestPrice(price)
    /\ \A i \in Slots : price[i] = HighestPrice(price) => winner <= i

\* The best price anyone but the winner offered; 0 when nobody else bid.
IsClearingPrice(price, winner, p) ==
    /\ p = 0 \/ \E i \in Slots \ {winner} : price[i] = p
    /\ \A i \in Slots \ {winner} : price[i] <= p
=============================================================================
