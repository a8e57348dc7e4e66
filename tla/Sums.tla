-------------------------------- MODULE Sums --------------------------------
(***************************************************************************)
(* The sum of a finite family of integers, as a recursive function rather  *)
(* than a fold over a set: every auction's claim on the pooled escrow is   *)
(* one term, and module AuctionWinnerProofs proves how such a sum moves    *)
(* when one term changes or a term is added.                               *)
(***************************************************************************)
EXTENDS Integers

\* term[1] + ... + term[n], for a function term whose domain contains 1..n.
SumUpTo(term, n) ==
    LET upTo[i \in 0..n] == IF i = 0 THEN 0 ELSE upTo[i - 1] + term[i]
    IN  upTo[n]
=============================================================================
