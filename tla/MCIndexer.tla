----------------------------- MODULE MCIndexer ------------------------------
(***************************************************************************)
(* Small instances of Indexer for TLC.                                     *)
(***************************************************************************)
EXTENDS Indexer, TLC

CONSTANTS ann, ben

\* Bidders are interchangeable; used where only safety is checked.
BidderSymmetry == Permutations(Bidders)
=============================================================================
