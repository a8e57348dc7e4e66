------------------------------- MODULE MCWeb --------------------------------
(***************************************************************************)
(* What a visitor uses around the auctions, in one run: listing an         *)
(* auction, the lifetime of what is stored for it, the request limit, the  *)
(* faucet, the list of auctions and the room of one.  The parts are side   *)
(* by side: a behaviour is one of its part while the variables of the      *)
(* others keep their first values.  The modules are extended; a part that  *)
(* needs other constants is an instance.                                   *)
(***************************************************************************)
EXTENDS CreationFlow, StorageLifetime, TokenBucket, Faucet, AuctionPages, AuctionRoom

CONSTANTS ada, ben

MCDemo == <<ada>>

VARIABLE part

allVars == <<part, vars, storageVars, bucketVars, faucetVars, listVars, roomVars>>

\* The room again: one room through its bids and a failure.
BusyRoom == INSTANCE AuctionRoom WITH
    Winners <- {"w"}, Reads <- {"p"}, MaxBids <- 1, MaxFailures <- 1, MaxVisits <- 1

-----------------------------------------------------------------------------
Parts == {"creation", "storage", "limit", "faucet", "list", "room", "busy_room"}

AllInit ==
    /\ part \in Parts
    /\ Init /\ StorageInit /\ BucketInit
    /\ part = "faucet" \/ trust = [x \in Wallets |-> {}]
    /\ FaucetInit
    /\ part = "list" \/ view = [segment |-> "all", sort |-> "newest", connected |-> TRUE]
    /\ ListInit
    /\ IF part = "busy_room" THEN BusyRoom!RoomInit ELSE RoomInit

AllNext ==
    \/ part = "creation" /\ Next
       /\ UNCHANGED <<part, storageVars, bucketVars, faucetVars, listVars, roomVars>>
    \/ part = "storage" /\ StorageNext
       /\ UNCHANGED <<part, vars, bucketVars, faucetVars, listVars, roomVars>>
    \/ part = "limit" /\ BucketNext
       /\ UNCHANGED <<part, vars, storageVars, faucetVars, listVars, roomVars>>
    \/ part = "faucet" /\ FaucetNext
       /\ UNCHANGED <<part, vars, storageVars, bucketVars, listVars, roomVars>>
    \/ part = "list" /\ ListNext
       /\ UNCHANGED <<part, vars, storageVars, bucketVars, faucetVars, roomVars>>
    \/ part = "room" /\ RoomNext
       /\ UNCHANGED <<part, vars, storageVars, bucketVars, faucetVars, listVars>>
    \/ part = "busy_room" /\ BusyRoom!RoomNext
       /\ UNCHANGED <<part, vars, storageVars, bucketVars, faucetVars, listVars>>

AllSpec == AllInit /\ [][AllNext]_allVars

-----------------------------------------------------------------------------
\* The types of all parts.
PartsTypeOK ==
    /\ TypeOK /\ StorageTypeOK /\ BucketTypeOK /\ FaucetTypeOK /\ ListTypeOK
    /\ IF part = "busy_room" THEN BusyRoom!RoomTypeOK ELSE RoomTypeOK
=============================================================================
