----------------------------- MODULE TokenBucket -----------------------------
(***************************************************************************)
(* The request limit both HTTP services keep per client address            *)
(* (faucet/src/api.ts and indexer/src/api.ts, takeToken).  Tokens are      *)
(* counted in units of credit: a request costs Cost units and one unit is  *)
(* earned per unit of time, so that the arithmetic is exact.  The clock is *)
(* Date.now(), which an adjustment may set back.  One life of the process: *)
(* the buckets are lost with it.                                           *)
(***************************************************************************)
EXTENDS Integers

CONSTANTS
    Clients,
    Capacity,       \* RATE_CAPACITY in units of credit
    Cost,           \* what a request costs: the time one token takes to refill
    RetryAfter,     \* what the Retry-After header of a refusal says
    StepBack,       \* how far one adjustment sets the clock back; 0: never
    MaxClock        \* bound: time passed

ASSUME BucketAssumption ==
    /\ Capacity \in Nat /\ Cost \in Nat \ {0} /\ Cost <= Capacity
    /\ RetryAfter \in Nat /\ RetryAfter >= Cost
    /\ StepBack \in Nat /\ MaxClock \in Nat

VARIABLES
    nowMs,
    known,      \* the clients with a bucket in rateBuckets
    buckets,    \* client -> credit, and the reading it was last brought up to date at
    window,     \* history, client -> a stretch of its requests: the reading at the
                \* first one, the highest reading since, the credit spent since
    refused     \* history, client -> the reading of its last request if that was
                \* refused

bucketVars == <<nowMs, known, buckets, window, refused>>

Never == -MaxClock - StepBack - 1

-----------------------------------------------------------------------------
Smaller(x, y) == IF x < y THEN x ELSE y
Larger(x, y) == IF x < y THEN y ELSE x

\* A client never seen starts full.
BucketOf(c) ==
    IF c \in known THEN buckets[c] ELSE [credit |-> Capacity, last |-> nowMs]

RefilledFaulty(c) ==
    Smaller(Capacity, BucketOf(c).credit + Larger(0, nowMs - BucketOf(c).last))
Refilled(c) == Smaller(Capacity, BucketOf(c).credit + (nowMs - BucketOf(c).last))

Admits(c) == Refilled(c) >= Cost

\* A stretch may begin with any request.
Observed(c, fresh, spent) ==
    IF fresh THEN [first |-> nowMs, peak |-> nowMs, spent |-> spent]
    ELSE [first |-> window[c].first, peak |-> Larger(window[c].peak, nowMs),
          spent |-> window[c].spent + spent]

takeToken(c) ==
    /\ known' = known \cup {c}
    /\ \E fresh \in {c \notin known, TRUE} :
       IF Admits(c)
       THEN /\ buckets' = [buckets EXCEPT ![c] = [credit |-> Refilled(c) - Cost, last |-> nowMs]]
            /\ window' = [window EXCEPT ![c] = Observed(c, fresh, Cost)]
            /\ refused' = [refused EXCEPT ![c] = Never]
       ELSE /\ buckets' = [buckets EXCEPT ![c] = [credit |-> Refilled(c), last |-> nowMs]]
            /\ window' = [window EXCEPT ![c] = Observed(c, fresh, 0)]
            /\ refused' = [refused EXCEPT ![c] = nowMs]
    /\ UNCHANGED nowMs

ClockTicks == nowMs < MaxClock /\ nowMs' = nowMs + 1 /\ UNCHANGED <<known, buckets, window, refused>>

SetBack ==
    /\ StepBack > 0 /\ nowMs >= StepBack
    /\ nowMs' = nowMs - StepBack
    /\ UNCHANGED <<known, buckets, window, refused>>

BucketInit ==
    /\ nowMs = 0
    /\ known = {}
    /\ buckets = [c \in Clients |-> [credit |-> Capacity, last |-> 0]]
    /\ window = [c \in Clients |-> [first |-> 0, peak |-> 0, spent |-> 0]]
    /\ refused = [c \in Clients |-> Never]

BucketNext == ClockTicks \/ SetBack \/ \E c \in Clients : takeToken(c)

BucketSpec == BucketInit /\ [][BucketNext]_bucketVars

-----------------------------------------------------------------------------
(* Properties.                                                             *)

\* The variables have their types.
BucketTypeOK ==
    /\ nowMs \in Nat
    /\ known \subseteq Clients
    /\ buckets \in [Clients -> [credit : Int, last : Nat]]
    /\ \A c \in Clients : buckets[c].credit <= Capacity
    /\ window \in [Clients -> [first : Nat, peak : Nat, spent : Nat]]
    /\ refused \in [Clients -> Nat \cup {Never}]

\* In every stretch of one client's requests, those admitted cost no more than a
\* full bucket and the time that passed in it, however the clock was set back in
\* between: setting it back never buys a request.
BoundedRate ==
    \A c \in Clients : window[c].spent <= Capacity + (window[c].peak - window[c].first)

\* While the clock is never set back, a client that waits out the Retry-After of
\* its refusal is admitted by its next request.
WaitingIsEnough ==
    StepBack = 0 =>
        \A c \in Clients :
            refused[c] # Never /\ nowMs >= refused[c] + RetryAfter => Admits(c)
=============================================================================
