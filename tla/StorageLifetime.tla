--------------------------- MODULE StorageLifetime ---------------------------
(***************************************************************************)
(* How long the ledger keeps what the contracts store: the lifetime        *)
(* extensions of create_auction (contracts/auction/src/lib.rs) and of      *)
(* register (contracts/whitelist-registry/src/lib.rs).  An entry is alive  *)
(* up to a ledger number; afterwards it is archived, and a call that needs *)
(* it fails until somebody restores it.  The contracts count in seconds    *)
(* and assume one ledger every SECONDS_PER_LEDGER.                         *)
(***************************************************************************)
EXTENDS Integers

CONSTANTS
    SECONDS_PER_LEDGER,
    LEDGERS_PER_DAY,
    MAX_TTL_EXTENSION_LEDGERS,
    TTL_LEDGERS,        \* what register asks for
    MinimumTtl,         \* what the network gives an entry when it is written
    Gaps,               \* seconds between two ledgers
    Lifetimes,          \* deadline plus grace, in seconds from creation
    Roots,
    MaxAuctions,        \* bound: auctions created
    MaxLedger           \* bound: the last ledger

ASSUME LifetimeAssumption ==
    /\ SECONDS_PER_LEDGER \in Nat \ {0}
    /\ LEDGERS_PER_DAY \in Nat /\ MAX_TTL_EXTENSION_LEDGERS \in Nat
    /\ TTL_LEDGERS \in Nat /\ MinimumTtl \in Nat /\ MaxLedger \in Nat
    /\ MaxAuctions \in Nat /\ Lifetimes \subseteq Nat
\* The comment on SECONDS_PER_LEDGER: the close cadence is a target that a
\* slow network exceeds and never beats.
ASSUME CadenceAssumption == Gaps \subseteq {g \in Nat : g >= SECONDS_PER_LEDGER}

VARIABLES
    ledger,             \* the current ledger number
    clock,              \* its timestamp
    instance,           \* the last ledger the auction contract's instance is alive at
    next_auction_id,
    entries,            \* id -> its end, its root, whether it is open, the lifetime
                        \* its term asks for, the last ledger its entry is alive at
    members             \* root -> when it was registered, the last ledger it is alive at

storageVars == <<ledger, clock, instance, next_auction_id, entries, members>>

alive(until) == ledger <= until
longer(x, y) == IF x >= y THEN x ELSE y

\* extend_ttl(key, ttl, ttl): never shortens.
extend_ttl(until, ttl) == longer(until, ledger + ttl)
Written == ledger + MinimumTtl

-----------------------------------------------------------------------------
lifetime_ledgers_u64(seconds) == (seconds \div SECONDS_PER_LEDGER) + LEDGERS_PER_DAY
lifetime_ledgersFaulty(seconds) == seconds \div SECONDS_PER_LEDGER
lifetime_ledgers(seconds) ==
    IF lifetime_ledgers_u64(seconds) > MAX_TTL_EXTENSION_LEDGERS
    THEN MAX_TTL_EXTENSION_LEDGERS
    ELSE lifetime_ledgers_u64(seconds)

NextAuctionId == next_auction_id + 1

\* create_auction writes the entry, then extends it and the instance.
create_auction(seconds, root) ==
    /\ next_auction_id <= MaxAuctions
    /\ alive(instance)
    /\ entries' = [i \in DOMAIN entries \cup {next_auction_id} |->
          IF i # next_auction_id THEN entries[i]
          ELSE [end |-> clock + seconds, root |-> root, open |-> TRUE,
                asked |-> lifetime_ledgers_u64(seconds),
                until |-> extend_ttl(Written, lifetime_ledgers(seconds))]]
    /\ next_auction_id' = NextAuctionId
    /\ instance' = extend_ttl(instance, lifetime_ledgers(seconds))
    /\ UNCHANGED <<ledger, clock, members>>

\* settle and refund_all read the entry and the instance, and extend neither.
Close(id) ==
    /\ entries[id].open
    /\ alive(instance) /\ alive(entries[id].until)
    /\ entries' = [entries EXCEPT ![id].open = FALSE]
    /\ UNCHANGED <<ledger, clock, instance, next_auction_id, members>>

\* register returns at once when the root has members: their lifetime is the
\* one of the first registration.
MembersUntil == extend_ttl(Written, TTL_LEDGERS)

register(root) ==
    /\ root \notin DOMAIN members
    /\ members' = [r \in DOMAIN members \cup {root} |->
                     IF r = root THEN [at |-> clock, until |-> MembersUntil]
                                 ELSE members[r]]
    /\ UNCHANGED <<ledger, clock, instance, next_auction_id, entries>>

CloseLedger ==
    /\ ledger < MaxLedger
    /\ ledger' = ledger + 1
    /\ \E g \in Gaps : clock' = clock + g
    /\ UNCHANGED <<instance, next_auction_id, entries, members>>

-----------------------------------------------------------------------------
StorageInit ==
    /\ ledger = 0 /\ clock = 0
    /\ instance = MinimumTtl
    /\ next_auction_id = 1
    /\ entries = [i \in {} |-> 0] /\ members = [r \in {} |-> 0]

StorageNext ==
    \/ \E seconds \in Lifetimes, root \in Roots : create_auction(seconds, root)
    \/ \E id \in DOMAIN entries : Close(id)
    \/ \E root \in Roots : register(root)
    \/ CloseLedger

StorageSpec == StorageInit /\ [][StorageNext]_storageVars

-----------------------------------------------------------------------------
(* Properties.                                                             *)

StorageTypeOK ==
    /\ ledger \in 0..MaxLedger /\ clock \in Nat /\ instance \in Nat
    /\ next_auction_id \in Nat \ {0}
    /\ DOMAIN entries = 1..(next_auction_id - 1)
    /\ \A id \in DOMAIN entries :
          entries[id] \in [end : Nat, root : Roots, open : BOOLEAN, asked : Nat, until : Nat]
    /\ DOMAIN members \subseteq Roots
    /\ \A r \in DOMAIN members : members[r] \in [at : Nat, until : Nat]

\* The last second an auction can be needed at, by the comment in create_auction:
\* "for the whole auction lifetime plus a day of margin".
NeededUntil(id) == entries[id].end + SECONDS_PER_LEDGER * LEDGERS_PER_DAY
Readable(id) == alive(entries[id].until) /\ alive(instance)

\* An auction whose lifetime was not clamped can be settled and refunded through
\* its deadline, its grace period and a day more, however slow the ledgers and
\* whatever was created in between: neither entry is archived by then.
ArchivalBlocksNoOrdinaryAuction ==
    \A id \in DOMAIN entries :
        entries[id].asked <= MAX_TTL_EXTENSION_LEDGERS /\ clock <= NeededUntil(id)
            => Readable(id)

\* The members of an auction's root are alive at its settlement when the auction
\* ends within the lifetime register asks for, counted from the registration.
MembersReadableAtSettle ==
    \A id \in DOMAIN entries :
        LET r == entries[id].root IN
        /\ r \in DOMAIN members
        /\ entries[id].end <= members[r].at + SECONDS_PER_LEDGER * TTL_LEDGERS
        /\ clock <= entries[id].end
        => alive(members[r].until)

\* Whoever settles or refunds an auction of an ordinary length, and whoever looks
\* for the members behind it, finds them on the ledger.
NothingNeededIsArchived == ArchivalBlocksNoOrdinaryAuction /\ MembersReadableAtSettle
=============================================================================
