---------------------------- MODULE CreationFlow ----------------------------
(***************************************************************************)
(* Sellers listing auctions: the form of routes/CreateAuctionRoute.tsx,    *)
(* its whitelist editor, and the whitelist registry contract               *)
(* (contracts/whitelist-registry/src/lib.rs).  A custom whitelist is       *)
(* registered in one transaction and the auction created in a second one;  *)
(* either may be reported as failed and land later or never, as            *)
(* TransactionClient shows, and the seller goes back to the form.          *)
(*                                                                         *)
(* A root is the Poseidon root of the padded member list, which is         *)
(* injective: a root is represented by the list it is computed from.       *)
(***************************************************************************)
EXTENDS Integers, FiniteSets, SequencesExt

CONSTANTS
    Sellers,
    Addresses,              \* addresses a whitelist may hold
    DEMO_WHITELIST_MEMBERS, \* a list of addresses, in leaf order
    MAX_WHITELIST_MEMBERS,
    Window,                 \* the bid window the form asks for
    TX_TIMEOUT,             \* validity of a transaction, as in TransactionClient
    MaxPresses,             \* bound: presses of the button
    MaxTime                 \* bound: the last tick

ASSUME DemoAssumption ==
    /\ MAX_WHITELIST_MEMBERS \in Nat
    /\ DEMO_WHITELIST_MEMBERS \in Seq(Addresses)
    /\ Len(DEMO_WHITELIST_MEMBERS) \in 1..MAX_WHITELIST_MEMBERS
ASSUME TimesAssumption ==
    Window \in Nat /\ TX_TIMEOUT \in Nat /\ MaxTime \in Nat /\ MaxPresses \in Nat

VARIABLES
    now,
    registry,   \* root -> the members registered for it, for the roots registered
    auctions,   \* the auctions created: their root, deadline and time
    pending,    \* transactions on their way
    form,       \* seller -> the member list the form shows
    stage,      \* seller -> the stage of runCreate
    run,        \* seller -> what the running runCreate captured
    presses     \* times the button was pressed

flowVars == <<form, stage, run, presses>>
vars == <<now, registry, auctions, pending, flowVars>>

Lists == UNION {[1..n -> Addresses] : n \in 0..MAX_WHITELIST_MEMBERS}
RootOf(list) == list

NoRun == [list |-> <<>>, deadline |-> 0]
NoMembers == <<>>
registered(root) == root \in DOMAIN registry

-----------------------------------------------------------------------------
(* The registry contract and the create_auction call, as they land.        *)

Register(root, members) ==
    registry' = IF registered(root) THEN registry
                ELSE [r \in DOMAIN registry \cup {root} |-> IF r = root THEN members ELSE registry[r]]

get_members(root) == IF registered(root) THEN registry[root] ELSE NoMembers

\* A transaction lands within its validity window; create_auction wants a
\* deadline in the future.
Land(t) ==
    /\ t \in pending
    /\ \/ /\ t.call = "register"
          /\ Register(t.root, t.members)
          /\ UNCHANGED auctions
       \/ /\ t.call = "create"
          /\ now < t.deadline
          /\ auctions' = auctions \cup {[root |-> t.root, deadline |-> t.deadline, created |-> now]}
          /\ UNCHANGED registry
    /\ pending' = pending \ {t}

Late(t) == Land(t) /\ UNCHANGED <<now, flowVars>>

Tick ==
    /\ now < MaxTime
    /\ now' = now + 1
    /\ pending' = {t \in pending : t.validUntil > now}    \* an expired one never lands
    /\ UNCHANGED <<registry, auctions, flowVars>>

-----------------------------------------------------------------------------
(* The form.                                                               *)

\* The editor merges typed, pasted or uploaded addresses into the list, drops
\* duplicates, cuts it at the tree's capacity, and refuses to confirm it empty.
Confirmable == {list \in Lists : list # NoMembers /\ Cardinality(ToSet(list)) = Len(list)}

EditWhitelist(s) ==
    /\ stage[s] # "created"
    /\ \E list \in Confirmable : form' = [form EXCEPT ![s] = list]
    /\ UNCHANGED <<now, registry, auctions, pending, stage, run, presses>>

whitelistIsDemo(list) == list = DEMO_WHITELIST_MEMBERS

Stage(s, next) == stage' = [stage EXCEPT ![s] = next]
Capture(s, list, deadline) == run' = [run EXCEPT ![s] = [list |-> list, deadline |-> deadline]]

\* The closure of the click: the list of this render.
RunCreate(s) ==
    /\ stage[s] \in {"form", "failed"}
    /\ presses < MaxPresses
    /\ presses' = presses + 1
    /\ Capture(s, form[s], 0)
    /\ Stage(s, IF whitelistIsDemo(form[s]) THEN "dated" ELSE "registering")
    /\ UNCHANGED <<now, registry, auctions, pending, form>>

\* submitRegisterWhitelist answers: the registration landed, or a failure that
\* may still be on its way; "sent" is the transaction left behind.
Registration(s) ==
    [call |-> "register", root |-> RootOf(run[s].list), members |-> run[s].list,
     validUntil |-> now + TX_TIMEOUT]

Registered(s) ==
    /\ stage[s] = "registering"
    /\ Register(RootOf(run[s].list), run[s].list)
    /\ Stage(s, "dated")
    /\ UNCHANGED <<now, auctions, pending, form, run, presses>>

RegistrationFailsFaulty(s) ==
    /\ stage[s] = "registering"
    /\ pending' \in {pending, pending \cup {Registration(s)}}
    /\ Stage(s, "dated")
    /\ UNCHANGED <<now, registry, auctions, form, run, presses>>
RegistrationFails(s) ==
    /\ stage[s] = "registering"
    /\ pending' \in {pending, pending \cup {Registration(s)}}
    /\ Stage(s, "failed")
    /\ UNCHANGED <<now, registry, auctions, form, run, presses>>

\* nowSeconds is read after the registration; the transaction is built at once
\* and the wallet signs it within its validity window.
CommitDeadlineFaulty(s) == Window
CommitDeadline(s) == now + Window

BuildCreate(s) ==
    /\ stage[s] = "dated"
    /\ Capture(s, run[s].list, CommitDeadline(s))
    /\ Stage(s, "creating")
    /\ pending' = pending \cup {[call |-> "create", root |-> RootOf(run[s].list),
                                 seller |-> s, deadline |-> CommitDeadline(s),
                                 validUntil |-> now + TX_TIMEOUT]}
    /\ UNCHANGED <<now, registry, auctions, form, presses>>

Own(s) == {t \in pending : t.call = "create" /\ t.seller = s /\ t.deadline = run[s].deadline
                           /\ t.root = RootOf(run[s].list)}

Created(s) ==
    /\ stage[s] = "creating"
    /\ \E t \in Own(s) : Land(t)
    /\ Stage(s, "created")
    /\ UNCHANGED <<now, form, run, presses>>

\* Rejected, declined or unanswered: the transaction is gone or left behind.
CreationFails(s) ==
    /\ stage[s] = "creating"
    /\ pending' \in {pending, pending \ Own(s)}
    /\ Stage(s, "failed")
    /\ UNCHANGED <<now, registry, auctions, form, run, presses>>

\* "Create another" brings the form back.
Again(s) ==
    /\ stage[s] = "created"
    /\ Stage(s, "form")
    /\ UNCHANGED <<now, registry, auctions, pending, form, run, presses>>

-----------------------------------------------------------------------------
Init ==
    /\ now = 0 /\ registry = [r \in {} |-> NoMembers] /\ auctions = {} /\ pending = {}
    /\ form = [s \in Sellers |-> DEMO_WHITELIST_MEMBERS]
    /\ stage = [s \in Sellers |-> "form"]
    /\ run = [s \in Sellers |-> NoRun]
    /\ presses = 0

Next ==
    \/ \E s \in Sellers :
          \/ EditWhitelist(s) \/ RunCreate(s) \/ Again(s)
          \/ Registered(s) \/ RegistrationFails(s)
          \/ BuildCreate(s) \/ Created(s) \/ CreationFails(s)
    \/ \E t \in pending : Late(t)
    \/ Tick

Spec == Init /\ [][Next]_vars

-----------------------------------------------------------------------------
(* Properties.                                                             *)

TypeOK ==
    /\ now \in 0..MaxTime /\ presses \in 0..MaxPresses
    /\ DOMAIN registry \subseteq Lists /\ \A r \in DOMAIN registry : registry[r] \in Lists
    /\ form \in [Sellers -> Lists \ {<<>>}]
    /\ stage \in [Sellers -> {"form", "registering", "dated", "creating", "created", "failed"}]
    /\ run \in [Sellers -> [list : Lists, deadline : Nat]]
    /\ \A x \in auctions : x.root \in Lists \ {<<>>} /\ x.created < x.deadline

\* Whatever failed, landed late or was edited in between, the members behind the
\* root of every auction can be read back when it is settled.
MembersBehindEveryAuction ==
    \A x \in auctions :
        \/ x.root = RootOf(DEMO_WHITELIST_MEMBERS)
        \/ RootOf(get_members(x.root)) = x.root

\* Bidders get the window the seller asked for, less what the transaction was
\* valid for: a slow registration or a retry does not eat into it.
BiddersGetTheWindow ==
    \A x \in auctions : x.deadline - x.created >= Window - TX_TIMEOUT
=============================================================================
