------------------------------ MODULE WebProofs -------------------------------
(***************************************************************************)
(* The promises of the parts that the web run composes: the creation of an *)
(* auction, for any sellers, lists and times; the lifetime of what the     *)
(* contracts store, for every cadence, margin, clamp and lifetime; the     *)
(* request limit of both services, for every capacity, refill time and     *)
(* adjustment of the clock; the faucet, for any wallets, processes and     *)
(* cooldown; and the room of an auction, for any answers, failures and     *)
(* look-ups.                                                               *)
(***************************************************************************)
EXTENDS CreationFlow, StorageLifetime, TokenBucket, Faucet, AuctionRoom, TLAPS

-----------------------------------------------------------------------------
(* Creating an auction takes two transactions.                             *)

Listed(root) == root = DEMO_WHITELIST_MEMBERS \/ root \in DOMAIN registry

\* A root is registered with its own members and no others; what is created, or
\* on its way to be, has members behind it, and so has a run past its registration.
FlowInv ==
    /\ DOMAIN stage = Sellers /\ DOMAIN run = Sellers
    /\ \A r \in DOMAIN registry : registry[r] = r
    /\ \A t \in pending : /\ t.call = "register" => t.members = t.root
                          /\ t.call = "create" => Listed(t.root)
    /\ \A s \in Sellers : stage[s] \in {"dated", "creating"} => Listed(run[s].list)
    /\ \A x \in auctions : Listed(x.root)

\* What is listed stays listed when a registration lands, and the new members are
\* those of their root.
LEMMA RegistrationKeeps ==
    ASSUME FlowInv, NEW root, Register(root, root)
    PROVE  /\ \A r : Listed(r) => Listed(r)'
           /\ Listed(root)'
           /\ \A r \in DOMAIN registry' : registry'[r] = r
<1>1. CASE registered(root)
  BY <1>1 DEF Register, registered, Listed, FlowInv
<1>2. CASE ~registered(root)
  <2>1. registry' = [r \in DOMAIN registry \cup {root} |-> IF r = root THEN root ELSE registry[r]]
    BY <1>2 DEF Register
  <2>. QED  BY <2>1 DEF Listed, FlowInv
<1>. QED  BY <1>1, <1>2

\* A landing transaction, on time or late.
LEMMA LandKeeps ==
    ASSUME FlowInv, NEW t, Land(t)
    PROVE  /\ \A r : Listed(r) => Listed(r)'
           /\ \A r \in DOMAIN registry' : registry'[r] = r
           /\ \A x \in auctions' : Listed(x.root)'
           /\ pending' \subseteq pending
<1>1. t \in pending /\ pending' = pending \ {t}
  BY DEF Land
<1>2. CASE t.call = "register" /\ Register(t.root, t.members) /\ UNCHANGED auctions
  <2>1. t.members = t.root
    BY <1>1, <1>2 DEF FlowInv
  <2>2. Register(t.root, t.root)
    BY <1>2, <2>1
  <2>. QED  BY <1>1, <1>2, <2>2, RegistrationKeeps DEF FlowInv
<1>3. CASE /\ t.call = "create"
           /\ auctions' = auctions \cup {[root |-> t.root, deadline |-> t.deadline, created |-> now]}
           /\ UNCHANGED registry
  <2>1. Listed(t.root)
    BY <1>1, <1>3 DEF FlowInv
  <2>2. \A r : Listed(r) => Listed(r)'
    BY <1>3 DEF Listed
  <2>3. \A x \in auctions' : Listed(x.root)
    BY <1>3, <2>1 DEF FlowInv
  <2>. QED  BY <1>1, <1>3, <2>2, <2>3 DEF FlowInv
<1>. QED  BY <1>2, <1>3 DEF Land

\* Nothing is registered or created at first.
LEMMA FlowInit == Init => FlowInv
  BY DEF Init, FlowInv

\* The invariant is inductive.
LEMMA FlowNext == FlowInv /\ [Next]_vars => FlowInv'
<1>. SUFFICES ASSUME FlowInv, [Next]_vars PROVE FlowInv'  OBVIOUS
<1>1. ASSUME NEW s \in Sellers, EditWhitelist(s) PROVE FlowInv'
  BY <1>1 DEF EditWhitelist, FlowInv, Listed
<1>2. ASSUME NEW s \in Sellers, RunCreate(s) PROVE FlowInv'
  <2>1. /\ UNCHANGED <<registry, auctions, pending>>
        /\ DOMAIN stage' = Sellers /\ DOMAIN run' = Sellers
        /\ \A q \in Sellers : q # s => stage'[q] = stage[q] /\ run'[q] = run[q]
        /\ run'[s].list = form[s]
        /\ stage'[s] = "dated" => form[s] = DEMO_WHITELIST_MEMBERS
        /\ stage'[s] # "creating"
    BY <1>2 DEF RunCreate, Stage, Capture, whitelistIsDemo, FlowInv
  <2>2. \A q \in Sellers : stage'[q] \in {"dated", "creating"} => Listed(run'[q].list)
    BY <2>1 DEF FlowInv, Listed
  <2>. QED  BY <2>1, <2>2 DEF FlowInv, Listed
<1>3. ASSUME NEW s \in Sellers, Again(s) PROVE FlowInv'
  BY <1>3 DEF Again, Stage, FlowInv, Listed
<1>4. ASSUME NEW s \in Sellers, Registered(s) PROVE FlowInv'
  <2>1. Register(run[s].list, run[s].list)
    BY <1>4 DEF Registered, RootOf
  <2>2. /\ \A r : Listed(r) => Listed(r)'
        /\ Listed(run[s].list)'
        /\ \A r \in DOMAIN registry' : registry'[r] = r
    <3>1. PICK list : list = run[s].list
      OBVIOUS
    <3>2. /\ \A r : Listed(r) => Listed(r)'
          /\ \A r \in DOMAIN registry' : registry'[r] = r
      BY <2>1, RegistrationKeeps
    <3>3. Listed(list)'
      BY <2>1, <3>1, RegistrationKeeps
    <3>4. run' = run
      BY <1>4 DEF Registered
    <3>. QED  BY <3>1, <3>2, <3>3, <3>4
  <2>3. /\ UNCHANGED <<auctions, pending, run>> /\ DOMAIN stage' = Sellers
        /\ \A q \in Sellers : q # s => stage'[q] = stage[q]
    BY <1>4 DEF Registered, Stage, FlowInv
  <2>4. \A q \in Sellers : stage'[q] \in {"dated", "creating"} => Listed(run[q].list)'
    <3>1. ASSUME NEW q \in Sellers, stage'[q] \in {"dated", "creating"}, q # s
          PROVE  Listed(run[q].list)'
      <4>1. Listed(run[q].list)
        BY <2>3, <3>1 DEF FlowInv
      <4>2. run'[q].list = run[q].list
        BY <2>3
      <4>. QED  BY <2>2, <4>1, <4>2 DEF Listed
    <3>. QED  BY <2>2, <3>1
  <2>. QED  BY <2>2, <2>3, <2>4 DEF FlowInv, Listed
<1>5. ASSUME NEW s \in Sellers, RegistrationFails(s) PROVE FlowInv'
  <2>1. /\ UNCHANGED <<registry, auctions, run>> /\ DOMAIN stage' = Sellers
        /\ \A q \in Sellers : q # s => stage'[q] = stage[q]
        /\ stage'[s] = "failed"
        /\ pending' \subseteq pending \cup {Registration(s)}
    BY <1>5 DEF RegistrationFails, Stage, FlowInv
  <2>2. Registration(s).call = "register" /\ Registration(s).members = Registration(s).root
    BY DEF Registration, RootOf
  <2>3. \A t \in pending' : /\ t.call = "register" => t.members = t.root
                            /\ t.call = "create" => Listed(t.root)
    BY <2>1, <2>2 DEF FlowInv
  <2>. QED  BY <2>1, <2>3 DEF FlowInv, Listed
<1>6. ASSUME NEW s \in Sellers, BuildCreate(s) PROVE FlowInv'
  <2>. DEFINE c == [call |-> "create", root |-> RootOf(run[s].list), seller |-> s,
                    deadline |-> CommitDeadline(s), validUntil |-> now + TX_TIMEOUT]
  <2>1. /\ UNCHANGED <<registry, auctions>> /\ DOMAIN stage' = Sellers /\ DOMAIN run' = Sellers
        /\ \A q \in Sellers : q # s => stage'[q] = stage[q] /\ run'[q] = run[q]
        /\ run'[s].list = run[s].list
        /\ pending' = pending \cup {c}
    BY <1>6 DEF BuildCreate, Stage, Capture, FlowInv
  <2>2. c.call = "create" /\ c.root = run[s].list
    BY DEF RootOf
  <2>3. Listed(run[s].list)
    BY <1>6 DEF BuildCreate, FlowInv
  <2>. HIDE DEF c
  <2>4. \A t \in pending' : /\ t.call = "register" => t.members = t.root
                            /\ t.call = "create" => Listed(t.root)
    BY <2>1, <2>2, <2>3 DEF FlowInv
  <2>5. \A q \in Sellers : stage'[q] \in {"dated", "creating"} => Listed(run'[q].list)
    BY <2>1, <2>3 DEF FlowInv
  <2>. QED  BY <2>1, <2>4, <2>5 DEF FlowInv, Listed
<1>7. ASSUME NEW t, Land(t), DOMAIN stage' = Sellers, UNCHANGED run,
             \A q \in Sellers : stage'[q] \in {"dated", "creating"} => stage'[q] = stage[q]
      PROVE  FlowInv'
  <2>1. /\ \A r : Listed(r) => Listed(r)'
        /\ \A r \in DOMAIN registry' : registry'[r] = r
        /\ \A x \in auctions' : Listed(x.root)'
        /\ pending' \subseteq pending
    BY <1>7, LandKeeps
  <2>2. \A q \in Sellers : stage'[q] \in {"dated", "creating"} => Listed(run[q].list)'
    <3>. SUFFICES ASSUME NEW q \in Sellers, stage'[q] \in {"dated", "creating"}
                  PROVE  run'[q].list = DEMO_WHITELIST_MEMBERS \/ run'[q].list \in DOMAIN registry'
      BY DEF Listed
    <3>1. Listed(run[q].list)
      BY <1>7 DEF FlowInv
    <3>2. run'[q].list = run[q].list
      BY <1>7
    <3>. QED  BY <2>1, <3>1, <3>2 DEF Listed
  <2>3. \A p \in pending' : /\ p.call = "register" => p.members = p.root
                            /\ p.call = "create" => Listed(p.root)'
    BY <2>1 DEF FlowInv
  <2>. QED  BY <1>7, <2>1, <2>2, <2>3 DEF FlowInv
<1>8. ASSUME NEW s \in Sellers, Created(s) PROVE FlowInv'
  <2>1. PICK t : Land(t)
    BY <1>8 DEF Created
  <2>2. /\ DOMAIN stage' = Sellers /\ UNCHANGED run
        /\ \A q \in Sellers : stage'[q] \in {"dated", "creating"} => stage'[q] = stage[q]
    BY <1>8 DEF Created, Stage, FlowInv
  <2>. QED  BY <1>7, <2>1, <2>2
<1>9. ASSUME NEW s \in Sellers, CreationFails(s) PROVE FlowInv'
  <2>1. /\ UNCHANGED <<registry, auctions, run>> /\ DOMAIN stage' = Sellers
        /\ \A q \in Sellers : q # s => stage'[q] = stage[q]
        /\ stage'[s] = "failed" /\ pending' \subseteq pending
    BY <1>9 DEF CreationFails, Stage, FlowInv
  <2>. QED  BY <2>1 DEF FlowInv, Listed
<1>10. ASSUME NEW t \in pending, Late(t) PROVE FlowInv'
  BY <1>7, <1>10 DEF Late, flowVars, FlowInv
<1>11. CASE Tick
  <2>1. /\ UNCHANGED <<registry, auctions, stage, run>> /\ pending' \subseteq pending
    BY <1>11 DEF Tick, flowVars
  <2>. QED  BY <2>1 DEF FlowInv, Listed
<1>12. CASE UNCHANGED vars
  BY <1>12 DEF vars, flowVars, FlowInv, Listed
<1>. QED  BY <1>1, <1>2, <1>3, <1>4, <1>5, <1>6, <1>8, <1>9, <1>10, <1>11, <1>12 DEF Next

\* Whatever is registered, lands late, fails or is edited in between, every
\* auction's members can be read back from its root.
THEOREM MembersAreBehindEveryAuction == Spec => []MembersBehindEveryAuction
<1>1. ASSUME FlowInv PROVE MembersBehindEveryAuction
  BY <1>1 DEF FlowInv, Listed, MembersBehindEveryAuction, RootOf, get_members, registered
<1>. QED  BY <1>1, FlowInit, FlowNext, PTL DEF Spec

-----------------------------------------------------------------------------
(* The window.                                                             *)

\* A transaction on its way is still valid, and one that creates an auction asks
\* for a deadline the window after the moment it was built.
OnItsWay(t) ==
    /\ t.validUntil \in Int /\ now <= t.validUntil
    /\ t.call = "create" => /\ t.deadline \in Int
                            /\ t.deadline = (t.validUntil - TX_TIMEOUT) + Window

WindowInv ==
    /\ now \in Nat
    /\ \A t \in pending : OnItsWay(t)
    /\ \A x \in auctions : x.deadline - x.created >= Window - TX_TIMEOUT

\* A landing transaction leaves bidders the window but for its validity.
LEMMA LandLeavesTheWindow ==
    ASSUME WindowInv, NEW t, Land(t), now' = now
    PROVE  WindowInv'
<1>1. t \in pending /\ pending' = pending \ {t} /\ OnItsWay(t) /\ now \in Nat
  BY DEF Land, WindowInv
<1>2. \A u \in pending' : OnItsWay(u)'
  BY <1>1 DEF OnItsWay, WindowInv
<1>3. CASE t.call = "register" /\ UNCHANGED auctions
  BY <1>1, <1>2, <1>3 DEF WindowInv
<1>4. CASE /\ t.call = "create"
           /\ auctions' = auctions \cup {[root |-> t.root, deadline |-> t.deadline, created |-> now]}
  <2>1. t.deadline - now >= Window - TX_TIMEOUT
    BY <1>1, <1>4, TimesAssumption DEF OnItsWay
  <2>2. \A x \in auctions' : x.deadline - x.created >= Window - TX_TIMEOUT
    BY <1>4, <2>1 DEF WindowInv
  <2>. QED  BY <1>1, <1>2, <2>2 DEF WindowInv
<1>. QED  BY <1>3, <1>4 DEF Land

\* A step at the form adds at most one transaction, built now.
LEMMA FormLeavesTheWindow ==
    ASSUME WindowInv, UNCHANGED <<now, auctions>>, NEW t,
           pending' \subseteq pending \cup {t}, t \in pending' => OnItsWay(t)
    PROVE  WindowInv'
  BY DEF WindowInv, OnItsWay

LEMMA NextLeavesTheWindow == WindowInv /\ [Next]_vars => WindowInv'
<1>. SUFFICES ASSUME WindowInv, [Next]_vars PROVE WindowInv'  OBVIOUS
<1>. USE TimesAssumption
<1>1. ASSUME UNCHANGED <<now, auctions>>, pending' \subseteq pending PROVE WindowInv'
  BY <1>1 DEF WindowInv, OnItsWay
<1>2. ASSUME NEW s \in Sellers, EditWhitelist(s) \/ RunCreate(s) \/ Again(s) \/ Registered(s)
      PROVE  WindowInv'
  BY <1>1, <1>2 DEF EditWhitelist, RunCreate, Again, Registered
<1>3. ASSUME NEW s \in Sellers, RegistrationFails(s) PROVE WindowInv'
  <2>1. /\ UNCHANGED <<now, auctions>>
        /\ pending' \subseteq pending \cup {Registration(s)}
    BY <1>3 DEF RegistrationFails
  <2>2. now \in Nat
    BY DEF WindowInv
  <2>3. Registration(s).call # "create" /\ Registration(s).validUntil = now + TX_TIMEOUT
    BY DEF Registration
  <2>4. OnItsWay(Registration(s))
    BY <2>2, <2>3 DEF OnItsWay
  <2>. QED  BY <2>1, <2>4, FormLeavesTheWindow
<1>4. ASSUME NEW s \in Sellers, BuildCreate(s) PROVE WindowInv'
  <2>. DEFINE c == [call |-> "create", root |-> RootOf(run[s].list), seller |-> s,
                    deadline |-> CommitDeadline(s), validUntil |-> now + TX_TIMEOUT]
  <2>1. UNCHANGED <<now, auctions>> /\ pending' = pending \cup {c}
    BY <1>4 DEF BuildCreate
  <2>2. now \in Nat
    BY DEF WindowInv
  <2>3. c.deadline = now + Window /\ c.validUntil = now + TX_TIMEOUT
    BY DEF CommitDeadline
  <2>. HIDE DEF c
  <2>4. OnItsWay(c)
    BY <2>2, <2>3 DEF OnItsWay
  <2>. QED  BY <2>1, <2>4, FormLeavesTheWindow
<1>5. ASSUME NEW s \in Sellers, Created(s) PROVE WindowInv'
  BY <1>5, LandLeavesTheWindow DEF Created
<1>6. ASSUME NEW s \in Sellers, CreationFails(s) PROVE WindowInv'
  BY <1>1, <1>6 DEF CreationFails
<1>7. ASSUME NEW t \in pending, Late(t) PROVE WindowInv'
  BY <1>7, LandLeavesTheWindow DEF Late
<1>8. CASE Tick
  <2>1. now \in Nat /\ now' = now + 1 /\ auctions' = auctions
    BY <1>8 DEF Tick, WindowInv
  <2>2. ASSUME NEW t \in pending' PROVE OnItsWay(t)'
    <3>1. t \in pending /\ t.validUntil > now
      BY <1>8, <2>2 DEF Tick
    <3>2. OnItsWay(t)
      BY <3>1 DEF WindowInv
    <3>. QED  BY <2>1, <3>1, <3>2 DEF OnItsWay
  <2>. QED  BY <2>1, <2>2 DEF WindowInv
<1>9. CASE UNCHANGED vars
  BY <1>1, <1>9 DEF vars
<1>. QED  BY <1>2, <1>3, <1>4, <1>5, <1>6, <1>7, <1>8, <1>9 DEF Next

\* However long the registration took and however often the seller pressed again,
\* bidders get the window the form asked for, less a transaction's validity.
THEOREM WindowIsKept == Spec => []BiddersGetTheWindow
<1>1. Init => WindowInv
  BY TimesAssumption DEF Init, WindowInv
<1>2. WindowInv => BiddersGetTheWindow
  BY DEF WindowInv, BiddersGetTheWindow
<1>. QED  BY <1>1, <1>2, NextLeavesTheWindow, PTL DEF Spec

-----------------------------------------------------------------------------
(* The types of the flow.                                                  *)

WithMembers == Lists \ {<<>>}

\* What is on its way, or being run, has a list with members.
FlowTypes ==
    /\ TypeOK
    /\ \A t \in pending :
          /\ t.root \in WithMembers
          /\ t.call = "register" => t.members \in Lists
          /\ t.call = "create" => t.deadline \in Nat
    /\ \A s \in Sellers :
          stage[s] \in {"registering", "dated", "creating"} => run[s].list \in WithMembers

LEMMA DemoHasMembers == DEMO_WHITELIST_MEMBERS \in WithMembers /\ <<>> \in Lists
<1>1. PICK n \in 1..MAX_WHITELIST_MEMBERS : n = Len(DEMO_WHITELIST_MEMBERS)
  BY DemoAssumption
<1>2. DEMO_WHITELIST_MEMBERS \in [1..n -> Addresses] /\ DEMO_WHITELIST_MEMBERS # <<>>
  BY <1>1, DemoAssumption
<1>3. n \in 0..MAX_WHITELIST_MEMBERS /\ 0 \in 0..MAX_WHITELIST_MEMBERS
  BY DemoAssumption
<1>4. <<>> \in [1..0 -> Addresses]
  OBVIOUS
<1>. QED  BY <1>2, <1>3, <1>4 DEF WithMembers, Lists

LEMMA FlowTypesStart == Init => FlowTypes
<1>. SUFFICES ASSUME Init PROVE FlowTypes  OBVIOUS
<1>1. /\ now \in 0..MaxTime /\ presses \in 0..MaxPresses
      /\ stage \in [Sellers -> {"form", "registering", "dated", "creating", "created", "failed"}]
      /\ \A s \in Sellers : stage[s] = "form"
      /\ DOMAIN registry = {} /\ auctions = {} /\ pending = {}
  BY TimesAssumption DEF Init
<1>2. form \in [Sellers -> Lists \ {<<>>}] /\ run \in [Sellers -> [list : Lists, deadline : Nat]]
  BY DemoHasMembers DEF Init, NoRun, WithMembers
<1>. QED  BY <1>1, <1>2 DEF FlowTypes, TypeOK

\* A registration keeps lists behind roots that are lists.
LEMMA RegistrationKeepsTypes ==
    ASSUME TypeOK, NEW root \in Lists, NEW list \in Lists, Register(root, list)
    PROVE  DOMAIN registry' \subseteq Lists /\ \A r \in DOMAIN registry' : registry'[r] \in Lists
<1>1. CASE registered(root)
  BY <1>1 DEF Register, TypeOK
<1>2. CASE ~registered(root)
  <2>1. registry' = [r \in DOMAIN registry \cup {root} |->
                        IF r = root THEN list ELSE registry[r]]
    BY <1>2 DEF Register
  <2>. QED  BY <2>1 DEF TypeOK
<1>. QED  BY <1>1, <1>2

LEMMA LandKeepsTypes ==
    ASSUME FlowTypes, NEW t, Land(t)
    PROVE  /\ DOMAIN registry' \subseteq Lists /\ \A r \in DOMAIN registry' : registry'[r] \in Lists
           /\ \A x \in auctions' : x.root \in Lists \ {<<>>} /\ x.created < x.deadline
           /\ pending' \subseteq pending
<1>1. t \in pending /\ pending' = pending \ {t} /\ t.root \in WithMembers
  BY DEF Land, FlowTypes
<1>2. CASE t.call = "register" /\ Register(t.root, t.members) /\ UNCHANGED auctions
  <2>1. t.root \in Lists /\ t.members \in Lists
    BY <1>1, <1>2 DEF FlowTypes, WithMembers
  <2>. QED  BY <1>1, <1>2, <2>1, RegistrationKeepsTypes DEF FlowTypes, TypeOK
<1>3. CASE /\ t.call = "create" /\ now < t.deadline
           /\ auctions' = auctions \cup {[root |-> t.root, deadline |-> t.deadline, created |-> now]}
           /\ UNCHANGED registry
  <2>1. \A x \in auctions' : x.root \in Lists \ {<<>>} /\ x.created < x.deadline
    BY <1>1, <1>3 DEF FlowTypes, TypeOK, WithMembers
  <2>. QED  BY <1>1, <1>3, <2>1 DEF FlowTypes, TypeOK
<1>. QED  BY <1>2, <1>3 DEF Land

\* A step that leaves the form, the runs and the clock alone.
LEMMA LandedTypes ==
    ASSUME FlowTypes, NEW t, Land(t), UNCHANGED <<now, form, run, presses>>,
           stage' \in [Sellers -> {"form", "registering", "dated", "creating", "created", "failed"}],
           \A s \in Sellers :
              stage'[s] \in {"registering", "dated", "creating"} => stage'[s] = stage[s]
    PROVE  FlowTypes'
<1>1. TypeOK'
  BY LandKeepsTypes DEF FlowTypes, TypeOK
<1>2. \A u \in pending' : u \in pending
  BY LandKeepsTypes
<1>. QED  BY <1>1, <1>2 DEF FlowTypes

LEMMA FlowTypesKept == FlowTypes /\ [Next]_vars => FlowTypes'
<1>. SUFFICES ASSUME FlowTypes, [Next]_vars PROVE FlowTypes'  OBVIOUS
<1>. USE TimesAssumption
<1>1. ASSUME NEW s \in Sellers, EditWhitelist(s) PROVE FlowTypes'
  <2>1. PICK list \in Confirmable : form' = [form EXCEPT ![s] = list]
    BY <1>1 DEF EditWhitelist
  <2>2. list \in Lists \ {<<>>}
    BY DEF Confirmable, NoMembers
  <2>3. form' \in [Sellers -> Lists \ {<<>>}]
    BY <2>1, <2>2 DEF FlowTypes, TypeOK
  <2>. QED  BY <1>1, <2>3 DEF EditWhitelist, FlowTypes, TypeOK
<1>2. ASSUME NEW s \in Sellers, RunCreate(s) PROVE FlowTypes'
  <2>1. form[s] \in WithMembers /\ form[s] \in Lists /\ 0 \in Nat
    BY DEF FlowTypes, TypeOK, WithMembers
  <2>2. /\ run' \in [Sellers -> [list : Lists, deadline : Nat]]
        /\ run'[s].list = form[s] /\ \A q \in Sellers : q # s => run'[q] = run[q]
    BY <1>2, <2>1 DEF RunCreate, Capture, FlowTypes, TypeOK
  <2>3. /\ stage' \in [Sellers -> {"form", "registering", "dated", "creating", "created", "failed"}]
        /\ \A q \in Sellers : q # s => stage'[q] = stage[q]
    BY <1>2 DEF RunCreate, Stage, FlowTypes, TypeOK
  <2>4. presses' \in 0..MaxPresses
    BY <1>2 DEF RunCreate, FlowTypes, TypeOK
  <2>. QED  BY <1>2, <2>1, <2>2, <2>3, <2>4 DEF RunCreate, FlowTypes, TypeOK
<1>3. ASSUME NEW s \in Sellers, Again(s) \/ CreationFails(s) PROVE FlowTypes'
  <2>1. /\ stage' \in [Sellers -> {"form", "registering", "dated", "creating", "created", "failed"}]
        /\ stage'[s] \in {"form", "failed"} /\ \A q \in Sellers : q # s => stage'[q] = stage[q]
        /\ pending' \subseteq pending /\ UNCHANGED <<now, registry, auctions, form, run, presses>>
    BY <1>3 DEF Again, CreationFails, Stage, FlowTypes, TypeOK
  <2>. QED  BY <2>1 DEF FlowTypes, TypeOK
<1>4. ASSUME NEW s \in Sellers, Registered(s) PROVE FlowTypes'
  <2>1. run[s].list \in WithMembers /\ run[s].list \in Lists
    BY <1>4 DEF Registered, FlowTypes, WithMembers
  <2>2. DOMAIN registry' \subseteq Lists /\ \A r \in DOMAIN registry' : registry'[r] \in Lists
    BY <1>4, <2>1, RegistrationKeepsTypes DEF Registered, RootOf, FlowTypes
  <2>3. /\ stage' \in [Sellers -> {"form", "registering", "dated", "creating", "created", "failed"}]
        /\ \A q \in Sellers : q # s => stage'[q] = stage[q]
    BY <1>4 DEF Registered, Stage, FlowTypes, TypeOK
  <2>. QED  BY <1>4, <2>1, <2>2, <2>3 DEF Registered, FlowTypes, TypeOK
<1>5. ASSUME NEW s \in Sellers, RegistrationFails(s) PROVE FlowTypes'
  <2>1. /\ stage' \in [Sellers -> {"form", "registering", "dated", "creating", "created", "failed"}]
        /\ stage'[s] = "failed" /\ \A q \in Sellers : q # s => stage'[q] = stage[q]
        /\ pending' \subseteq pending \cup {Registration(s)}
        /\ UNCHANGED <<now, registry, auctions, form, run, presses>>
    BY <1>5 DEF RegistrationFails, Stage, FlowTypes, TypeOK
  <2>2. /\ Registration(s).root \in WithMembers /\ Registration(s).members \in Lists
        /\ Registration(s).call = "register"
    BY <1>5 DEF RegistrationFails, Registration, RootOf, FlowTypes, WithMembers
  <2>. QED  BY <2>1, <2>2 DEF FlowTypes, TypeOK
<1>6. ASSUME NEW s \in Sellers, BuildCreate(s) PROVE FlowTypes'
  <2>. DEFINE c == [call |-> "create", root |-> RootOf(run[s].list), seller |-> s,
                    deadline |-> CommitDeadline(s), validUntil |-> now + TX_TIMEOUT]
  <2>1. run[s].list \in WithMembers /\ run[s].list \in Lists
    BY <1>6 DEF BuildCreate, FlowTypes, WithMembers
  <2>2. CommitDeadline(s) \in Nat
    BY DEF CommitDeadline, FlowTypes, TypeOK
  <2>3. /\ run' \in [Sellers -> [list : Lists, deadline : Nat]]
        /\ run'[s].list = run[s].list /\ \A q \in Sellers : q # s => run'[q] = run[q]
    BY <1>6, <2>1, <2>2 DEF BuildCreate, Capture, FlowTypes, TypeOK
  <2>4. /\ stage' \in [Sellers -> {"form", "registering", "dated", "creating", "created", "failed"}]
        /\ \A q \in Sellers : q # s => stage'[q] = stage[q]
    BY <1>6 DEF BuildCreate, Stage, FlowTypes, TypeOK
  <2>5. c.root \in WithMembers /\ c.call = "create" /\ c.deadline \in Nat
    BY <2>1, <2>2 DEF RootOf
  <2>6. pending' = pending \cup {c} /\ UNCHANGED <<now, registry, auctions, form, presses>>
    BY <1>6 DEF BuildCreate
  <2>. HIDE DEF c
  <2>. QED  BY <2>1, <2>3, <2>4, <2>5, <2>6 DEF FlowTypes, TypeOK
<1>7. ASSUME NEW s \in Sellers, Created(s) PROVE FlowTypes'
  <2>1. PICK t : Land(t)
    BY <1>7 DEF Created
  <2>2. /\ stage' \in [Sellers -> {"form", "registering", "dated", "creating", "created", "failed"}]
        /\ \A q \in Sellers :
              stage'[q] \in {"registering", "dated", "creating"} => stage'[q] = stage[q]
    BY <1>7 DEF Created, Stage, FlowTypes, TypeOK
  <2>. QED  BY <1>7, <2>1, <2>2, LandedTypes DEF Created
<1>8. ASSUME NEW t \in pending, Late(t) PROVE FlowTypes'
  <2>1. stage' \in [Sellers -> {"form", "registering", "dated", "creating", "created", "failed"}]
    BY <1>8 DEF Late, flowVars, FlowTypes, TypeOK
  <2>. QED  BY <1>8, <2>1, LandedTypes DEF Late, flowVars
<1>9. CASE Tick
  <2>1. /\ now' \in 0..MaxTime /\ pending' \subseteq pending
        /\ UNCHANGED <<registry, auctions, form, stage, run, presses>>
    BY <1>9 DEF Tick, flowVars, FlowTypes, TypeOK
  <2>. QED  BY <2>1 DEF FlowTypes, TypeOK
<1>10. CASE UNCHANGED vars
  BY <1>10 DEF vars, flowVars, FlowTypes, TypeOK
<1>. QED  BY <1>1, <1>2, <1>3, <1>4, <1>5, <1>6, <1>7, <1>8, <1>9, <1>10 DEF Next

\* Type correctness of the flow: every root is of a list the tree has room for, no
\* auction has an empty one, and none was created past its deadline.
THEOREM FlowTypeCorrect == Spec => []TypeOK
<1>1. FlowTypes => TypeOK
  BY DEF FlowTypes
<1>. QED  BY <1>1, FlowTypesStart, FlowTypesKept, PTL DEF Spec

-----------------------------------------------------------------------------
(* The lifetime of the contracts' storage.                                 *)

\* What the multiplications below rest on.
LEMMA Scaling ==
    ASSUME NEW k \in Nat, NEW x \in Int, NEW y \in Int
    PROVE  /\ k * x \in Int
           /\ k * (x + y) = k * x + k * y
           /\ k * (x + 1) = k * x + k
           /\ x <= y => k * x <= k * y
  OBVIOUS

LEMMA Quotient ==
    ASSUME NEW k \in Nat \ {0}, NEW s \in Nat
    PROVE  s \div k \in Nat /\ s < k * (s \div k) + k
  OBVIOUS

\* The moment an entry that is alive at ledger "until" can be archived at the
\* earliest, at the fastest cadence the network has.
Earliest(until) == clock + SECONDS_PER_LEDGER * (until + 1 - ledger)

Lasting(id) ==
    entries[id].asked <= MAX_TTL_EXTENSION_LEDGERS =>
        /\ NeededUntil(id) < Earliest(entries[id].until)
        /\ NeededUntil(id) < Earliest(instance)

MembersLast(r) ==
    members[r].at + SECONDS_PER_LEDGER * TTL_LEDGERS < Earliest(members[r].until)

StorageInv ==
    /\ StorageTypeOK
    /\ \A id \in DOMAIN entries : Lasting(id)
    /\ \A r \in DOMAIN members : MembersLast(r)

\* An entry is alive until its earliest archival.
LEMMA AliveBefore ==
    ASSUME StorageTypeOK, NEW until \in Nat, clock < Earliest(until)
    PROVE  alive(until)
<1>1. /\ SECONDS_PER_LEDGER \in Nat /\ ledger \in Nat /\ clock \in Nat
  BY LifetimeAssumption DEF StorageTypeOK
<1>2. SUFFICES ASSUME ledger > until PROVE FALSE
  BY <1>1 DEF alive
<1>3. until + 1 - ledger \in Int /\ until + 1 - ledger <= 0
  BY <1>1, <1>2
<1>4. SECONDS_PER_LEDGER * (until + 1 - ledger) <= SECONDS_PER_LEDGER * 0
  BY <1>1, <1>3, Scaling
<1>5. SECONDS_PER_LEDGER * 0 = 0 /\ SECONDS_PER_LEDGER * (until + 1 - ledger) \in Int
  BY <1>1, <1>3, Scaling
<1>. HIDE DEF alive
<1>. QED  BY <1>1, <1>4, <1>5 DEF Earliest

\* A longer life is archived no earlier.
LEMMA EarliestGrows ==
    ASSUME StorageTypeOK, NEW u \in Nat, NEW v \in Nat, u <= v
    PROVE  Earliest(u) \in Int /\ Earliest(v) \in Int /\ Earliest(u) <= Earliest(v)
<1>1. /\ SECONDS_PER_LEDGER \in Nat /\ ledger \in Nat /\ clock \in Nat
  BY LifetimeAssumption DEF StorageTypeOK
<1>2. /\ u + 1 - ledger \in Int /\ v + 1 - ledger \in Int
      /\ u + 1 - ledger <= v + 1 - ledger
  BY <1>1
<1>. DEFINE mu == SECONDS_PER_LEDGER * (u + 1 - ledger)
            mv == SECONDS_PER_LEDGER * (v + 1 - ledger)
<1>3. mu \in Int /\ mv \in Int /\ mu <= mv
  BY <1>1, <1>2, Scaling
<1>. HIDE DEF mu, mv
<1>4. clock + mu \in Int /\ clock + mv \in Int /\ clock + mu <= clock + mv
  BY <1>1, <1>3
<1>. QED  BY <1>4 DEF Earliest, mu, mv

\* What an extension by some ledgers gives from now on.
LEMMA EarliestOfExtension ==
    ASSUME StorageTypeOK, NEW u \in Nat, NEW ttl \in Nat
    PROVE  /\ extend_ttl(u, ttl) \in Nat /\ u <= extend_ttl(u, ttl)
           /\ clock + SECONDS_PER_LEDGER * ttl + SECONDS_PER_LEDGER
                <= Earliest(extend_ttl(u, ttl))
<1>1. /\ SECONDS_PER_LEDGER \in Nat /\ ledger \in Nat /\ clock \in Nat
  BY LifetimeAssumption DEF StorageTypeOK
<1>2. /\ extend_ttl(u, ttl) \in Nat /\ u <= extend_ttl(u, ttl)
      /\ ledger + ttl <= extend_ttl(u, ttl)
  BY <1>1 DEF extend_ttl, longer
<1>3. Earliest(ledger + ttl) <= Earliest(extend_ttl(u, ttl))
  BY <1>1, <1>2, EarliestGrows
<1>4. (ledger + ttl) + 1 - ledger = ttl + 1
  BY <1>1
<1>5. SECONDS_PER_LEDGER * (ttl + 1) = SECONDS_PER_LEDGER * ttl + SECONDS_PER_LEDGER
  BY <1>1, Scaling
<1>6. SECONDS_PER_LEDGER * ttl \in Int
  BY <1>1, Scaling
<1>7. Earliest(ledger + ttl) = clock + (SECONDS_PER_LEDGER * ttl + SECONDS_PER_LEDGER)
  BY <1>4, <1>5 DEF Earliest
<1>. DEFINE m == SECONDS_PER_LEDGER * ttl
<1>. HIDE DEF m
<1>8. clock + (m + SECONDS_PER_LEDGER) = clock + m + SECONDS_PER_LEDGER
  BY <1>1, <1>6 DEF m
<1>. QED  BY <1>2, <1>3, <1>7, <1>8 DEF m

\* The lifetime asked for covers the term and the margin, to the last second.
LEMMA LifetimeCovers ==
    ASSUME NEW s \in Nat
    PROVE  /\ lifetime_ledgers_u64(s) \in Nat /\ lifetime_ledgers(s) \in Nat
           /\ s + SECONDS_PER_LEDGER * LEDGERS_PER_DAY
                < SECONDS_PER_LEDGER * lifetime_ledgers_u64(s) + SECONDS_PER_LEDGER
           /\ lifetime_ledgers_u64(s) <= MAX_TTL_EXTENSION_LEDGERS
                => lifetime_ledgers(s) = lifetime_ledgers_u64(s)
<1>1. /\ SECONDS_PER_LEDGER \in Nat \ {0} /\ LEDGERS_PER_DAY \in Nat
      /\ MAX_TTL_EXTENSION_LEDGERS \in Nat
  BY LifetimeAssumption
<1>. DEFINE q == s \div SECONDS_PER_LEDGER
<1>2. q \in Nat /\ s < SECONDS_PER_LEDGER * q + SECONDS_PER_LEDGER
  BY <1>1, Quotient
<1>. HIDE DEF q
<1>3. lifetime_ledgers_u64(s) = q + LEDGERS_PER_DAY
  BY DEF lifetime_ledgers_u64, q
<1>4. /\ SECONDS_PER_LEDGER * (q + LEDGERS_PER_DAY)
            = SECONDS_PER_LEDGER * q + SECONDS_PER_LEDGER * LEDGERS_PER_DAY
      /\ SECONDS_PER_LEDGER * q \in Int /\ SECONDS_PER_LEDGER * LEDGERS_PER_DAY \in Int
  BY <1>1, <1>2, Scaling
<1>5. s + SECONDS_PER_LEDGER * LEDGERS_PER_DAY
        < SECONDS_PER_LEDGER * q + SECONDS_PER_LEDGER * LEDGERS_PER_DAY + SECONDS_PER_LEDGER
  BY <1>1, <1>2, <1>4
<1>6. lifetime_ledgers_u64(s) \in Nat /\ lifetime_ledgers(s) \in Nat
  BY <1>1, <1>2, <1>3 DEF lifetime_ledgers
<1>7. lifetime_ledgers_u64(s) <= MAX_TTL_EXTENSION_LEDGERS
        => lifetime_ledgers(s) = lifetime_ledgers_u64(s)
  BY <1>1, <1>2, <1>3 DEF lifetime_ledgers
<1>. QED  BY <1>3, <1>4, <1>5, <1>6, <1>7

\* Nothing is stored at first.
LEMMA StorageInitial == StorageInit => StorageInv
  BY LifetimeAssumption DEF StorageInit, StorageInv, StorageTypeOK

\* The entry and the instance created with an auction last long enough, and the
\* instance of the others lasts no shorter.
LEMMA CreateKeeps ==
    ASSUME StorageInv, NEW s \in Lifetimes, NEW root \in Roots, create_auction(s, root)
    PROVE  StorageInv'
<1>. DEFINE ttl == lifetime_ledgers(s)
<1>1. /\ SECONDS_PER_LEDGER \in Nat /\ LEDGERS_PER_DAY \in Nat /\ MinimumTtl \in Nat
      /\ s \in Nat
  BY LifetimeAssumption
<1>2. /\ ledger \in Nat /\ clock \in Nat /\ instance \in Nat /\ next_auction_id \in Nat \ {0}
      /\ DOMAIN entries = 1..(next_auction_id - 1)
  BY LifetimeAssumption DEF StorageInv, StorageTypeOK
<1>3. PICK n \in Nat \ {0} : n = next_auction_id
  BY <1>2
<1>4. Written \in Nat /\ ttl \in Nat /\ lifetime_ledgers_u64(s) \in Nat
  BY <1>1, <1>2, LifetimeCovers DEF Written
<1>5. PICK u \in Nat : u = extend_ttl(Written, ttl)
  BY <1>2, <1>4, EarliestOfExtension DEF StorageInv
<1>6. PICK v \in Nat : v = extend_ttl(instance, ttl)
  BY <1>2, <1>4, EarliestOfExtension DEF StorageInv
<1>. DEFINE created == [end |-> clock + s, root |-> root, open |-> TRUE,
                        asked |-> lifetime_ledgers_u64(s), until |-> u]
<1>7. /\ ledger' = ledger /\ clock' = clock /\ members' = members
      /\ next_auction_id' = n + 1 /\ instance' = v
      /\ entries' = [i \in DOMAIN entries \cup {n} |-> IF i # n THEN entries[i] ELSE created]
  BY <1>3, <1>5, <1>6 DEF create_auction, NextAuctionId
<1>8. /\ clock + SECONDS_PER_LEDGER * ttl + SECONDS_PER_LEDGER <= Earliest(u)
      /\ clock + SECONDS_PER_LEDGER * ttl + SECONDS_PER_LEDGER <= Earliest(v)
      /\ instance <= v
  BY <1>2, <1>4, <1>5, <1>6, EarliestOfExtension DEF StorageInv
<1>9. /\ Earliest(u) \in Int /\ Earliest(v) \in Int /\ Earliest(instance) \in Int
      /\ Earliest(instance) <= Earliest(v)
  BY <1>2, <1>8, EarliestGrows DEF StorageInv
<1>10. created \in [end : Nat, root : Roots, open : BOOLEAN, asked : Nat, until : Nat]
  BY <1>1, <1>2, <1>4
<1>. HIDE DEF created, ttl
<1>11. DOMAIN entries' = 1..n /\ n \notin DOMAIN entries /\ DOMAIN entries = 1..(n - 1)
  BY <1>2, <1>3, <1>7
<1>12. entries'[n] = created /\ \A i \in DOMAIN entries : entries'[i] = entries[i]
  BY <1>7, <1>11
<1>13. StorageTypeOK'
  <2>1. \A i \in DOMAIN entries' :
           entries'[i] \in [end : Nat, root : Roots, open : BOOLEAN, asked : Nat, until : Nat]
    BY <1>7, <1>10, <1>12 DEF StorageInv, StorageTypeOK
  <2>2. DOMAIN entries' = 1..(next_auction_id' - 1) /\ next_auction_id' \in Nat \ {0}
    BY <1>7, <1>11
  <2>. QED  BY <1>2, <1>7, <2>1, <2>2 DEF StorageInv, StorageTypeOK
<1>14. ASSUME created.asked <= MAX_TTL_EXTENSION_LEDGERS
       PROVE  /\ created.end + SECONDS_PER_LEDGER * LEDGERS_PER_DAY < Earliest(created.until)
              /\ created.end + SECONDS_PER_LEDGER * LEDGERS_PER_DAY < Earliest(v)
  <2>1. /\ created.end = clock + s /\ created.asked = lifetime_ledgers_u64(s)
        /\ created.until = u
    BY DEF created
  <2>2. ttl = lifetime_ledgers_u64(s)
    BY <1>1, <1>14, <2>1, LifetimeCovers DEF ttl
  <2>3. /\ s + SECONDS_PER_LEDGER * LEDGERS_PER_DAY
             < SECONDS_PER_LEDGER * ttl + SECONDS_PER_LEDGER
        /\ SECONDS_PER_LEDGER * LEDGERS_PER_DAY \in Int /\ SECONDS_PER_LEDGER * ttl \in Int
    BY <1>1, <1>4, <2>2, LifetimeCovers, Scaling
  <2>. DEFINE day == SECONDS_PER_LEDGER * LEDGERS_PER_DAY
              span == SECONDS_PER_LEDGER * ttl
  <2>4. /\ day \in Int /\ span \in Int /\ s + day < span + SECONDS_PER_LEDGER
        /\ clock + span + SECONDS_PER_LEDGER <= Earliest(u)
        /\ clock + span + SECONDS_PER_LEDGER <= Earliest(v)
    BY <1>8, <2>3
  <2>. HIDE DEF day, span
  <2>5. clock + s + day < Earliest(u) /\ clock + s + day < Earliest(v)
    BY <1>1, <1>2, <1>9, <2>4
  <2>. QED  BY <2>1, <2>5 DEF day
<1>15. ASSUME NEW id \in DOMAIN entries' PROVE Lasting(id)'
  <2>1. CASE id = n
    <3>1. entries'[id] = created /\ instance' = v /\ clock' = clock /\ ledger' = ledger
      BY <1>7, <1>12, <2>1
    <3>. QED  BY <1>14, <3>1 DEF Lasting, NeededUntil, Earliest
  <2>2. CASE id \in DOMAIN entries
    <3>1. entries'[id] = entries[id] /\ instance' = v /\ clock' = clock /\ ledger' = ledger
      BY <1>7, <1>12, <2>2
    <3>2. Lasting(id)
      BY <2>2 DEF StorageInv
    <3>3. NeededUntil(id) \in Int
      <4>1. entries[id].end \in Nat
        BY <2>2 DEF StorageInv, StorageTypeOK
      <4>2. SECONDS_PER_LEDGER * LEDGERS_PER_DAY \in Int
        BY <1>1, Scaling
      <4>. QED  BY <4>1, <4>2 DEF NeededUntil
    <3>4. entries[id].asked <= MAX_TTL_EXTENSION_LEDGERS => NeededUntil(id) < Earliest(v)
      BY <1>9, <3>2, <3>3 DEF Lasting
    <3>. QED  BY <3>1, <3>2, <3>4 DEF Lasting, NeededUntil, Earliest
  <2>. QED  BY <1>7, <2>1, <2>2
<1>16. \A r \in DOMAIN members' : MembersLast(r)'
  BY <1>7 DEF StorageInv, MembersLast, Earliest
<1>. QED  BY <1>13, <1>15, <1>16 DEF StorageInv

\* Members registered now last for what register asks for.
LEMMA RegisterKeeps ==
    ASSUME StorageInv, NEW root \in Roots, register(root)
    PROVE  StorageInv'
<1>1. /\ SECONDS_PER_LEDGER \in Nat \ {0} /\ TTL_LEDGERS \in Nat /\ MinimumTtl \in Nat
  BY LifetimeAssumption
<1>2. /\ ledger \in Nat /\ clock \in Nat
  BY DEF StorageInv, StorageTypeOK
<1>3. Written \in Nat
  BY <1>1, <1>2 DEF Written
<1>4. PICK u \in Nat : /\ u = MembersUntil
                       /\ clock + SECONDS_PER_LEDGER * TTL_LEDGERS + SECONDS_PER_LEDGER
                             <= Earliest(u)
  BY <1>1, <1>3, EarliestOfExtension DEF MembersUntil, StorageInv
<1>5. /\ UNCHANGED <<ledger, clock, instance, next_auction_id, entries>>
      /\ root \notin DOMAIN members
      /\ members' = [r \in DOMAIN members \cup {root} |->
                        IF r = root THEN [at |-> clock, until |-> u] ELSE members[r]]
  BY <1>4 DEF register
<1>6. StorageTypeOK'
  BY <1>2, <1>4, <1>5 DEF StorageInv, StorageTypeOK
<1>7. \A id \in DOMAIN entries' : Lasting(id)'
  BY <1>5 DEF StorageInv, Lasting, NeededUntil, Earliest
<1>8. clock + SECONDS_PER_LEDGER * TTL_LEDGERS < Earliest(u)
  <2>1. SECONDS_PER_LEDGER * TTL_LEDGERS \in Int /\ Earliest(u) \in Int
    BY <1>1, <1>4, Scaling, EarliestGrows DEF StorageInv
  <2>. DEFINE m == SECONDS_PER_LEDGER * TTL_LEDGERS
  <2>2. m \in Int /\ clock + m + SECONDS_PER_LEDGER <= Earliest(u)
    BY <1>4, <2>1
  <2>. HIDE DEF m
  <2>3. clock + m < Earliest(u)
    BY <1>1, <1>2, <2>1, <2>2
  <2>. QED  BY <2>3 DEF m
<1>9. ASSUME NEW r \in DOMAIN members' PROVE MembersLast(r)'
  <2>1. CASE r = root
    <3>1. members'[r].at = clock /\ members'[r].until = u /\ clock' = clock /\ ledger' = ledger
      BY <1>5, <2>1
    <3>. QED  BY <1>8, <3>1 DEF MembersLast, Earliest
  <2>2. CASE r # root
    <3>1. /\ r \in DOMAIN members /\ members'[r] = members[r]
          /\ clock' = clock /\ ledger' = ledger
      BY <1>5, <2>2
    <3>. QED  BY <3>1 DEF StorageInv, MembersLast, Earliest
  <2>. QED  BY <2>1, <2>2
<1>. QED  BY <1>6, <1>7, <1>9 DEF StorageInv

\* A ledger that takes its time brings no entry closer to its archival.
LEMMA LedgerKeeps ==
    ASSUME StorageInv, CloseLedger
    PROVE  StorageInv'
<1>1. /\ SECONDS_PER_LEDGER \in Nat /\ MaxLedger \in Nat
  BY LifetimeAssumption
<1>2. ledger \in Nat /\ clock \in Nat /\ ledger \in 0..MaxLedger
  BY <1>1 DEF StorageInv, StorageTypeOK
<1>3. PICK g \in Gaps : clock' = clock + g
  BY DEF CloseLedger
<1>4. g \in Nat /\ g >= SECONDS_PER_LEDGER
  BY CadenceAssumption
<1>5. /\ ledger' = ledger + 1 /\ ledger' \in 0..MaxLedger
      /\ UNCHANGED <<instance, next_auction_id, entries, members>>
  BY <1>1, <1>2 DEF CloseLedger
<1>6. StorageTypeOK'
  BY <1>2, <1>3, <1>4, <1>5 DEF StorageInv, StorageTypeOK
<1>7. ASSUME NEW u \in Nat
      PROVE  /\ Earliest(u) \in Int
             /\ clock' + SECONDS_PER_LEDGER * (u + 1 - ledger') \in Int
             /\ Earliest(u) <= clock' + SECONDS_PER_LEDGER * (u + 1 - ledger')
  <2>. DEFINE k == u + 1 - ledger'
  <2>1. k \in Int /\ u + 1 - ledger = k + 1
    BY <1>2, <1>5
  <2>. DEFINE m == SECONDS_PER_LEDGER * k
  <2>2. m \in Int /\ SECONDS_PER_LEDGER * (k + 1) = m + SECONDS_PER_LEDGER
    BY <1>1, <2>1, Scaling
  <2>3. Earliest(u) = clock + (m + SECONDS_PER_LEDGER)
    BY <2>1, <2>2 DEF Earliest
  <2>. HIDE DEF m, k
  <2>4. /\ clock + (m + SECONDS_PER_LEDGER) \in Int /\ clock' + m \in Int
        /\ clock + (m + SECONDS_PER_LEDGER) <= clock' + m
    BY <1>1, <1>2, <1>3, <1>4, <2>2
  <2>. QED  BY <2>3, <2>4 DEF m, k
<1>8. ASSUME NEW id \in DOMAIN entries' PROVE Lasting(id)'
  <2>1. /\ id \in DOMAIN entries /\ entries'[id] = entries[id] /\ instance' = instance
        /\ entries[id].until \in Nat /\ entries[id].end \in Nat /\ instance \in Nat
    BY <1>5 DEF StorageInv, StorageTypeOK
  <2>2. Lasting(id)
    BY <2>1 DEF StorageInv
  <2>3. NeededUntil(id) \in Int
    <3>1. SECONDS_PER_LEDGER * LEDGERS_PER_DAY \in Int
      BY <1>1, LifetimeAssumption, Scaling
    <3>. QED  BY <2>1, <3>1 DEF NeededUntil
  <2>4. entries[id].asked <= MAX_TTL_EXTENSION_LEDGERS =>
          /\ NeededUntil(id) < clock' + SECONDS_PER_LEDGER * (entries[id].until + 1 - ledger')
          /\ NeededUntil(id) < clock' + SECONDS_PER_LEDGER * (instance + 1 - ledger')
    <3>1. SUFFICES ASSUME entries[id].asked <= MAX_TTL_EXTENSION_LEDGERS
                   PROVE  /\ NeededUntil(id) < clock' + SECONDS_PER_LEDGER * (entries[id].until + 1 - ledger')
                          /\ NeededUntil(id) < clock' + SECONDS_PER_LEDGER * (instance + 1 - ledger')
      OBVIOUS
    <3>2. NeededUntil(id) < Earliest(entries[id].until) /\ NeededUntil(id) < Earliest(instance)
      BY <2>2, <3>1 DEF Lasting
    <3>3. NeededUntil(id) < clock' + SECONDS_PER_LEDGER * (entries[id].until + 1 - ledger')
      <4>. DEFINE e == Earliest(entries[id].until)
                  f == clock' + SECONDS_PER_LEDGER * (entries[id].until + 1 - ledger')
      <4>1. e \in Int /\ f \in Int /\ e <= f /\ NeededUntil(id) < e
        BY <1>7, <2>1, <3>2
      <4>. HIDE DEF e, f
      <4>2. NeededUntil(id) < f
        BY <2>3, <4>1
      <4>. QED  BY <4>2 DEF f
    <3>4. NeededUntil(id) < clock' + SECONDS_PER_LEDGER * (instance + 1 - ledger')
      <4>. DEFINE e == Earliest(instance)
                  f == clock' + SECONDS_PER_LEDGER * (instance + 1 - ledger')
      <4>1. e \in Int /\ f \in Int /\ e <= f /\ NeededUntil(id) < e
        BY <1>7, <2>1, <3>2
      <4>. HIDE DEF e, f
      <4>2. NeededUntil(id) < f
        BY <2>3, <4>1
      <4>. QED  BY <4>2 DEF f
    <3>. QED  BY <3>3, <3>4
  <2>. QED  BY <2>1, <2>4 DEF Lasting, NeededUntil, Earliest
<1>9. ASSUME NEW r \in DOMAIN members' PROVE MembersLast(r)'
  <2>1. /\ r \in DOMAIN members /\ members'[r] = members[r]
        /\ members[r].until \in Nat /\ members[r].at \in Nat
    BY <1>5 DEF StorageInv, StorageTypeOK
  <2>2. MembersLast(r)
    BY <2>1 DEF StorageInv
  <2>. DEFINE e == Earliest(members[r].until)
              f == clock' + SECONDS_PER_LEDGER * (members[r].until + 1 - ledger')
              b == members[r].at + SECONDS_PER_LEDGER * TTL_LEDGERS
  <2>3. SECONDS_PER_LEDGER * TTL_LEDGERS \in Int
    BY <1>1, LifetimeAssumption, Scaling
  <2>4. e \in Int /\ f \in Int /\ e <= f /\ b \in Int /\ b < e
    BY <1>7, <2>1, <2>2, <2>3 DEF MembersLast
  <2>. HIDE DEF e, f, b
  <2>5. b < f
    BY <2>4
  <2>. QED  BY <2>1, <2>5 DEF b, f, MembersLast, Earliest
<1>. QED  BY <1>6, <1>8, <1>9 DEF StorageInv

\* The invariant is inductive.
LEMMA StorageStep == StorageInv /\ [StorageNext]_storageVars => StorageInv'
<1>. SUFFICES ASSUME StorageInv, [StorageNext]_storageVars PROVE StorageInv'  OBVIOUS
<1>1. CASE \E seconds \in Lifetimes, root \in Roots : create_auction(seconds, root)
  BY <1>1, CreateKeeps
<1>2. CASE \E id \in DOMAIN entries : Close(id)
  <2>1. PICK id \in DOMAIN entries : Close(id)
    BY <1>2
  <2>2. /\ UNCHANGED <<ledger, clock, instance, next_auction_id, members>>
        /\ entries' = [entries EXCEPT ![id].open = FALSE]
    BY <2>1 DEF Close
  <2>3. /\ DOMAIN entries' = DOMAIN entries
        /\ \A i \in DOMAIN entries : i # id => entries'[i] = entries[i]
        /\ entries'[id] = [entries[id] EXCEPT !.open = FALSE]
    BY <2>2
  <2>4. StorageTypeOK'
    <3>1. \A i \in DOMAIN entries :
            entries'[i] \in [end : Nat, root : Roots, open : BOOLEAN, asked : Nat, until : Nat]
      <4>. DEFINE R == [end : Nat, root : Roots, open : BOOLEAN, asked : Nat, until : Nat]
      <4>1. \A i \in DOMAIN entries : entries[i] \in R
        BY DEF StorageInv, StorageTypeOK
      <4>2. \A x \in R : [x EXCEPT !.open = FALSE] \in R
        OBVIOUS
      <4>. HIDE DEF R
      <4>3. entries'[id] \in R
        BY <2>3, <4>1, <4>2
      <4>4. \A i \in DOMAIN entries : entries'[i] \in R
        BY <2>3, <4>1, <4>3
      <4>. QED  BY <4>4 DEF R
    <3>. QED  BY <2>2, <2>3, <3>1 DEF StorageInv, StorageTypeOK
  <2>5. \A i \in DOMAIN entries :
           /\ entries'[i].end = entries[i].end /\ entries'[i].asked = entries[i].asked
           /\ entries'[i].until = entries[i].until
    BY <2>3 DEF StorageInv, StorageTypeOK
  <2>6. \A i \in DOMAIN entries' : Lasting(i)'
    BY <2>2, <2>3, <2>5 DEF StorageInv, Lasting, NeededUntil, Earliest
  <2>7. \A r \in DOMAIN members' : MembersLast(r)'
    BY <2>2 DEF StorageInv, MembersLast, Earliest
  <2>. QED  BY <2>4, <2>6, <2>7 DEF StorageInv
<1>3. CASE \E root \in Roots : register(root)
  BY <1>3, RegisterKeeps
<1>4. CASE CloseLedger
  BY <1>4, LedgerKeeps
<1>5. CASE UNCHANGED storageVars
  <2>1. StorageTypeOK'
    BY <1>5 DEF storageVars, StorageInv, StorageTypeOK
  <2>2. (\A i \in DOMAIN entries' : Lasting(i)') /\ (\A r \in DOMAIN members' : MembersLast(r)')
    BY <1>5 DEF storageVars, StorageInv, Lasting, NeededUntil, MembersLast, Earliest
  <2>. QED  BY <2>1, <2>2 DEF StorageInv
<1>. QED  BY <1>1, <1>2, <1>3, <1>4, <1>5 DEF StorageNext

\* Type correctness of what is stored: entries, members and their lifetimes.
THEOREM StorageTypeCorrect == StorageSpec => []StorageTypeOK
<1>1. StorageInv => StorageTypeOK
  BY DEF StorageInv
<1>. QED  BY <1>1, StorageInitial, StorageStep, PTL DEF StorageSpec

\* No auction whose term fits the clamp is cut off by archival before its deadline,
\* its grace period and a day have passed, at any cadence the network has.
THEOREM OrdinaryAuctionsStayReadable == StorageSpec => []ArchivalBlocksNoOrdinaryAuction
<1>1. ASSUME StorageInv PROVE ArchivalBlocksNoOrdinaryAuction
  <2>. SUFFICES ASSUME NEW id \in DOMAIN entries,
                       entries[id].asked <= MAX_TTL_EXTENSION_LEDGERS,
                       clock <= NeededUntil(id)
                PROVE  Readable(id)
    BY DEF ArchivalBlocksNoOrdinaryAuction
  <2>1. /\ entries[id].until \in Nat /\ instance \in Nat /\ clock \in Nat
        /\ entries[id].end \in Nat
    BY <1>1 DEF StorageInv, StorageTypeOK
  <2>2. NeededUntil(id) < Earliest(entries[id].until) /\ NeededUntil(id) < Earliest(instance)
    BY <1>1 DEF StorageInv, Lasting
  <2>3. Earliest(entries[id].until) \in Int /\ Earliest(instance) \in Int
    BY <1>1, <2>1, EarliestGrows DEF StorageInv
  <2>4. SECONDS_PER_LEDGER * LEDGERS_PER_DAY \in Int
    BY LifetimeAssumption, Scaling
  <2>5. NeededUntil(id) \in Int
    BY <2>1, <2>4 DEF NeededUntil
  <2>6. clock < Earliest(entries[id].until) /\ clock < Earliest(instance)
    BY <2>1, <2>2, <2>3, <2>5
  <2>. QED  BY <1>1, <2>1, <2>6, AliveBefore DEF Readable, StorageInv
<1>. QED  BY <1>1, StorageInitial, StorageStep, PTL DEF StorageSpec

\* The members behind an auction's root can be read at its settlement when it ends
\* within the lifetime register asked for.
THEOREM MembersStayReadable == StorageSpec => []MembersReadableAtSettle
<1>1. ASSUME StorageInv PROVE MembersReadableAtSettle
  <2>. SUFFICES ASSUME NEW id \in DOMAIN entries,
                       entries[id].root \in DOMAIN members,
                       entries[id].end <= members[entries[id].root].at
                                             + SECONDS_PER_LEDGER * TTL_LEDGERS,
                       clock <= entries[id].end
                PROVE  alive(members[entries[id].root].until)
    BY DEF MembersReadableAtSettle
  <2>0. PICK r \in DOMAIN members : r = entries[id].root
    OBVIOUS
  <2>1. /\ members[r].until \in Nat /\ members[r].at \in Nat /\ clock \in Nat
        /\ entries[id].end \in Nat
    BY <1>1 DEF StorageInv, StorageTypeOK
  <2>2. /\ Earliest(members[r].until) \in Int
        /\ SECONDS_PER_LEDGER * TTL_LEDGERS \in Int
    BY <1>1, <2>1, LifetimeAssumption, EarliestGrows, Scaling DEF StorageInv
  <2>. DEFINE m == SECONDS_PER_LEDGER * TTL_LEDGERS
  <2>3. m \in Int /\ entries[id].end <= members[r].at + m
        /\ members[r].at + m < Earliest(members[r].until)
    BY <1>1, <2>0, <2>2 DEF StorageInv, MembersLast
  <2>. HIDE DEF m
  <2>4. clock < Earliest(members[r].until)
    BY <2>1, <2>2, <2>3
  <2>. QED  BY <1>1, <2>0, <2>1, <2>4, AliveBefore DEF StorageInv
<1>. QED  BY <1>1, StorageInitial, StorageStep, PTL DEF StorageSpec

\* Nothing needed is archived early: the entries, the instance and the members.
THEOREM NothingIsArchivedEarly == StorageSpec => []NothingNeededIsArchived
<1>1. ArchivalBlocksNoOrdinaryAuction /\ MembersReadableAtSettle => NothingNeededIsArchived
  BY DEF NothingNeededIsArchived
<1>. QED  BY <1>1, OrdinaryAuctionsStayReadable, MembersStayReadable, PTL

-----------------------------------------------------------------------------
(* The token bucket.                                                       *)

\* The types, with the bound of the credit stated for each bucket.
Typed ==
    /\ nowMs \in Nat
    /\ known \subseteq Clients
    /\ buckets \in [Clients -> [credit : Int, last : Nat]]
    /\ window \in [Clients -> [first : Nat, peak : Nat, spent : Nat]]
    /\ refused \in [Clients -> Nat \cup {Never}]

\* What a stretch has spent and what the bucket still holds were both earned: a
\* full bucket, and the time from the first request to the last refill.
Earned(c) ==
    /\ buckets[c].credit <= Capacity
    /\ window[c].first <= window[c].peak
    /\ window[c].spent <= Capacity + (window[c].peak - window[c].first)
    /\ c \in known =>
          /\ buckets[c].last <= window[c].peak
          /\ window[c].spent + buckets[c].credit
                <= Capacity + (buckets[c].last - window[c].first)

\* While the clock is never set back, a bucket is never overdrawn and a refusal
\* is the last refill.
Monotone(c) ==
    StepBack = 0 =>
        /\ buckets[c].credit >= 0
        /\ c \in known => buckets[c].last <= nowMs
        /\ refused[c] # Never => c \in known /\ buckets[c].last = refused[c]

BucketInv == Typed /\ \A c \in Clients : Earned(c) /\ Monotone(c)

\* What a request finds in the bucket is at most a full one, and at most what was
\* there and the time since.
LEMMA RefilledBounds ==
    ASSUME BucketInv, NEW c \in Clients
    PROVE  /\ Refilled(c) \in Int
           /\ Refilled(c) <= Capacity
           /\ c \in known => Refilled(c) <= buckets[c].credit + (nowMs - buckets[c].last)
           /\ StepBack = 0 => Refilled(c) >= 0
           /\ StepBack = 0 /\ c \in known =>
                 \/ Refilled(c) = Capacity
                 \/ Refilled(c) = buckets[c].credit + (nowMs - buckets[c].last)
<1>1. /\ Capacity \in Nat /\ nowMs \in Nat
      /\ buckets[c] \in [credit : Int, last : Nat]
  BY BucketAssumption DEF BucketInv, Typed
<1>2. CASE c \in known
  <2>1. BucketOf(c) = buckets[c]
    BY <1>2 DEF BucketOf
  <2>2. Refilled(c) = Smaller(Capacity, buckets[c].credit + (nowMs - buckets[c].last))
    BY <2>1 DEF Refilled
  <2>3. Monotone(c)
    BY DEF BucketInv
  <2>. QED  BY <1>1, <1>2, <2>2, <2>3 DEF Smaller, Monotone
<1>3. CASE c \notin known
  <2>1. BucketOf(c) = [credit |-> Capacity, last |-> nowMs]
    BY <1>3 DEF BucketOf
  <2>2. Refilled(c) = Smaller(Capacity, Capacity + (nowMs - nowMs))
    BY <2>1 DEF Refilled
  <2>. QED  BY <1>1, <1>3, <2>2 DEF Smaller
<1>. QED  BY <1>2, <1>3

\* One request leaves its own client's promises standing, admitted or refused, in
\* a stretch it begins or continues.
LEMMA RequestKeepsEarned ==
    ASSUME BucketInv, NEW c \in Clients, takeToken(c)
    PROVE  Earned(c)' /\ Monotone(c)' /\ Typed'
<1>. DEFINE r == Refilled(c)
<1>1. /\ Capacity \in Nat /\ Cost \in Nat /\ Cost > 0 /\ Cost <= Capacity
      /\ StepBack \in Nat /\ MaxClock \in Nat
  BY BucketAssumption
<1>2. Typed /\ Earned(c) /\ Monotone(c)
  BY DEF BucketInv
<1>3. /\ nowMs \in Nat /\ window[c] \in [first : Nat, peak : Nat, spent : Nat]
      /\ buckets[c] \in [credit : Int, last : Nat]
  BY <1>2 DEF Typed
<1>4. /\ r \in Int /\ r <= Capacity
      /\ c \in known => r <= buckets[c].credit + (nowMs - buckets[c].last)
      /\ StepBack = 0 => r >= 0
  BY RefilledBounds
<1>5. known' = known \cup {c} /\ nowMs' = nowMs
  BY DEF takeToken
<1>6. PICK fresh \in {c \notin known, TRUE} :
        IF Admits(c)
        THEN /\ buckets' = [buckets EXCEPT ![c] = [credit |-> r - Cost, last |-> nowMs]]
             /\ window' = [window EXCEPT ![c] = Observed(c, fresh, Cost)]
             /\ refused' = [refused EXCEPT ![c] = Never]
        ELSE /\ buckets' = [buckets EXCEPT ![c] = [credit |-> r, last |-> nowMs]]
             /\ window' = [window EXCEPT ![c] = Observed(c, fresh, 0)]
             /\ refused' = [refused EXCEPT ![c] = nowMs]
  BY DEF takeToken
<1>7. ~fresh => c \in known
  BY <1>6
<1>8. Admits(c) <=> r >= Cost
  BY DEF Admits
<1>. DEFINE w(spent) == Observed(c, fresh, spent)
<1>9. ASSUME NEW spent \in Nat
      PROVE  /\ w(spent) \in [first : Nat, peak : Nat, spent : Nat]
             /\ fresh => w(spent) = [first |-> nowMs, peak |-> nowMs, spent |-> spent]
             /\ ~fresh => /\ w(spent).first = window[c].first
                          /\ w(spent).spent = window[c].spent + spent
                          /\ w(spent).peak = Larger(window[c].peak, nowMs)
  BY <1>3, <1>6 DEF Observed, Larger
<1>10. ASSUME NEW spent \in {0, Cost}, spent = Cost => r >= Cost,
              buckets'[c] = [credit |-> r - spent, last |-> nowMs],
              window'[c] = w(spent)
       PROVE  Earned(c)'
  <2>1. spent \in Nat
    BY <1>1, <1>10
  <2>2. CASE fresh
    <3>1. window'[c] = [first |-> nowMs, peak |-> nowMs, spent |-> spent]
      BY <1>9, <1>10, <2>1, <2>2
    <3>. QED  BY <1>1, <1>3, <1>4, <1>10, <2>1, <3>1 DEF Earned
  <2>3. CASE ~fresh
    <3>1. /\ window'[c].first = window[c].first
          /\ window'[c].spent = window[c].spent + spent
          /\ window'[c].peak = Larger(window[c].peak, nowMs)
      BY <1>9, <1>10, <2>1, <2>3
    <3>2. c \in known
      BY <1>7, <2>3
    <3>3. /\ window'[c].peak >= window[c].peak /\ window'[c].peak >= nowMs
          /\ window'[c].peak \in Nat
      BY <1>3, <3>1 DEF Larger
    <3>4. buckets'[c].credit = r - spent /\ buckets'[c].last = nowMs
      BY <1>10
    <3>5. window[c].spent + r <= Capacity + (nowMs - window[c].first)
      BY <1>1, <1>2, <1>3, <1>4, <3>2 DEF Earned
    <3>6. window'[c].spent <= Capacity + (window'[c].peak - window'[c].first)
      <4>1. CASE spent = 0
        BY <1>1, <1>2, <1>3, <3>1, <3>3, <4>1 DEF Earned
      <4>2. CASE spent = Cost
        BY <1>1, <1>3, <1>4, <1>10, <3>1, <3>3, <3>5, <4>2
      <4>. QED  BY <1>10, <4>1, <4>2
    <3>7. window'[c].first <= window'[c].peak
      BY <1>2, <1>3, <3>1, <3>3 DEF Earned
    <3>8. buckets'[c].credit <= Capacity
      BY <1>1, <1>4, <1>10, <2>1, <3>4
    <3>9. window'[c].spent + buckets'[c].credit
             <= Capacity + (buckets'[c].last - window'[c].first)
      BY <1>1, <1>3, <1>4, <2>1, <3>1, <3>4, <3>5
    <3>. QED  BY <3>3, <3>4, <3>6, <3>7, <3>8, <3>9 DEF Earned
  <2>. QED  BY <2>2, <2>3
<1>11. CASE Admits(c)
  <2>1. buckets'[c] = [credit |-> r - Cost, last |-> nowMs] /\ window'[c] = w(Cost)
    BY <1>2, <1>6, <1>11 DEF Typed
  <2>2. Earned(c)'
    BY <1>8, <1>10, <1>11, <2>1
  <2>3. refused'[c] = Never
    BY <1>2, <1>6, <1>11 DEF Typed
  <2>4. Never' = Never
    BY DEF Never
  <2>5. Monotone(c)'
    BY <1>1, <1>3, <1>4, <1>5, <1>8, <1>11, <2>1, <2>3, <2>4 DEF Monotone
  <2>6. Typed'
    <3>1. buckets' = [buckets EXCEPT ![c] = [credit |-> r - Cost, last |-> nowMs]]
      BY <1>6, <1>11
    <3>2. buckets' \in [Clients -> [credit : Int, last : Nat]]
      BY <1>1, <1>2, <1>3, <1>4, <3>1 DEF Typed
    <3>3. window' = [window EXCEPT ![c] = w(Cost)]
      BY <1>6, <1>11
    <3>4. window' \in [Clients -> [first : Nat, peak : Nat, spent : Nat]]
      BY <1>1, <1>2, <1>9, <3>3 DEF Typed
    <3>5. refused' = [refused EXCEPT ![c] = Never]
      BY <1>6, <1>11
    <3>6. refused' \in [Clients -> Nat \cup {Never}]
      BY <1>2, <1>3, <3>5 DEF Typed
    <3>7. nowMs' \in Nat /\ known' \subseteq Clients
      BY <1>2, <1>5 DEF Typed
    <3>8. Never' = Never
      BY DEF Never
    <3>. QED  BY <3>2, <3>4, <3>6, <3>7, <3>8 DEF Typed
  <2>. QED  BY <2>2, <2>5, <2>6
<1>12. CASE ~Admits(c)
  <2>1. buckets'[c] = [credit |-> r - 0, last |-> nowMs] /\ window'[c] = w(0)
    BY <1>2, <1>4, <1>6, <1>12 DEF Typed
  <2>2. Earned(c)'
    BY <1>1, <1>10, <2>1
  <2>3. refused'[c] = nowMs
    BY <1>2, <1>6, <1>12 DEF Typed
  <2>5. Monotone(c)'
    BY <1>1, <1>3, <1>4, <1>5, <2>1, <2>3 DEF Monotone
  <2>6. Typed'
    <3>1. buckets' = [buckets EXCEPT ![c] = [credit |-> r, last |-> nowMs]]
      BY <1>6, <1>12
    <3>2. buckets' \in [Clients -> [credit : Int, last : Nat]]
      BY <1>1, <1>2, <1>3, <1>4, <3>1 DEF Typed
    <3>3. window' = [window EXCEPT ![c] = w(0)]
      BY <1>6, <1>12
    <3>4. window' \in [Clients -> [first : Nat, peak : Nat, spent : Nat]]
      BY <1>1, <1>2, <1>9, <3>3 DEF Typed
    <3>5. refused' = [refused EXCEPT ![c] = nowMs]
      BY <1>6, <1>12
    <3>6. refused' \in [Clients -> Nat \cup {Never}]
      BY <1>2, <1>3, <3>5 DEF Typed
    <3>7. nowMs' \in Nat /\ known' \subseteq Clients
      BY <1>2, <1>5 DEF Typed
    <3>8. Never' = Never
      BY DEF Never
    <3>. QED  BY <3>2, <3>4, <3>6, <3>7, <3>8 DEF Typed
  <2>. QED  BY <2>2, <2>5, <2>6
<1>. QED  BY <1>11, <1>12

\* Every bucket starts full.
LEMMA BucketInitial == BucketInit => BucketInv
<1>. SUFFICES ASSUME BucketInit PROVE BucketInv  OBVIOUS
<1>1. Capacity \in Nat /\ StepBack \in Nat /\ MaxClock \in Nat
  BY BucketAssumption
<1>2. Typed
  BY <1>1 DEF BucketInit, Typed
<1>3. ASSUME NEW c \in Clients PROVE Earned(c) /\ Monotone(c)
  BY <1>1 DEF BucketInit, Earned, Monotone
<1>. QED  BY <1>2, <1>3 DEF BucketInv

\* No step overdraws what was earned.
LEMMA BucketStep == BucketInv /\ [BucketNext]_bucketVars => BucketInv'
<1>. SUFFICES ASSUME BucketInv, [BucketNext]_bucketVars PROVE BucketInv'  OBVIOUS
<1>0. Never' = Never
  BY DEF Never
<1>1. ASSUME UNCHANGED <<known, buckets, window, refused>>, nowMs' \in Nat,
             StepBack = 0 => nowMs' >= nowMs
      PROVE  BucketInv'
  <2>1. Typed'
    BY <1>0, <1>1 DEF BucketInv, Typed
  <2>2. ASSUME NEW c \in Clients PROVE Earned(c)' /\ Monotone(c)'
    <3>1. Earned(c) /\ Monotone(c)
      BY DEF BucketInv
    <3>2. Earned(c)'
      BY <1>1, <3>1 DEF Earned
    <3>3. nowMs \in Nat /\ buckets[c] \in [credit : Int, last : Nat]
      BY DEF BucketInv, Typed
    <3>4. Monotone(c)'
      BY <1>0, <1>1, <3>1, <3>3 DEF Monotone
    <3>. QED  BY <3>2, <3>4
  <2>. QED  BY <2>1, <2>2 DEF BucketInv
<1>2. CASE ClockTicks
  BY <1>1, <1>2 DEF ClockTicks, BucketInv, Typed
<1>3. CASE SetBack
  BY <1>1, <1>3, BucketAssumption DEF SetBack, BucketInv, Typed
<1>4. CASE \E c \in Clients : takeToken(c)
  <2>1. PICK c \in Clients : takeToken(c)
    BY <1>4
  <2>2. Earned(c)' /\ Monotone(c)' /\ Typed'
    BY <2>1, RequestKeepsEarned
  <2>3. ASSUME NEW d \in Clients, d # c PROVE Earned(d)' /\ Monotone(d)'
    <3>1. /\ buckets'[d] = buckets[d] /\ window'[d] = window[d] /\ refused'[d] = refused[d]
          /\ (d \in known' <=> d \in known) /\ nowMs' = nowMs
      BY <2>1, <2>3 DEF takeToken, BucketInv, Typed
    <3>2. Earned(d) /\ Monotone(d)
      BY DEF BucketInv
    <3>. QED  BY <1>0, <3>1, <3>2 DEF Earned, Monotone
  <2>. QED  BY <2>2, <2>3 DEF BucketInv
<1>5. CASE UNCHANGED bucketVars
  BY <1>1, <1>5 DEF bucketVars, BucketInv, Typed
<1>. QED  BY <1>2, <1>3, <1>4, <1>5 DEF BucketNext

\* The variables have their types, for all constants.
THEOREM BucketTypeCorrect == BucketSpec => []BucketTypeOK
<1>1. BucketInv => BucketTypeOK
  BY DEF BucketInv, Typed, Earned, BucketTypeOK
<1>. QED  BY <1>1, BucketInitial, BucketStep, PTL DEF BucketSpec

\* No stretch of a client's requests gets through more than a full bucket and the
\* time that passed in it, for every capacity and whatever the clock does.
THEOREM RateIsBounded == BucketSpec => []BoundedRate
<1>1. BucketInv => BoundedRate
  BY DEF BucketInv, Earned, BoundedRate
<1>. QED  BY <1>1, BucketInitial, BucketStep, PTL DEF BucketSpec

\* While the clock is never set back, the Retry-After of a refusal is long enough.
THEOREM RetryAfterIsEnough == BucketSpec => []WaitingIsEnough
<1>1. ASSUME BucketInv PROVE WaitingIsEnough
  <2>. SUFFICES ASSUME StepBack = 0, NEW c \in Clients, refused[c] # Never,
                       nowMs >= refused[c] + RetryAfter
                PROVE  Admits(c)
    BY DEF WaitingIsEnough
  <2>1. c \in known /\ buckets[c].last = refused[c] /\ buckets[c].credit >= 0
    BY <1>1 DEF BucketInv, Monotone
  <2>2. \/ Refilled(c) = Capacity
        \/ Refilled(c) = buckets[c].credit + (nowMs - buckets[c].last)
    BY <1>1, <2>1, RefilledBounds
  <2>3. nowMs \in Nat /\ buckets[c].credit \in Int /\ buckets[c].last \in Nat
    BY <1>1 DEF BucketInv, Typed
  <2>. QED  BY <2>1, <2>2, <2>3, BucketAssumption DEF Admits
<1>. QED  BY <1>1, BucketInitial, BucketStep, PTL DEF BucketSpec

-----------------------------------------------------------------------------
(* The faucet.                                                             *)

StepNames == {"idle", "looking", "signing", "asking", "minted", "done", "unheard",
              "rate_limited", "error", "tUSDC", "tBENJI"}
Presses ==
    [address : Wallets \cup {Nobody}, instance : Instances \cup {Nobody}, step : StepNames,
     arrived : Int, answered : Int]

\* The steps behind the trustlines, behind the cooldown, and behind both mints.
Minted == {"minted", "done", "unheard"}
Admitted == {"tUSDC", "tBENJI"} \cup Minted
Trusting == {"asking"} \cup Admitted

FaucetTypes ==
    /\ dateNow \in 0..LastMs
    /\ press \in [Runs -> Presses]
    /\ trust \in [Wallets -> SUBSET Tokens]
    /\ trusting \subseteq Runs
    /\ mint \in [Runs -> [Tokens -> {"no", "sent", "landed"}]]
    /\ DOMAIN lastGrantMsByAddress = Instances
    /\ \A i \in Instances : DOMAIN lastGrantMsByAddress[i] \subseteq Wallets

\* What a press has behind it at each of its steps.
Behind(r) ==
    /\ press[r].arrived <= press[r].answered /\ press[r].answered <= dateNow
    /\ press[r].step # "idle" => press[r].address \in Wallets
    /\ press[r].step \in Admitted => press[r].instance \in Instances
    /\ press[r].step \in Trusting => trust[press[r].address] = Tokens
    /\ press[r].step \in {"tBENJI"} \cup Minted => mint[r]["tUSDC"] = "landed"
    /\ press[r].step \in Minted => mint[r]["tBENJI"] = "landed"

PressInv ==
    /\ \A r \in Runs : Behind(r)
    /\ \A r \in trusting : press[r].step # "idle"

\* Every grant a process remembers was given, at the time it remembers.
MemoryIsTrue ==
    \A i \in Instances : \A a \in DOMAIN lastGrantMsByAddress[i] :
        \E q \in Runs : /\ Given(q) /\ press[q].address = a /\ press[q].instance = i
                        /\ press[q].answered = lastGrantMsByAddress[i][a]

\* A process that keeps its memory remembers every grant, or a later one.
MemoryIsWhole ==
    \A q \in Runs : Given(q) /\ press[q].instance \notin Serverless =>
        /\ Granted(press[q].instance, press[q].address)
        /\ press[q].answered <= lastGrantMsByAddress[press[q].instance][press[q].address]

\* As GrantsInTurnAreSpaced, from the moment a press is let in.
AdmittedInTurnAreSpaced ==
    \A q, r \in Runs :
        /\ Given(q) /\ press[r].step \in Admitted /\ SameWallet(q, r)
        /\ press[r].instance \notin Serverless
        /\ press[q].answered < press[r].arrived
        => press[q].answered + COOLDOWN_MS <= press[r].arrived

FaucetInv ==
    /\ FaucetTypes /\ PressInv
    /\ MemoryIsTrue /\ MemoryIsWhole /\ RefusedOnlyAfterAGrant /\ AdmittedInTurnAreSpaced

\* A press that has been given its tokens is over.
GivenStays == \A q \in Runs : Given(q) => press'[q] = press[q]

-----------------------------------------------------------------------------
LEMMA FaucetInitial == FaucetInit => FaucetInv
  BY FaucetAssumption
     DEF FaucetInit, FaucetInv, FaucetTypes, PressInv, Behind, MemoryIsTrue, MemoryIsWhole,
         RefusedOnlyAfterAGrant, AdmittedInTurnAreSpaced, Presses, StepNames, Given, At, Admitted,
         Trusting, Minted, Tokens

\* One press takes a step of its own: what its record becomes.
LEMMA StepFacts ==
    ASSUME FaucetTypes, NEW r \in Runs, NEW s, Step(r, s)
    PROVE  /\ DOMAIN press' = Runs
           /\ press'[r] = [press[r] EXCEPT !.step = s]
           /\ press'[r].step = s /\ press'[r].address = press[r].address
           /\ press'[r].instance = press[r].instance /\ press'[r].arrived = press[r].arrived
           /\ press'[r].answered = press[r].answered
           /\ \A q \in Runs \ {r} : press'[q] = press[q]
  BY DEF Step, FaucetTypes, Presses

LEMMA RespondFacts ==
    ASSUME FaucetTypes, NEW r \in Runs, NEW s, Respond(r, s)
    PROVE  /\ DOMAIN press' = Runs
           /\ press'[r] = [press[r] EXCEPT !.step = s, !.answered = dateNow]
           /\ press'[r].step = s /\ press'[r].address = press[r].address
           /\ press'[r].instance = press[r].instance /\ press'[r].arrived = press[r].arrived
           /\ press'[r].answered = dateNow
           /\ \A q \in Runs \ {r} : press'[q] = press[q]
  BY DEF Respond, FaucetTypes, Presses

LEMMA StepTypes ==
    ASSUME FaucetTypes, NEW r \in Runs, NEW s \in StepNames, Step(r, s) \/ Respond(r, s)
    PROVE  press' \in [Runs -> Presses]
<1>1. CASE Step(r, s)
  <2>1. [press[r] EXCEPT !.step = s] \in Presses
    BY DEF FaucetTypes, Presses
  <2>. QED  BY <1>1, <2>1 DEF FaucetTypes, Step
<1>2. CASE Respond(r, s)
  <2>0. dateNow \in Int /\ press[r] \in Presses
    BY FaucetAssumption DEF FaucetTypes
  <2>1. [press[r] EXCEPT !.step = s, !.answered = dateNow] \in Presses
    BY <2>0 DEF Presses
  <2>2. press' = [press EXCEPT ![r] = [press[r] EXCEPT !.step = s, !.answered = dateNow]]
    BY <1>2 DEF FaucetTypes, Respond
  <2>. QED  BY <2>1, <2>2 DEF FaucetTypes
<1>. QED  BY <1>1, <1>2

\* What the other presses have behind them stays, whatever happens to this one.
LEMMA OthersKeep ==
    ASSUME FaucetInv, NEW q \in Runs, press'[q] = press[q],
           dateNow' \in Int, dateNow <= dateNow',
           \A a \in Wallets : trust[a] = Tokens => trust'[a] = Tokens,
           \A token \in Tokens : mint[q][token] = "landed" => mint'[q][token] = "landed"
    PROVE  Behind(q)'
<1>1. Behind(q) /\ press[q].answered \in Int /\ dateNow \in Int
  BY DEF FaucetInv, PressInv, FaucetTypes, Presses
<1>2. press[q].answered <= dateNow'
  BY <1>1 DEF Behind
<1>. QED  BY <1>1, <1>2 DEF Behind, Tokens, Admitted, Minted, Trusting

\* While no grant is added, what was given stays as it is and nobody is let in or
\* refused, the memory and the cooldown are as they were.
LEMMA CooldownKeeps ==
    ASSUME FaucetInv, lastGrantMsByAddress' = lastGrantMsByAddress, DOMAIN press' = Runs,
           \A q \in Runs : Given(q)' => Given(q), GivenStays,
           \A q \in Runs : press'[q].step \in Admitted \cup {"rate_limited"} =>
               /\ press[q].step \in Admitted \cup {"rate_limited"}
               /\ press'[q].step = "rate_limited" => press[q].step = "rate_limited"
               /\ press'[q].step \in Admitted => press[q].step \in Admitted
               /\ press'[q].address = press[q].address
               /\ press'[q].instance = press[q].instance
               /\ press'[q].arrived = press[q].arrived
    PROVE  MemoryIsTrue' /\ MemoryIsWhole' /\ RefusedOnlyAfterAGrant' /\ AdmittedInTurnAreSpaced'
<1>1. MemoryIsTrue'
  BY DEF FaucetInv, MemoryIsTrue, GivenStays, Given
<1>2. MemoryIsWhole'
  BY DEF FaucetInv, MemoryIsWhole, GivenStays, Given, Granted
<1>3. RefusedOnlyAfterAGrant'
  BY DEF FaucetInv, RefusedOnlyAfterAGrant, GivenStays, Given, At, SameWallet
<1>4. AdmittedInTurnAreSpaced'
  BY DEF FaucetInv, AdmittedInTurnAreSpaced, GivenStays, Given, SameWallet
<1>. QED  BY <1>1, <1>2, <1>3, <1>4

\* So it is when a press moves on without being let in, refused or given tokens.
LEMMA OwnStepKeeps ==
    ASSUME FaucetInv, NEW r \in Runs, NEW s, Step(r, s) \/ Respond(r, s), ~Given(r),
           s \notin {"done", "unheard", "rate_limited"},
           s \in Admitted => press[r].step \in Admitted,
           lastGrantMsByAddress' = lastGrantMsByAddress
    PROVE  MemoryIsTrue' /\ MemoryIsWhole' /\ RefusedOnlyAfterAGrant' /\ AdmittedInTurnAreSpaced'
<1>1. /\ DOMAIN press' = Runs
      /\ press'[r].step = s /\ press'[r].address = press[r].address
      /\ press'[r].instance = press[r].instance /\ press'[r].arrived = press[r].arrived
      /\ \A q \in Runs \ {r} : press'[q] = press[q]
  BY StepFacts, RespondFacts DEF FaucetInv
<1>2. \A q \in Runs : Given(q)' => Given(q)
  BY <1>1 DEF Given
<1>3. GivenStays
  BY <1>1 DEF GivenStays
<1>. QED  BY <1>1, <1>2, <1>3, CooldownKeeps

-----------------------------------------------------------------------------
(* The steps of a press.                                                   *)

LEMMA PressKeeps ==
    ASSUME FaucetInv, NEW r \in Runs, handleAddTestTokens(r)
    PROVE  FaucetInv'
<1>1. PICK a \in Wallets :
        press' = [press EXCEPT ![r].address = a, ![r].step = "looking"]
  BY DEF handleAddTestTokens
<1>2. press[r].step = "idle"
  BY DEF handleAddTestTokens, At
<1>0. press' = [press EXCEPT ![r] = [press[r] EXCEPT !.address = a, !.step = "looking"]]
  BY <1>1 DEF FaucetInv, FaucetTypes
<1>3. /\ DOMAIN press' = Runs
      /\ press'[r] = [press[r] EXCEPT !.address = a, !.step = "looking"]
      /\ press'[r].step = "looking" /\ press'[r].address = a
      /\ press'[r].instance = press[r].instance /\ press'[r].arrived = press[r].arrived
      /\ press'[r].answered = press[r].answered
      /\ \A q \in Runs \ {r} : press'[q] = press[q]
  BY <1>0 DEF FaucetInv, FaucetTypes, Presses
<1>4. FaucetTypes'
  <2>0. press[r] \in Presses /\ "looking" \in StepNames
    BY DEF FaucetInv, FaucetTypes, StepNames
  <2>1. [press[r] EXCEPT !.address = a, !.step = "looking"] \in Presses
    BY <2>0 DEF Presses
  <2>3. press' \in [Runs -> Presses]
    BY <1>0, <2>1 DEF FaucetInv, FaucetTypes
  <2>. QED  BY <2>3 DEF FaucetInv, FaucetTypes, handleAddTestTokens
<1>5. PressInv'
  <2>1. Behind(r)'
    <3>1. Behind(r)
      BY DEF FaucetInv, PressInv
    <3>. QED  BY <3>1, <1>3 DEF Behind, handleAddTestTokens, Admitted, Minted, Trusting
  <2>2. \A q \in Runs \ {r} : Behind(q)'
    BY <1>3, OthersKeep DEF FaucetInv, FaucetTypes, handleAddTestTokens
  <2>3. \A q \in trusting' : press'[q].step # "idle"
    BY <1>3 DEF FaucetInv, FaucetTypes, PressInv, handleAddTestTokens
  <2>. QED  BY <2>1, <2>2, <2>3 DEF PressInv
<1>6. \A q \in Runs : Given(q)' => Given(q)
  BY <1>3 DEF Given
<1>7. GivenStays
  BY <1>2, <1>3 DEF GivenStays, Given
<1>8. \A q \in Runs : press'[q].step \in Admitted \cup {"rate_limited"} => q # r
  BY <1>3 DEF Admitted, Minted
<1>9. MemoryIsTrue' /\ MemoryIsWhole' /\ RefusedOnlyAfterAGrant' /\ AdmittedInTurnAreSpaced'
  BY <1>3, <1>6, <1>7, <1>8, CooldownKeeps DEF handleAddTestTokens
<1>. QED  BY <1>4, <1>5, <1>9 DEF FaucetInv

LEMMA LookKeeps ==
    ASSUME FaucetInv, NEW r \in Runs, Look(r)
    PROVE  FaucetInv'
<1>1. press[r].step = "looking"
  BY DEF Look, At
<1>2. PICK s \in {"asking", "signing", "error"} :
        Step(r, s) /\ (s = "asking" => trust[press[r].address] = Tokens)
  <2>1. press[r].address \in Wallets
    BY <1>1 DEF FaucetInv, PressInv, Behind
  <2>2. trust[press[r].address] \subseteq Tokens
    BY <2>1 DEF FaucetInv, FaucetTypes
  <2>. QED  BY <2>2 DEF Look, findMissingTrustlines, demoAssets
<1>3. /\ DOMAIN press' = Runs
      /\ press'[r] = [press[r] EXCEPT !.step = s]
      /\ press'[r].step = s /\ press'[r].address = press[r].address
      /\ press'[r].instance = press[r].instance /\ press'[r].arrived = press[r].arrived
      /\ press'[r].answered = press[r].answered
      /\ \A q \in Runs \ {r} : press'[q] = press[q]
  BY <1>2, StepFacts DEF FaucetInv
<1>4. FaucetTypes'
  <2>1. press' \in [Runs -> Presses]
    BY <1>2, StepTypes DEF FaucetInv, StepNames
  <2>. QED  BY <2>1 DEF FaucetInv, FaucetTypes, Look
<1>5. PressInv'
  <2>1. Behind(r)'
    <3>1. Behind(r)
      BY DEF FaucetInv, PressInv
    <3>. QED  BY <3>1, <1>1, <1>2, <1>3 DEF Behind, Look, Admitted, Minted, Trusting
  <2>2. \A q \in Runs \ {r} : Behind(q)'
    BY <1>3, OthersKeep DEF FaucetInv, FaucetTypes, Look
  <2>3. \A q \in trusting' : press'[q].step # "idle"
    BY <1>3 DEF FaucetInv, FaucetTypes, PressInv, Look
  <2>. QED  BY <2>1, <2>2, <2>3 DEF PressInv
<1>6. MemoryIsTrue' /\ MemoryIsWhole' /\ RefusedOnlyAfterAGrant' /\ AdmittedInTurnAreSpaced'
  <2>1. ~Given(r)
    BY <1>1 DEF Given
  <2>2. s \notin Admitted
    BY DEF Admitted, Minted
  <2>. QED  BY <1>2, <2>1, <2>2, OwnStepKeeps DEF Look
<1>. QED  BY <1>4, <1>5, <1>6 DEF FaucetInv

LEMMA TrustKeeps ==
    ASSUME FaucetInv, NEW r \in Runs, establishTrustlines(r)
    PROVE  FaucetInv'
<1>1. press[r].step = "signing" /\ press[r].address \in Wallets
  BY DEF establishTrustlines, At, FaucetInv, PressInv, Behind
<1>2. PICK s \in {"asking", "error"} :
        /\ Step(r, s)
        /\ s = "asking" => trust' = [trust EXCEPT ![press[r].address] = Tokens]
        /\ s = "error" => trust' = trust
        /\ trusting' \in {trusting, trusting \cup {r}}
  BY DEF establishTrustlines
<1>3. /\ DOMAIN press' = Runs
      /\ press'[r] = [press[r] EXCEPT !.step = s]
      /\ press'[r].step = s /\ press'[r].address = press[r].address
      /\ press'[r].instance = press[r].instance /\ press'[r].arrived = press[r].arrived
      /\ press'[r].answered = press[r].answered
      /\ \A q \in Runs \ {r} : press'[q] = press[q]
  BY <1>2, StepFacts DEF FaucetInv
<1>4. /\ \A a \in Wallets : trust[a] = Tokens => trust'[a] = Tokens
      /\ s = "asking" => trust'[press[r].address] = Tokens
      /\ trust' \in [Wallets -> SUBSET Tokens]
  BY <1>1, <1>2 DEF FaucetInv, FaucetTypes
<1>5. FaucetTypes'
  <2>1. press' \in [Runs -> Presses]
    BY <1>2, StepTypes DEF FaucetInv, StepNames
  <2>. QED  BY <2>1, <1>2, <1>4 DEF FaucetInv, FaucetTypes, establishTrustlines
<1>6. PressInv'
  <2>1. Behind(r)'
    <3>1. Behind(r)
      BY DEF FaucetInv, PressInv
    <3>. QED  BY <3>1, <1>1, <1>2, <1>3, <1>4
              DEF Behind, establishTrustlines, Admitted, Minted, Trusting
  <2>2. \A q \in Runs \ {r} : Behind(q)'
    BY <1>3, <1>4, OthersKeep DEF FaucetInv, FaucetTypes, establishTrustlines
  <2>3. \A q \in trusting' : press'[q].step # "idle"
    BY <1>2, <1>3 DEF FaucetInv, FaucetTypes, PressInv
  <2>. QED  BY <2>1, <2>2, <2>3 DEF PressInv
<1>7. MemoryIsTrue' /\ MemoryIsWhole' /\ RefusedOnlyAfterAGrant' /\ AdmittedInTurnAreSpaced'
  <2>1. ~Given(r)
    BY <1>1 DEF Given
  <2>2. s \notin Admitted
    BY DEF Admitted, Minted
  <2>. QED  BY <1>2, <2>1, <2>2, OwnStepKeeps DEF establishTrustlines
<1>. QED  BY <1>5, <1>6, <1>7 DEF FaucetInv

LEMMA LateTrustKeeps ==
    ASSUME FaucetInv, NEW r \in Runs, LateTrustline(r)
    PROVE  FaucetInv'
<1>1. press[r].address \in Wallets
  BY DEF LateTrustline, FaucetInv, PressInv, FaucetTypes, Behind
<1>2. /\ \A a \in Wallets : trust[a] = Tokens => trust'[a] = Tokens
      /\ trust' \in [Wallets -> SUBSET Tokens]
  BY <1>1 DEF FaucetInv, FaucetTypes, LateTrustline
<1>3. FaucetTypes'
  BY <1>2 DEF FaucetInv, FaucetTypes, LateTrustline
<1>4. PressInv'
  <2>1. \A q \in Runs : Behind(q)'
    BY <1>2, OthersKeep DEF FaucetInv, FaucetTypes, LateTrustline
  <2>. QED  BY <2>1 DEF FaucetInv, PressInv, LateTrustline
<1>5. GivenStays /\ DOMAIN press' = Runs /\ \A q \in Runs : Given(q)' => Given(q)
  BY DEF GivenStays, LateTrustline, Given, FaucetInv, FaucetTypes
<1>6. MemoryIsTrue' /\ MemoryIsWhole' /\ RefusedOnlyAfterAGrant' /\ AdmittedInTurnAreSpaced'
  BY <1>5, CooldownKeeps DEF LateTrustline
<1>. QED  BY <1>3, <1>4, <1>6 DEF FaucetInv

-----------------------------------------------------------------------------
(* The steps of the service.                                               *)

\* A process remembers a press that was given its tokens when it refuses one.
LEMMA ArriveKeeps ==
    ASSUME FaucetInv, NEW r \in Runs, Arrive(r)
    PROVE  FaucetInv'
<1>1. /\ press[r].step = "asking" /\ press[r].address \in Wallets
      /\ trust[press[r].address] = Tokens
      /\ dateNow \in Int /\ press[r] \in Presses
  <2>1. dateNow \in Int /\ press[r] \in Presses
    BY FaucetAssumption DEF FaucetInv, FaucetTypes
  <2>2. press[r].step = "asking"
    BY DEF Arrive, At
  <2>. QED  BY <2>1, <2>2 DEF FaucetInv, PressInv, Behind, Trusting
<1>0. UNCHANGED <<dateNow, lastGrantMsByAddress, trust, trusting, mint>>
  BY DEF Arrive
<1>2. CASE Step(r, "error")
  <2>1. /\ DOMAIN press' = Runs
        /\ press'[r].step = "error" /\ press'[r].address = press[r].address
        /\ press'[r].arrived = press[r].arrived /\ press'[r].answered = press[r].answered
        /\ \A q \in Runs \ {r} : press'[q] = press[q]
    BY <1>2, StepFacts DEF FaucetInv
  <2>2. press' \in [Runs -> Presses]
    BY <1>2, StepTypes DEF FaucetInv, StepNames
  <2>3. FaucetTypes'
    BY <1>0, <2>2 DEF FaucetInv, FaucetTypes
  <2>4. Behind(r)'
    <3>1. Behind(r)
      BY DEF FaucetInv, PressInv
    <3>. QED  BY <3>1, <1>0, <1>1, <2>1 DEF Behind, Admitted, Minted, Trusting
  <2>5. \A q \in Runs \ {r} : Behind(q)'
    BY <1>0, <1>1, <2>1, OthersKeep
  <2>6. PressInv'
    BY <1>0, <2>1, <2>4, <2>5 DEF FaucetInv, FaucetTypes, PressInv
  <2>7. ~Given(r) /\ "error" \notin Admitted
    BY <1>1 DEF Given, Admitted, Minted
  <2>8. MemoryIsTrue' /\ MemoryIsWhole' /\ RefusedOnlyAfterAGrant' /\ AdmittedInTurnAreSpaced'
    BY <1>0, <1>2, <2>7, OwnStepKeeps
  <2>. QED  BY <2>3, <2>6, <2>8 DEF FaucetInv
<1>3. ASSUME NEW i \in Instances, NEW s \in {"rate_limited", "tUSDC"},
             s = "rate_limited" <=> cooldownRemainingMs(i, press[r].address) > 0,
             press' = [press EXCEPT ![r].instance = i, ![r].arrived = dateNow,
                                    ![r].answered = dateNow, ![r].step = s]
      PROVE  FaucetInv'
  <2>0. press' = [press EXCEPT ![r] = [press[r] EXCEPT !.instance = i, !.arrived = dateNow,
                                                       !.answered = dateNow, !.step = s]]
    BY <1>3 DEF FaucetInv, FaucetTypes
  <2>1. /\ DOMAIN press' = Runs
        /\ press'[r] = [press[r] EXCEPT !.instance = i, !.arrived = dateNow,
                                        !.answered = dateNow, !.step = s]
        /\ \A q \in Runs \ {r} : press'[q] = press[q]
    BY <2>0 DEF FaucetInv, FaucetTypes
  <2>2. /\ press'[r].step = s /\ press'[r].address = press[r].address
        /\ press'[r].instance = i /\ press'[r].arrived = dateNow
        /\ press'[r].answered = dateNow
        /\ press'[r] \in Presses
    BY <1>1, <2>1 DEF Presses, StepNames
  <2>3. press' \in [Runs -> Presses]
    BY <2>0, <2>1, <2>2 DEF FaucetInv, FaucetTypes
  <2>4. FaucetTypes'
    BY <1>0, <2>3 DEF FaucetInv, FaucetTypes
  <2>5. Behind(r)'
    BY <1>0, <1>1, <2>2 DEF Behind, Admitted, Minted, Trusting
  <2>6. \A q \in Runs \ {r} : Behind(q)'
    BY <1>0, <1>1, <2>1, OthersKeep
  <2>7. PressInv'
    <3>1. \A q \in trusting' : press'[q].step # "idle"
      BY <1>0, <2>1, <2>2 DEF FaucetInv, FaucetTypes, PressInv
    <3>. QED  BY <2>5, <2>6, <3>1 DEF PressInv
  <2>8. \A q \in Runs : Given(q) => q # r
    BY <1>1 DEF Given
  <2>9. \A q \in Runs : Given(q)' <=> Given(q)
    BY <2>1, <2>2, <2>8 DEF Given
  <2>10. MemoryIsTrue'
    BY <1>0, <2>1, <2>8, <2>9 DEF FaucetInv, MemoryIsTrue
  <2>11. MemoryIsWhole'
    BY <1>0, <2>1, <2>8, <2>9 DEF FaucetInv, MemoryIsWhole, Granted
  <2>12. RefusedOnlyAfterAGrant'
    <3>. SUFFICES ASSUME NEW p \in Runs, At(p, "rate_limited")'
                  PROVE  \E q \in Runs : /\ Given(q)' /\ SameWallet(q, p)'
                                         /\ press'[q].answered <= press'[p].arrived
                                         /\ press'[p].arrived < press'[q].answered + COOLDOWN_MS
      BY DEF RefusedOnlyAfterAGrant
    <3>1. CASE p # r
      <4>1. At(p, "rate_limited")
        BY <3>1, <2>1 DEF At
      <4>2. PICK q \in Runs : /\ Given(q) /\ SameWallet(q, p)
                              /\ press[q].answered <= press[p].arrived
                              /\ press[p].arrived < press[q].answered + COOLDOWN_MS
        BY <4>1 DEF FaucetInv, RefusedOnlyAfterAGrant
      <4>. QED  BY <3>1, <4>2, <2>1, <2>8, <2>9 DEF SameWallet
    <3>2. CASE p = r
      <4>1. cooldownRemainingMs(i, press[r].address) > 0
        BY <3>2, <2>2, <1>3 DEF At
      <4>2. Granted(i, press[r].address)
        BY <4>1, FaucetAssumption DEF cooldownRemainingMs
      <4>3. PICK q \in Runs : /\ Given(q) /\ press[q].address = press[r].address
                              /\ press[q].instance = i
                              /\ press[q].answered = lastGrantMsByAddress[i][press[r].address]
        BY <4>2 DEF FaucetInv, MemoryIsTrue, Granted
      <4>4. press[q].answered \in Int /\ press[q].answered <= dateNow
        BY DEF FaucetInv, FaucetTypes, Presses, PressInv, Behind
      <4>5. dateNow < press[q].answered + COOLDOWN_MS
        BY <4>1, <4>3, <4>4, <1>1, FaucetAssumption DEF cooldownRemainingMs
      <4>6. Given(q)' /\ SameWallet(q, p)'
        BY <4>3, <3>2, <2>1, <2>2, <2>8, <2>9 DEF SameWallet
      <4>7. press'[q] = press[q]
        BY <4>3, <2>1, <2>8
      <4>. QED  BY <4>4, <4>5, <4>6, <4>7, <3>2, <2>2
    <3>. QED  BY <3>1, <3>2
  <2>13. AdmittedInTurnAreSpaced'
    <3>. SUFFICES ASSUME NEW q \in Runs, NEW p \in Runs,
                         Given(q)', press'[p].step \in Admitted, SameWallet(q, p)',
                         press'[p].instance \notin Serverless,
                         press'[q].answered < press'[p].arrived
                  PROVE  press'[q].answered + COOLDOWN_MS <= press'[p].arrived
      BY DEF AdmittedInTurnAreSpaced
    <3>1. Given(q) /\ press'[q] = press[q]
      BY <2>1, <2>8, <2>9
    <3>2. CASE p # r
      <4>1. press'[p] = press[p]
        BY <3>2, <2>1
      <4>2. SameWallet(q, p)
        BY <4>1, <3>1 DEF SameWallet
      <4>. QED  BY <4>1, <4>2, <3>1 DEF FaucetInv, AdmittedInTurnAreSpaced
    <3>3. CASE p = r
      <4>1. ~(cooldownRemainingMs(i, press[r].address) > 0)
        BY <3>3, <2>2, <1>3 DEF Admitted, Minted
      <4>2. /\ press[q].address = press[r].address /\ press[q].instance = i
            /\ i \notin Serverless /\ press[q].answered < dateNow
        BY <3>1, <3>3, <2>2 DEF SameWallet
      <4>3. /\ Granted(i, press[r].address)
            /\ press[q].answered <= lastGrantMsByAddress[i][press[r].address]
        BY <3>1, <4>2 DEF FaucetInv, MemoryIsWhole
      <4>4. PICK g \in Runs : press[g].answered = lastGrantMsByAddress[i][press[r].address]
        BY <4>3 DEF FaucetInv, MemoryIsTrue, Granted
      <4>5. press[g].answered \in Int /\ press[q].answered \in Int
        BY DEF FaucetInv, FaucetTypes, Presses
      <4>6. dateNow - lastGrantMsByAddress[i][press[r].address] >= COOLDOWN_MS
        BY <4>1, <4>3, <4>4, <4>5, <1>1, FaucetAssumption DEF cooldownRemainingMs
      <4>7. press[q].answered + COOLDOWN_MS <= dateNow
        BY <4>3, <4>4, <4>5, <4>6, <1>1, FaucetAssumption
      <4>. QED  BY <4>7, <3>1, <3>3, <2>2
    <3>. QED  BY <3>2, <3>3
  <2>. QED  BY <2>4, <2>7, <2>10, <2>11, <2>12, <2>13 DEF FaucetInv
<1>4. ASSUME ~Step(r, "error")
      PROVE  \E i \in Instances : \E s \in {"rate_limited", "tUSDC"} :
                /\ s = "rate_limited" <=> cooldownRemainingMs(i, press[r].address) > 0
                /\ press' = [press EXCEPT ![r].instance = i, ![r].arrived = dateNow,
                                          ![r].answered = dateNow, ![r].step = s]
  <2>1. PICK i \in Instances :
          press' = [press EXCEPT ![r].instance = i, ![r].arrived = dateNow, ![r].answered = dateNow,
                     ![r].step = IF cooldownRemainingMs(i, press[r].address) > 0
                                 THEN "rate_limited" ELSE "tUSDC"]
    BY <1>4 DEF Arrive
  <2>. QED  BY <2>1
<1>. QED  BY <1>2, <1>3, <1>4

\* A mint moves the press on only when it is seen to land.
LEMMA MintKeeps ==
    ASSUME FaucetInv, NEW r \in Runs, NEW token \in Tokens, mintToken(r, token)
    PROVE  FaucetInv'
<1>0. /\ UNCHANGED <<dateNow, lastGrantMsByAddress, trust, trusting>>
      /\ press[r].step = token
  BY DEF mintToken, At
<1>1. dateNow \in Int /\ press[r] \in Presses /\ Behind(r) /\ press[r].step \in Admitted
  BY <1>0, FaucetAssumption DEF FaucetInv, PressInv, FaucetTypes, Tokens, Admitted
<1>2. /\ mint' \in [Runs -> [Tokens -> {"no", "sent", "landed"}]]
      /\ \A q \in Runs \ {r} : mint'[q] = mint[q]
      /\ \A other \in Tokens \ {token} : mint'[r][other] = mint[r][other]
  BY DEF mintToken, FaucetInv, FaucetTypes
<1>3. PICK s \in {"tBENJI", "minted", "error"} :
        /\ Step(r, s) \/ Respond(r, s)
        /\ s # "error" => s = NextStep(token) /\ mint'[r][token] = "landed"
  BY DEF mintToken, NextStep, FaucetInv, FaucetTypes
<1>4. /\ DOMAIN press' = Runs
      /\ press'[r].step = s /\ press'[r].address = press[r].address
      /\ press'[r].instance = press[r].instance /\ press'[r].arrived = press[r].arrived
      /\ press'[r].answered \in {press[r].answered, dateNow}
      /\ \A q \in Runs \ {r} : press'[q] = press[q]
  BY <1>3, StepFacts, RespondFacts DEF FaucetInv
<1>5. FaucetTypes'
  <2>1. press' \in [Runs -> Presses]
    BY <1>3, StepTypes DEF FaucetInv, StepNames
  <2>. QED  BY <1>0, <1>2, <2>1 DEF FaucetInv, FaucetTypes
<1>6. PressInv'
  <2>1. Behind(r)'
    <3>1. /\ press'[r].arrived <= press'[r].answered /\ press'[r].answered <= dateNow'
      BY <1>0, <1>1, <1>4 DEF Behind, Presses
    <3>2. /\ press'[r].address \in Wallets /\ press'[r].instance \in Instances
          /\ trust'[press'[r].address] = Tokens
      BY <1>0, <1>1, <1>4 DEF Behind, Admitted, Trusting, Tokens
    <3>3. /\ s = "tBENJI" => mint'[r]["tUSDC"] = "landed"
          /\ s = "minted" => mint'[r]["tUSDC"] = "landed" /\ mint'[r]["tBENJI"] = "landed"
      BY <1>0, <1>1, <1>2, <1>3 DEF NextStep, Behind, Tokens
    <3>. QED  BY <3>1, <3>2, <3>3, <1>4 DEF Behind, Minted
  <2>2. \A q \in Runs \ {r} : Behind(q)'
    BY <1>0, <1>1, <1>2, <1>4, OthersKeep
  <2>3. \A q \in trusting' : press'[q].step # "idle"
    BY <1>0, <1>4 DEF FaucetInv, FaucetTypes, PressInv
  <2>. QED  BY <2>1, <2>2, <2>3 DEF PressInv
<1>7. MemoryIsTrue' /\ MemoryIsWhole' /\ RefusedOnlyAfterAGrant' /\ AdmittedInTurnAreSpaced'
  <2>1. ~Given(r)
    BY <1>0 DEF Given, Tokens
  <2>. QED  BY <1>0, <1>1, <1>3, <2>1, OwnStepKeeps
<1>. QED  BY <1>5, <1>6, <1>7 DEF FaucetInv

LEMMA LateMintKeeps ==
    ASSUME FaucetInv, NEW r \in Runs, NEW token \in Tokens, LateMint(r, token)
    PROVE  FaucetInv'
<1>0. UNCHANGED <<dateNow, lastGrantMsByAddress, press, trust, trusting>>
  BY DEF LateMint
<1>1. /\ mint' \in [Runs -> [Tokens -> {"no", "sent", "landed"}]]
      /\ \A q \in Runs : \A other \in Tokens :
            mint[q][other] = "landed" => mint'[q][other] = "landed"
  <2>1. PICK m \in {"landed", "no"} : mint' = [mint EXCEPT ![r][token] = m]
    BY DEF LateMint
  <2>. QED  BY <2>1 DEF LateMint, FaucetInv, FaucetTypes
<1>2. FaucetTypes'
  BY <1>0, <1>1 DEF FaucetInv, FaucetTypes
<1>3. PressInv'
  <2>1. dateNow \in Int
    BY FaucetAssumption DEF FaucetInv, FaucetTypes
  <2>2. \A q \in Runs : Behind(q)'
    BY <1>0, <1>1, <2>1, OthersKeep
  <2>. QED  BY <1>0, <2>2 DEF FaucetInv, PressInv
<1>4. MemoryIsTrue' /\ MemoryIsWhole' /\ RefusedOnlyAfterAGrant' /\ AdmittedInTurnAreSpaced'
  BY <1>0, CooldownKeeps DEF GivenStays, Given, FaucetInv, FaucetTypes
<1>. QED  BY <1>2, <1>3, <1>4 DEF FaucetInv

\* The grant enters the memory in the step that answers.
LEMMA GrantKeeps ==
    ASSUME FaucetInv, NEW r \in Runs, Grant(r)
    PROVE  FaucetInv'
<1> DEFINE i == press[r].instance
           a == press[r].address
<1>0. /\ UNCHANGED <<dateNow, trust, trusting, mint>>
      /\ press[r].step = "minted"
  BY DEF Grant, At
<1>1. /\ dateNow \in Int /\ press[r] \in Presses /\ Behind(r)
      /\ i \in Instances /\ a \in Wallets
  <2>1. dateNow \in Int /\ press[r] \in Presses /\ Behind(r)
    BY FaucetAssumption DEF FaucetInv, PressInv, FaucetTypes
  <2>. QED  BY <1>0, <2>1 DEF Behind, Admitted, Minted
<1>2. PICK s \in {"done", "unheard"} : Respond(r, s)
  BY DEF Grant
<1>3. /\ DOMAIN press' = Runs
      /\ press'[r].step = s /\ press'[r].address = a
      /\ press'[r].instance = i /\ press'[r].arrived = press[r].arrived
      /\ press'[r].answered = dateNow
      /\ \A q \in Runs \ {r} : press'[q] = press[q]
  BY <1>2, RespondFacts DEF FaucetInv
<1>4. /\ DOMAIN lastGrantMsByAddress' = Instances
      /\ \A j \in Instances \ {i} : lastGrantMsByAddress'[j] = lastGrantMsByAddress[j]
      /\ DOMAIN lastGrantMsByAddress'[i] = DOMAIN lastGrantMsByAddress[i] \cup {a}
      /\ lastGrantMsByAddress'[i][a] = dateNow
      /\ \A x \in DOMAIN lastGrantMsByAddress[i] \ {a} :
            lastGrantMsByAddress'[i][x] = lastGrantMsByAddress[i][x]
  <2>1. lastGrantMsByAddress' = [lastGrantMsByAddress EXCEPT ![i] =
            [x \in DOMAIN lastGrantMsByAddress[i] \cup {a} |->
                IF x = a THEN dateNow ELSE lastGrantMsByAddress[i][x]]]
    BY DEF Grant, Record
  <2>. HIDE DEF i, a
  <2>. QED  BY <1>1, <2>1 DEF FaucetInv, FaucetTypes
<1>5. FaucetTypes'
  <2>1. press' \in [Runs -> Presses]
    BY <1>2, StepTypes DEF FaucetInv, StepNames
  <2>2. \A j \in Instances : DOMAIN lastGrantMsByAddress'[j] \subseteq Wallets
    <3>. HIDE DEF i, a
    <3>. QED  BY <1>1, <1>4 DEF FaucetInv, FaucetTypes
  <2>. QED  BY <1>0, <1>4, <2>1, <2>2 DEF FaucetInv, FaucetTypes
<1>6. PressInv'
  <2>1. Behind(r)'
    BY <1>0, <1>1, <1>3 DEF Behind, Minted, Admitted, Trusting, Presses
  <2>2. \A q \in Runs \ {r} : Behind(q)'
    BY <1>0, <1>1, <1>3, OthersKeep
  <2>3. \A q \in trusting' : press'[q].step # "idle"
    BY <1>0, <1>3 DEF FaucetInv, FaucetTypes, PressInv
  <2>. QED  BY <2>1, <2>2, <2>3 DEF PressInv
<1>7. \A q \in Runs : Given(q) => q # r /\ press'[q] = press[q] /\ Given(q)'
  BY <1>0, <1>3 DEF Given
<1>8. Given(r)' /\ \A q \in Runs \ {r} : Given(q)' => Given(q)
  BY <1>3 DEF Given
<1>9. \A q \in Runs : press[q].answered \in Int /\ press[q].answered <= dateNow
                      /\ press[q].arrived \in Int /\ press[q].arrived <= dateNow
  BY <1>1 DEF FaucetInv, FaucetTypes, PressInv, Behind, Presses
<1>10. MemoryIsTrue'
  <2>. SUFFICES ASSUME NEW j \in Instances, NEW x \in DOMAIN lastGrantMsByAddress'[j]
                PROVE  \E q \in Runs : /\ Given(q)' /\ press'[q].address = x
                                       /\ press'[q].instance = j
                                       /\ press'[q].answered = lastGrantMsByAddress'[j][x]
    BY <1>4 DEF MemoryIsTrue
  <2>1. CASE j = i /\ x = a
    BY <2>1, <1>3, <1>4, <1>8
  <2>2. CASE ~(j = i /\ x = a)
    <3>. HIDE DEF i, a
    <3>1. x \in DOMAIN lastGrantMsByAddress[j]
          /\ lastGrantMsByAddress'[j][x] = lastGrantMsByAddress[j][x]
      BY <2>2, <1>4
    <3>2. PICK q \in Runs : /\ Given(q) /\ press[q].address = x /\ press[q].instance = j
                            /\ press[q].answered = lastGrantMsByAddress[j][x]
      BY <3>1 DEF FaucetInv, MemoryIsTrue
    <3>. QED  BY <3>1, <3>2, <1>7
  <2>. QED  BY <2>1, <2>2
<1>11. MemoryIsWhole'
  <2>. SUFFICES ASSUME NEW q \in Runs, Given(q)', press'[q].instance \notin Serverless
                PROVE  /\ press'[q].address \in DOMAIN lastGrantMsByAddress'[press'[q].instance]
                       /\ press'[q].answered
                            <= lastGrantMsByAddress'[press'[q].instance][press'[q].address]
    BY DEF MemoryIsWhole, Granted
  <2>1. CASE q = r
    BY <2>1, <1>1, <1>3, <1>4
  <2>2. CASE q # r
    <3>1. Given(q) /\ press'[q] = press[q]
      BY <2>2, <1>3, <1>8
    <3>2. /\ press[q].address \in DOMAIN lastGrantMsByAddress[press[q].instance]
          /\ press[q].answered <= lastGrantMsByAddress[press[q].instance][press[q].address]
      BY <3>1 DEF FaucetInv, MemoryIsWhole, Granted
    <3>3. press[q].instance \in Instances
      BY <3>1 DEF FaucetInv, PressInv, Behind, Given, Admitted, Minted
    <3>4. CASE press[q].instance = i /\ press[q].address = a
      BY <3>1, <3>4, <1>4, <1>9
    <3>5. CASE ~(press[q].instance = i /\ press[q].address = a)
      <4>. HIDE DEF i, a
      <4>. QED  BY <3>1, <3>2, <3>3, <3>5, <1>4
    <3>. QED  BY <3>4, <3>5
  <2>. QED  BY <2>1, <2>2
<1>12. RefusedOnlyAfterAGrant'
  <2>. SUFFICES ASSUME NEW p \in Runs, At(p, "rate_limited")'
                PROVE  \E q \in Runs : /\ Given(q)' /\ SameWallet(q, p)'
                                       /\ press'[q].answered <= press'[p].arrived
                                       /\ press'[p].arrived < press'[q].answered + COOLDOWN_MS
    BY DEF RefusedOnlyAfterAGrant
  <2>1. p # r /\ press'[p] = press[p] /\ At(p, "rate_limited")
    BY <1>3 DEF At
  <2>2. PICK q \in Runs : /\ Given(q) /\ SameWallet(q, p)
                          /\ press[q].answered <= press[p].arrived
                          /\ press[p].arrived < press[q].answered + COOLDOWN_MS
    BY <2>1 DEF FaucetInv, RefusedOnlyAfterAGrant
  <2>. QED  BY <2>1, <2>2, <1>7 DEF SameWallet
<1>13. AdmittedInTurnAreSpaced'
  <2>. SUFFICES ASSUME NEW q \in Runs, NEW p \in Runs,
                       Given(q)', press'[p].step \in Admitted, SameWallet(q, p)',
                       press'[p].instance \notin Serverless,
                       press'[q].answered < press'[p].arrived
                PROVE  press'[q].answered + COOLDOWN_MS <= press'[p].arrived
    BY DEF AdmittedInTurnAreSpaced
  <2>1. q # r
    <3>1. CASE q = r
      <4>1. p # r /\ press'[p] = press[p]
        BY <3>1, <1>3 DEF SameWallet
      <4>. QED  BY <3>1, <4>1, <1>1, <1>3, <1>9
    <3>. QED  BY <3>1
  <2>2. Given(q) /\ press'[q] = press[q]
    BY <2>1, <1>3, <1>8
  <2>3. /\ press[p].step \in Admitted /\ press'[p].arrived = press[p].arrived
        /\ press'[p].instance = press[p].instance /\ press'[p].address = press[p].address
    BY <1>0, <1>3 DEF Admitted, Minted
  <2>4. SameWallet(q, p)
    BY <2>2, <2>3 DEF SameWallet
  <2>. QED  BY <2>2, <2>3, <2>4 DEF FaucetInv, AdmittedInTurnAreSpaced
<1>. QED  BY <1>5, <1>6, <1>10, <1>11, <1>12, <1>13 DEF FaucetInv

\* A process that starts afresh forgets what it may forget.
LEMMA ColdStartKeeps ==
    ASSUME FaucetInv, NEW i \in Instances, ColdStart(i)
    PROVE  FaucetInv'
<1>0. UNCHANGED <<dateNow, press, trust, trusting, mint>> /\ i \in Serverless
  BY DEF ColdStart
<1>1. /\ DOMAIN lastGrantMsByAddress' = Instances
      /\ DOMAIN lastGrantMsByAddress'[i] = {}
      /\ \A j \in Instances \ {i} : lastGrantMsByAddress'[j] = lastGrantMsByAddress[j]
  BY DEF ColdStart, FaucetInv, FaucetTypes
<1>2. FaucetTypes'
  <2>1. \A j \in Instances : DOMAIN lastGrantMsByAddress'[j] \subseteq Wallets
    BY <1>1 DEF FaucetInv, FaucetTypes
  <2>. QED  BY <1>0, <1>1, <2>1 DEF FaucetInv, FaucetTypes
<1>3. PressInv' /\ RefusedOnlyAfterAGrant' /\ AdmittedInTurnAreSpaced'
  BY <1>0 DEF FaucetInv, PressInv, Behind, RefusedOnlyAfterAGrant, AdmittedInTurnAreSpaced,
              Given, At, SameWallet
<1>4. MemoryIsTrue'
  BY <1>0, <1>1 DEF FaucetInv, MemoryIsTrue, Given
<1>5. MemoryIsWhole'
  <2>. SUFFICES ASSUME NEW q \in Runs, Given(q), press[q].instance \notin Serverless
                PROVE  /\ press[q].address \in DOMAIN lastGrantMsByAddress'[press[q].instance]
                       /\ press[q].answered
                            <= lastGrantMsByAddress'[press[q].instance][press[q].address]
    BY <1>0 DEF MemoryIsWhole, Given, Granted
  <2>1. press[q].instance \in Instances \ {i}
    BY <1>0 DEF FaucetInv, PressInv, Behind, Given, Admitted, Minted
  <2>. QED  BY <1>1, <2>1 DEF FaucetInv, MemoryIsWhole, Granted
<1>. QED  BY <1>2, <1>3, <1>4, <1>5 DEF FaucetInv

LEMMA MillisecondKeeps ==
    ASSUME FaucetInv, MillisecondsPass
    PROVE  FaucetInv'
<1>0. UNCHANGED <<lastGrantMsByAddress, press, trust, trusting, mint>>
  BY DEF MillisecondsPass
<1>1. dateNow \in Int /\ dateNow' = dateNow + 1 /\ dateNow' \in 0..LastMs
  BY FaucetAssumption DEF MillisecondsPass, FaucetInv, FaucetTypes
<1>2. FaucetTypes'
  BY <1>0, <1>1 DEF FaucetInv, FaucetTypes
<1>3. PressInv'
  <2>1. \A q \in Runs : Behind(q)'
    BY <1>0, <1>1, OthersKeep
  <2>. QED  BY <1>0, <2>1 DEF FaucetInv, PressInv
<1>4. MemoryIsTrue' /\ MemoryIsWhole' /\ RefusedOnlyAfterAGrant' /\ AdmittedInTurnAreSpaced'
  BY <1>0, CooldownKeeps DEF GivenStays, Given, FaucetInv, FaucetTypes
<1>. QED  BY <1>2, <1>3, <1>4 DEF FaucetInv

-----------------------------------------------------------------------------
LEMMA FaucetInvHolds == FaucetSpec => []FaucetInv
<1>1. FaucetInv /\ [FaucetNext]_faucetVars => FaucetInv'
  <2>. SUFFICES ASSUME FaucetInv, [FaucetNext]_faucetVars
                PROVE  FaucetInv'
    OBVIOUS
  <2>1. CASE UNCHANGED faucetVars
    BY <2>1 DEF faucetVars, FaucetInv, FaucetTypes, PressInv, Behind, MemoryIsTrue,
                MemoryIsWhole, RefusedOnlyAfterAGrant, AdmittedInTurnAreSpaced, Given, At,
                SameWallet, Granted
  <2>. QED  BY <2>1, PressKeeps, LookKeeps, TrustKeeps, LateTrustKeeps, ArriveKeeps, MintKeeps,
               LateMintKeeps, GrantKeeps, ColdStartKeeps, MillisecondKeeps DEF FaucetNext
<1>. QED  BY FaucetInitial, <1>1, PTL DEF FaucetSpec

\* Type correctness of the faucet, whatever wallets press it and however often.
THEOREM FaucetTypeCorrect == FaucetSpec => []FaucetTypeOK
<1>1. FaucetInv => FaucetTypeOK
  BY DEF FaucetInv, FaucetTypes, FaucetTypeOK, PressInv, Behind, Presses, StepNames, Tokens
<1>. QED  BY <1>1, FaucetInvHolds, PTL

\* components/layout/FaucetButton.tsx says "Added ... to your wallet" only when the
\* wallet trusts both tokens and both mints of that press have landed.
THEOREM DoneIsFunded == FaucetSpec => []DoneMeansFunded
<1>1. FaucetInv => DoneMeansFunded
  BY DEF FaucetInv, PressInv, Behind, DoneMeansFunded, Done, At, Tokens, Minted, Admitted,
         Trusting
<1>. QED  BY <1>1, FaucetInvHolds, PTL

\* The cooldown of faucet/src and web/api/faucet.ts refuses a wallet only after a
\* grant it was given, and a process that keeps its memory never grants twice
\* within it to requests that came in turn, for every cooldown.
THEOREM CooldownHolds == FaucetSpec => []CooldownIsExact
<1>1. FaucetInv => CooldownIsExact
  <2>1. AdmittedInTurnAreSpaced => GrantsInTurnAreSpaced
    BY DEF AdmittedInTurnAreSpaced, GrantsInTurnAreSpaced, Given, Admitted, Minted
  <2>. QED  BY <2>1 DEF FaucetInv, CooldownIsExact
<1>. QED  BY <1>1, FaucetInvHolds, PTL

-----------------------------------------------------------------------------
(* The room of an auction.                                                 *)

Views == [id : Auctions \cup {None}, tone : Tones, bids : 0..MaxBids]
Records == Winners \cup {None}
RoomPhases == {"loading", "ready", "error"}
Effects == {"off", "due", "waiting", "done"}

RoomTypes ==
    /\ chain \in [Auctions -> [tone : Tones, bids : 0..MaxBids, winner : Records]]
    /\ indexed \in [Auctions -> {"not_yet", "visible", "expired"}]
    /\ route \in Auctions \cup {None}
    /\ room \in [phase : RoomPhases, value : Views]
    /\ reads \in [Reads -> [st : {"none", "sent", "served"}, of : Auctions \cup {None},
                            value : Views]]
    /\ body \in [settling : Records, localSettlement : Records, effect : Effects,
                 infoPhase : {"loading", "ready"}, info : Records]
    /\ DOMAIN cache \subseteq Auctions /\ lookups \subseteq Auctions

\* A settlement has a winner and an event, and nothing else has.
ChainInv ==
    \A a \in Auctions : /\ (chain[a].winner \in Winners) <=> (chain[a].tone = "settled")
                        /\ indexed[a] # "not_yet" => chain[a].tone = "settled"

\* The room, and every poll it has under way, are of the auction of its route.
RouteInv ==
    /\ \A n \in Reads : reads[n] = NoRead \/ (reads[n].of = route /\ route # None)
    /\ \A n \in Reads : reads[n].st = "served" => reads[n].value.id = reads[n].of
    /\ IF Mounted THEN room.value.id = route /\ route # None
                  ELSE room.value = NoView /\ body = NoBody

\* What was cached, looked up or submitted is what the chain has.
RecordInv ==
    /\ \A a \in DOMAIN cache : cache[a] # None => chain[a].winner = cache[a]
    /\ \A w \in {body.settling, body.localSettlement, body.info} \ {None} :
          Mounted /\ chain[room.value.id].winner = w

RoomInv == RoomTypes /\ ChainInv /\ RouteInv /\ RecordInv

-----------------------------------------------------------------------------
LEMMA RoomInitial == RoomInit => RoomInv
  BY RoomAssumption
     DEF RoomInit, RoomInv, RoomTypes, ChainInv, RouteInv, RecordInv, Views, Records,
         RoomPhases, Effects, Tones, NoView, NoRead, NoBody, Mounted

\* A winner that was published stays, so that what is true of it stays true while
\* the room and its body are as they were.
LEMMA WinnersStay ==
    ASSUME RoomInv, UNCHANGED <<room, body, cache>>,
           \A a \in Auctions : chain[a].winner # None => chain'[a].winner = chain[a].winner
    PROVE  RecordInv'
<1>1. (room.value.id = route /\ route \in Auctions) \/ ~Mounted
  BY DEF RoomInv, RouteInv, RoomTypes
<1>2. \A a \in DOMAIN cache' : cache'[a] # None => chain'[a].winner = cache'[a]
  BY DEF RoomInv, RoomTypes, RecordInv
<1>3. ASSUME NEW w \in {body.settling, body.localSettlement, body.info} \ {None}
      PROVE  Mounted' /\ chain'[room'.value.id].winner = w
  <2>1. Mounted /\ chain[room.value.id].winner = w /\ w # None
    BY <1>3 DEF RoomInv, RecordInv
  <2>. QED  BY <1>1, <2>1 DEF Mounted
<1>. QED  BY <1>2, <1>3 DEF RecordInv

\* The chain moves on.
LEMMA ChainMovesKeeps ==
    ASSUME RoomInv, NEW a \in Auctions, ChainMoves(a)
    PROVE  RoomInv'
<1>0. UNCHANGED <<indexed, route, room, reads, body, cache, lookups>>
  BY DEF ChainMoves
<1>1. /\ chain[a].tone # "settled" /\ chain[a].winner = None
  BY DEF ChainMoves, RoomInv, RoomTypes, ChainInv, Records, Tones
<1>2. PICK c \in [tone : Tones, bids : 0..MaxBids, winner : Records] :
        /\ chain' = [chain EXCEPT ![a] = c]
        /\ c.winner \in Winners <=> c.tone = "settled"
  <2>0. chain[a] \in [tone : Tones, bids : 0..MaxBids, winner : Records]
    BY DEF RoomInv, RoomTypes
  <2>1. CASE chain[a].bids < MaxBids /\ chain' = [chain EXCEPT ![a].bids = @ + 1]
    <3>1. [chain[a] EXCEPT !.bids = @ + 1]
             \in [tone : Tones, bids : 0..MaxBids, winner : Records]
      BY <2>0, <2>1, RoomAssumption
    <3>2. chain' = [chain EXCEPT ![a] = [chain[a] EXCEPT !.bids = @ + 1]]
      BY <2>1
    <3>. QED  BY <3>1, <3>2, <2>0, <1>1, RoomAssumption
  <2>2. ASSUME NEW tone \in Tones, NEW w \in Records, SetTone(a, tone, w),
               w \in Winners <=> tone = "settled"
        PROVE  \E c \in [tone : Tones, bids : 0..MaxBids, winner : Records] :
                  /\ chain' = [chain EXCEPT ![a] = c]
                  /\ c.winner \in Winners <=> c.tone = "settled"
    <3>1. [chain[a] EXCEPT !.tone = tone, !.winner = w]
             \in [tone : Tones, bids : 0..MaxBids, winner : Records]
      BY <2>0
    <3>2. chain' = [chain EXCEPT ![a] = [chain[a] EXCEPT !.tone = tone, !.winner = w]]
      BY <2>2 DEF SetTone
    <3>3. /\ [chain[a] EXCEPT !.tone = tone, !.winner = w].tone = tone
          /\ [chain[a] EXCEPT !.tone = tone, !.winner = w].winner = w
      BY <2>0
    <3>. QED  BY <3>1, <3>2, <3>3, <2>2
  <2>3. CASE SetTone(a, "awaiting", None) \/ SetTone(a, "refunded", None)
             \/ \E w \in Winners : SetTone(a, "settled", w)
    BY <2>2, <2>3, RoomAssumption DEF Tones, Records
  <2>. QED  BY <2>1, <2>3 DEF ChainMoves
<1>3. /\ chain' \in [Auctions -> [tone : Tones, bids : 0..MaxBids, winner : Records]]
      /\ chain'[a] = c /\ \A b \in Auctions \ {a} : chain'[b] = chain[b]
  BY <1>2 DEF RoomInv, RoomTypes
<1>4. RoomTypes' /\ RouteInv'
  BY <1>0, <1>3 DEF RoomInv, RoomTypes, RouteInv, Mounted
<1>5. ChainInv'
  BY <1>0, <1>1, <1>2, <1>3 DEF RoomInv, ChainInv
<1>6. RecordInv'
  BY <1>0, <1>1, <1>3, WinnersStay
<1>. QED  BY <1>4, <1>5, <1>6 DEF RoomInv

LEMMA IndexMovesKeeps ==
    ASSUME RoomInv, NEW a \in Auctions, IndexMoves(a)
    PROVE  RoomInv'
<1>0. UNCHANGED <<chain, route, room, reads, body, cache, lookups>>
  BY DEF IndexMoves
<1>1. /\ indexed' \in [Auctions -> {"not_yet", "visible", "expired"}]
      /\ \A b \in Auctions : indexed'[b] # "not_yet" => chain[b].tone = "settled"
  BY DEF IndexMoves, RoomInv, RoomTypes, ChainInv
<1>2. RoomTypes' /\ RouteInv'
  BY <1>0, <1>1 DEF RoomInv, RoomTypes, RouteInv, Mounted
<1>3. ChainInv'
  BY <1>0, <1>1 DEF RoomInv, ChainInv
<1>4. RecordInv'
  BY <1>0, WinnersStay
<1>. QED  BY <1>2, <1>3, <1>4 DEF RoomInv

\* A poll is sent or served.
LEMMA ReadKeeps ==
    ASSUME RoomInv, UNCHANGED <<chain, indexed, route, room, body, cache, lookups>>,
           NEW n \in Reads,
           NEW d \in [st : {"none", "sent", "served"}, of : Auctions \cup {None}, value : Views],
           reads' = [reads EXCEPT ![n] = d],
           d = NoRead \/ (d.of = route /\ route # None),
           d.st = "served" => d.value.id = d.of
    PROVE  RoomInv'
<1>1. /\ reads' \in [Reads -> [st : {"none", "sent", "served"}, of : Auctions \cup {None},
                               value : Views]]
      /\ reads'[n] = d /\ \A m \in Reads \ {n} : reads'[m] = reads[m]
  BY DEF RoomInv, RoomTypes
<1>2. RoomTypes' /\ ChainInv'
  BY <1>1 DEF RoomInv, RoomTypes, ChainInv
<1>3. RouteInv'
  BY <1>1 DEF RoomInv, RouteInv, Mounted
<1>4. RecordInv'
  BY WinnersStay
<1>. QED  BY <1>2, <1>3, <1>4 DEF RoomInv

LEMMA SentRead ==
    ASSUME RoomInv, route # None
    PROVE  LET d == [st |-> "sent", of |-> route, value |-> NoView] IN
           /\ d \in [st : {"none", "sent", "served"}, of : Auctions \cup {None}, value : Views]
           /\ d.of = route /\ d.st # "served"
  BY RoomAssumption DEF RoomInv, RoomTypes, Views, NoView, Tones

LEMMA FetchOnceKeeps ==
    ASSUME RoomInv, NEW n \in Reads, FetchOnce(n)
    PROVE  RoomInv'
  BY SentRead, ReadKeeps DEF FetchOnce, Send, chainVars

LEMMA ServeKeeps ==
    ASSUME RoomInv, NEW n \in Reads, Serve(n)
    PROVE  RoomInv'
<1> DEFINE d == [reads[n] EXCEPT !.st = "served", !.value = View(reads[n].of)]
<1>1. reads[n].of = route /\ route \in Auctions
  BY DEF Serve, RoomInv, RouteInv, RoomTypes, NoRead
<1>2. View(reads[n].of) \in Views /\ View(reads[n].of).id = reads[n].of
  BY <1>1 DEF View, Views, RoomInv, RoomTypes
<1>3. /\ d \in [st : {"none", "sent", "served"}, of : Auctions \cup {None}, value : Views]
      /\ d.of = route /\ d.value.id = d.of
  BY <1>1, <1>2 DEF RoomInv, RoomTypes
<1>4. reads' = [reads EXCEPT ![n] = d]
  BY DEF Serve
<1>5. UNCHANGED <<chain, indexed, route, room, body, cache, lookups>> /\ route # None
  BY <1>1, RoomAssumption DEF Serve, chainVars
<1>. HIDE DEF d
<1>. QED  BY <1>1, <1>3, <1>4, <1>5, ReadKeeps

\* Out of an error the skeleton shows; nothing was mounted.
LEMMA RefreshKeeps ==
    ASSUME RoomInv, NEW n \in Reads, refreshNow(n)
    PROVE  RoomInv'
<1>0. /\ UNCHANGED <<chain, indexed, route, body, cache, lookups>>
      /\ room' = [phase |-> "loading", value |-> NoView] /\ route # None
      /\ ~Mounted /\ ~Mounted'
      /\ reads' = [reads EXCEPT ![n] = [st |-> "sent", of |-> route, value |-> NoView]]
  BY DEF refreshNow, chainVars, Mounted, Send
<1>1. /\ reads' \in [Reads -> [st : {"none", "sent", "served"}, of : Auctions \cup {None},
                               value : Views]]
      /\ reads'[n] = [st |-> "sent", of |-> route, value |-> NoView]
      /\ \A m \in Reads \ {n} : reads'[m] = reads[m]
  BY <1>0, SentRead DEF RoomInv, RoomTypes
<1>2. RoomTypes' /\ ChainInv'
  <2>1. NoView \in Views
    BY RoomAssumption DEF NoView, Views, Tones
  <2>. QED  BY <1>0, <1>1, <2>1 DEF RoomInv, RoomTypes, ChainInv, RoomPhases
<1>3. RouteInv'
  BY <1>0, <1>1 DEF RoomInv, RouteInv
<1>4. RecordInv'
  BY <1>0 DEF RoomInv, RecordInv
<1>. QED  BY <1>2, <1>3, <1>4 DEF RoomInv

LEMMA NoBodyFacts ==
    /\ NoBody \in [settling : Records, localSettlement : Records, effect : Effects,
                   infoPhase : {"loading", "ready"}, info : Records]
    /\ NoBody.settling = None /\ NoBody.localSettlement = None /\ NoBody.info = None
    /\ NoView \in Views
    /\ NoRead \in [st : {"none", "sent", "served"}, of : Auctions \cup {None}, value : Views]
  BY RoomAssumption DEF NoBody, Records, Effects, NoView, NoRead, Views, Tones

\* An answer of the room's own auction, newer or older than what is shown.
LEMMA AnswerKeeps ==
    ASSUME RoomInv, NEW n \in Reads, Answer(n)
    PROVE  RoomInv'
<1> DEFINE b == IF Mounted THEN body ELSE NoBody
           e == EffectAfter(b, reads[n].value)
<1>0. /\ UNCHANGED <<chain, indexed, route, cache, lookups>>
      /\ room' = [phase |-> "ready", value |-> reads[n].value]
      /\ body' = [b EXCEPT !.effect = e]
      /\ reads' = [reads EXCEPT ![n] = NoRead]
      /\ reads[n].st = "served"
  BY DEF Answer, chainVars
<1>1. reads[n].value \in Views /\ reads[n].value.id = route /\ route # None
  BY <1>0 DEF RoomInv, RoomTypes, RouteInv, NoRead
<1>2. b = body /\ b \in [settling : Records, localSettlement : Records, effect : Effects,
                         infoPhase : {"loading", "ready"}, info : Records]
  BY NoBodyFacts DEF RoomInv, RoomTypes, RouteInv
<1>3. e \in Effects
  <2>. HIDE DEF b
  <2>. QED  BY <1>2 DEF e, EffectAfter, Effects
<1>4. /\ body' \in [settling : Records, localSettlement : Records, effect : Effects,
                    infoPhase : {"loading", "ready"}, info : Records]
      /\ body'.settling = body.settling /\ body'.localSettlement = body.localSettlement
      /\ body'.info = body.info
  <2>. HIDE DEF b, e
  <2>. QED  BY <1>0, <1>2, <1>3
<1>5. Mounted' /\ room'.value.id = route
  BY <1>0, <1>1 DEF Mounted
<1>6. RoomTypes' /\ ChainInv'
  <2>1. reads' \in [Reads -> [st : {"none", "sent", "served"}, of : Auctions \cup {None},
                              value : Views]]
    BY <1>0, NoBodyFacts DEF RoomInv, RoomTypes
  <2>2. room' \in [phase : RoomPhases, value : Views]
    BY <1>0, <1>1 DEF RoomPhases
  <2>. QED  BY <1>0, <1>4, <2>1, <2>2 DEF RoomInv, RoomTypes, ChainInv
<1>7. RouteInv'
  <2>1. \A m \in Reads : reads'[m] = NoRead \/ reads'[m] = reads[m]
    BY <1>0 DEF RoomInv, RoomTypes
  <2>. QED  BY <1>0, <1>1, <1>5, <2>1 DEF RoomInv, RouteInv, NoRead
<1>8. RecordInv'
  <2>1. ASSUME NEW w \in {body.settling, body.localSettlement, body.info} \ {None}
        PROVE  chain[room'.value.id].winner = w
    <3>1. Mounted /\ chain[room.value.id].winner = w
      BY <2>1 DEF RoomInv, RecordInv
    <3>. QED  BY <3>1, <1>5 DEF RoomInv, RouteInv
  <2>. QED  BY <1>0, <1>4, <1>5, <2>1 DEF RoomInv, RecordInv
<1>. QED  BY <1>6, <1>7, <1>8 DEF RoomInv

LEMMA FailKeeps ==
    ASSUME RoomInv, NEW n \in Reads, Fail(n)
    PROVE  RoomInv'
<1>0. /\ UNCHANGED <<chain, indexed, route, cache, lookups>>
      /\ room' = [phase |-> "error", value |-> NoView] /\ body' = NoBody
      /\ reads' = [reads EXCEPT ![n] = NoRead]
  BY DEF Fail, chainVars
<1>1. RoomTypes' /\ ChainInv'
  BY <1>0, NoBodyFacts DEF RoomInv, RoomTypes, ChainInv, RoomPhases
<1>2. RouteInv'
  <2>1. \A m \in Reads : reads'[m] = NoRead \/ reads'[m] = reads[m]
    BY <1>0 DEF RoomInv, RoomTypes
  <2>. QED  BY <1>0, <2>1 DEF RoomInv, RouteInv, NoRead, Mounted
<1>3. RecordInv'
  BY <1>0, NoBodyFacts DEF RoomInv, RecordInv
<1>. QED  BY <1>1, <1>2, <1>3 DEF RoomInv

\* The look-up of the shown auction, from the cache or from the event service.
LEMMA StartLookupKeeps ==
    ASSUME RoomInv, StartLookup
    PROVE  RoomInv'
<1>0. /\ UNCHANGED <<chain, indexed, route, room, reads, cache>> /\ Mounted
  BY DEF StartLookup, chainVars
<1>1. room.value.id = route /\ route \in Auctions
  BY <1>0 DEF RoomInv, RouteInv, RoomTypes
<1>2. /\ body' \in [settling : Records, localSettlement : Records, effect : Effects,
                    infoPhase : {"loading", "ready"}, info : Records]
      /\ body'.settling = body.settling /\ body'.localSettlement = body.localSettlement
      /\ body'.info # None => chain[route].winner = body'.info
      /\ lookups' \subseteq Auctions
  <2>0. body.info # None => chain[route].winner = body.info
    BY <1>1 DEF RoomInv, RecordInv
  <2>1. CASE cached(route)
    <3>1. body' = [body EXCEPT !.effect = "done", !.infoPhase = "ready", !.info = cache[route]]
          /\ lookups' = lookups
      BY <1>1, <2>1 DEF StartLookup
    <3>2. cache[route] # None => chain[route].winner = cache[route]
      BY <2>1 DEF RoomInv, RecordInv, cached
    <3>3. chain[route].winner \in Records
      BY <1>1 DEF RoomInv, RoomTypes
    <3>4. cache[route] \in Records
      BY <3>2, <3>3 DEF Records
    <3>. QED  BY <3>1, <3>2, <3>4 DEF RoomInv, RoomTypes, Effects
  <2>2. CASE ~cached(route)
    <3>1. body' = [body EXCEPT !.effect = "waiting"] /\ lookups' = lookups \cup {route}
      BY <1>1, <2>2 DEF StartLookup
    <3>. QED  BY <3>1, <1>1, <2>0 DEF RoomInv, RoomTypes, Effects
  <2>. QED  BY <2>1, <2>2
<1>3. RoomTypes' /\ ChainInv'
  BY <1>0, <1>2 DEF RoomInv, RoomTypes, ChainInv
<1>4. RouteInv'
  BY <1>0 DEF RoomInv, RouteInv, Mounted
<1>5. RecordInv'
  BY <1>0, <1>1, <1>2 DEF RoomInv, RecordInv, Mounted
<1>. QED  BY <1>3, <1>4, <1>5 DEF RoomInv

\* What a look-up may find is the winner of the auction it asks for.
LEMMA FoundIsTrue ==
    ASSUME RoomInv, NEW a \in Auctions, NEW w \in SettledEvents(a)
    PROVE  w = chain[a].winner
  BY DEF SettledEvents

LEMMA LookupKeeps ==
    ASSUME RoomInv, NEW a \in Auctions, getSettlementInfo(a)
    PROVE  RoomInv'
<1>0. /\ UNCHANGED <<chain, indexed, route, room, reads>> /\ lookups' = lookups \ {a}
  BY DEF getSettlementInfo, chainVars
<1>1. PICK w \in {None, chain[a].winner} :
        Informed(a, w) /\ (cache' = cache \/ Remember(a, w))
  BY FoundIsTrue DEF getSettlementInfo
<1>2. w \in Records
  BY <1>1 DEF RoomInv, RoomTypes, Records
<1>3. /\ body' \in [settling : Records, localSettlement : Records, effect : Effects,
                    infoPhase : {"loading", "ready"}, info : Records]
      /\ body'.settling = body.settling /\ body'.localSettlement = body.localSettlement
      /\ (body'.info = body.info) \/ (Mounted /\ room.value.id = a /\ body'.info = w)
      /\ ~Mounted => body' = body
  BY <1>1, <1>2 DEF Informed, RoomInv, RoomTypes, Effects
<1>4. /\ DOMAIN cache' \subseteq Auctions
      /\ \A x \in DOMAIN cache' : cache'[x] # None => chain[x].winner = cache'[x]
  <2>1. CASE cache' = cache
    BY <2>1 DEF RoomInv, RoomTypes, RecordInv
  <2>2. CASE Remember(a, w)
    BY <2>2, <1>1 DEF Remember, RoomInv, RoomTypes, RecordInv
  <2>. QED  BY <1>1, <2>1, <2>2
<1>5. RoomTypes' /\ ChainInv'
  BY <1>0, <1>3, <1>4 DEF RoomInv, RoomTypes, ChainInv
<1>6. RouteInv'
  BY <1>0, <1>3 DEF RoomInv, RouteInv, Mounted
<1>7. RecordInv'
  <2>1. \A v \in {body.settling, body.localSettlement, body.info} \ {None} :
          Mounted /\ chain[room.value.id].winner = v
    BY DEF RoomInv, RecordInv
  <2>2. body'.info # None => Mounted /\ chain[room.value.id].winner = body'.info
    BY <2>1, <1>1, <1>3
  <2>. QED  BY <1>0, <1>3, <1>4, <2>1, <2>2 DEF RecordInv, Mounted
<1>. QED  BY <1>5, <1>6, <1>7 DEF RoomInv

\* A settlement from this room publishes what the body then holds.
LEMMA StartSettleKeeps ==
    ASSUME RoomInv, StartSettle
    PROVE  RoomInv'
<1>0. /\ UNCHANGED <<indexed, route, room, reads, cache, lookups>> /\ Mounted
  BY DEF StartSettle
<1>1. room.value.id = route /\ route \in Auctions
  BY <1>0 DEF RoomInv, RouteInv, RoomTypes
<1>2. PICK w \in Winners : /\ chain[route].tone = "awaiting"
                           /\ SetTone(route, "settled", w)
                           /\ body' = [body EXCEPT !.settling = w]
  BY <1>1 DEF StartSettle
<1>3. chain[route].winner = None
  BY <1>1, <1>2 DEF RoomInv, RoomTypes, ChainInv, Records
<1>4. /\ chain' \in [Auctions -> [tone : Tones, bids : 0..MaxBids, winner : Records]]
      /\ chain'[route].tone = "settled" /\ chain'[route].winner = w
      /\ \A b \in Auctions \ {route} : chain'[b] = chain[b]
  <2>0. chain[route] \in [tone : Tones, bids : 0..MaxBids, winner : Records]
    BY <1>1 DEF RoomInv, RoomTypes
  <2>1. [chain[route] EXCEPT !.tone = "settled", !.winner = w]
           \in [tone : Tones, bids : 0..MaxBids, winner : Records]
    BY <2>0 DEF Tones, Records
  <2>2. chain' = [chain EXCEPT ![route] = [chain[route] EXCEPT !.tone = "settled", !.winner = w]]
    BY <1>2 DEF SetTone
  <2>3. /\ [chain[route] EXCEPT !.tone = "settled", !.winner = w].tone = "settled"
        /\ [chain[route] EXCEPT !.tone = "settled", !.winner = w].winner = w
    BY <2>0
  <2>. QED  BY <1>1, <2>1, <2>2, <2>3 DEF RoomInv, RoomTypes
<1>5. /\ body' \in [settling : Records, localSettlement : Records, effect : Effects,
                    infoPhase : {"loading", "ready"}, info : Records]
      /\ body'.settling = w /\ body'.localSettlement = body.localSettlement
      /\ body'.info = body.info
  BY <1>2 DEF RoomInv, RoomTypes, Records
<1>6. RoomTypes' /\ ChainInv' /\ RouteInv'
  BY <1>0, <1>4, <1>5 DEF RoomInv, RoomTypes, ChainInv, RouteInv, Mounted
<1>7. body.localSettlement = None /\ body.info = None
  BY <1>1, <1>3 DEF RoomInv, RecordInv
<1>8. RecordInv'
  <2>1. \A a \in DOMAIN cache' : cache'[a] # None => chain'[a].winner = cache'[a]
    BY <1>0, <1>3, <1>4 DEF RoomInv, RoomTypes, RecordInv
  <2>. QED  BY <1>0, <1>1, <1>4, <1>5, <1>7, <2>1 DEF RecordInv, Mounted
<1>. QED  BY <1>6, <1>8 DEF RoomInv

LEMMA SettledKeeps ==
    ASSUME RoomInv, handleSettled
    PROVE  RoomInv'
<1>0. /\ UNCHANGED <<chain, indexed, route, room, cache, lookups>> /\ Mounted
      /\ body' = [body EXCEPT !.localSettlement = body.settling, !.settling = None]
  BY DEF handleSettled, chainVars
<1>1. room.value.id = route /\ route \in Auctions /\ route # None
  BY <1>0 DEF RoomInv, RouteInv, RoomTypes
<1>2. /\ reads' \in [Reads -> [st : {"none", "sent", "served"}, of : Auctions \cup {None},
                               value : Views]]
      /\ \A m \in Reads : \/ reads'[m] = reads[m]
                          \/ reads'[m].of = route /\ reads'[m].st = "sent"
  <2>1. CASE UNCHANGED reads
    BY <2>1 DEF RoomInv, RoomTypes
  <2>2. ASSUME NEW n \in Reads, Send(n)
        PROVE  /\ reads' \in [Reads -> [st : {"none", "sent", "served"},
                                        of : Auctions \cup {None}, value : Views]]
               /\ \A m \in Reads : \/ reads'[m] = reads[m]
                                   \/ reads'[m].of = route /\ reads'[m].st = "sent"
    BY <2>2, <1>1, SentRead DEF Send, RoomInv, RoomTypes
  <2>. QED  BY <2>1, <2>2 DEF handleSettled, Refetch
<1>3. /\ body' \in [settling : Records, localSettlement : Records, effect : Effects,
                    infoPhase : {"loading", "ready"}, info : Records]
      /\ body'.settling = None /\ body'.localSettlement = body.settling
      /\ body'.info = body.info
  BY <1>0 DEF RoomInv, RoomTypes, Records
<1>4. RoomTypes' /\ ChainInv'
  BY <1>0, <1>2, <1>3 DEF RoomInv, RoomTypes, ChainInv
<1>5. RouteInv'
  BY <1>0, <1>1, <1>2 DEF RoomInv, RouteInv, Mounted
<1>6. RecordInv'
  BY <1>0, <1>3 DEF RoomInv, RecordInv, Mounted
<1>. QED  BY <1>4, <1>5, <1>6 DEF RoomInv

\* Entering a room and leaving it mount everything anew.
LEMMA EnterKeeps ==
    ASSUME RoomInv, NEW a \in Auctions, Enter(a)
    PROVE  RoomInv'
<1>0. /\ UNCHANGED <<chain, indexed, reads, body, cache, lookups>>
      /\ route = None /\ route' = a /\ room' = [phase |-> "loading", value |-> NoView]
  BY DEF Enter, chainVars
<1>1. ~Mounted /\ body = NoBody /\ \A n \in Reads : reads[n] = NoRead
  BY <1>0 DEF RoomInv, RouteInv
<1>2. RoomTypes' /\ ChainInv'
  BY <1>0, NoBodyFacts DEF RoomInv, RoomTypes, ChainInv, RoomPhases
<1>3. RouteInv'
  BY <1>0, <1>1 DEF RouteInv, NoRead, Mounted
<1>4. RecordInv'
  BY <1>0, <1>1, NoBodyFacts DEF RoomInv, RecordInv
<1>. QED  BY <1>2, <1>3, <1>4 DEF RoomInv

LEMMA LeaveKeeps ==
    ASSUME RoomInv, Leave
    PROVE  RoomInv'
<1>0. /\ UNCHANGED <<chain, indexed, cache, lookups>>
      /\ route' = None /\ room' = [phase |-> "loading", value |-> NoView] /\ body' = NoBody
      /\ reads' = [n \in Reads |-> NoRead]
  BY DEF Leave, chainVars
<1>1. RoomTypes' /\ ChainInv'
  BY <1>0, NoBodyFacts DEF RoomInv, RoomTypes, ChainInv, RoomPhases
<1>2. RouteInv'
  BY <1>0 DEF RouteInv, NoRead, Mounted
<1>3. RecordInv'
  BY <1>0, NoBodyFacts DEF RoomInv, RecordInv
<1>. QED  BY <1>1, <1>2, <1>3 DEF RoomInv

-----------------------------------------------------------------------------
LEMMA RoomInvHolds ==
    ASSUME ~InPlace
    PROVE  RoomSpec => []RoomInv
<1>1. RoomInv /\ [RoomNext]_roomVars => RoomInv'
  <2>. SUFFICES ASSUME RoomInv, [RoomNext]_roomVars
                PROVE  RoomInv'
    OBVIOUS
  <2>1. CASE UNCHANGED roomVars
    BY <2>1 DEF roomVars, RoomInv, RoomTypes, ChainInv, RouteInv, RecordInv, Mounted
  <2>2. \A a \in Auctions : ~Navigate(a)
    BY DEF Navigate
  <2>. QED  BY <2>1, <2>2, ChainMovesKeeps, IndexMovesKeeps, LookupKeeps, EnterKeeps,
               FetchOnceKeeps, RefreshKeeps, ServeKeeps, AnswerKeeps, FailKeeps,
               StartLookupKeeps, StartSettleKeeps, SettledKeeps, LeaveKeeps DEF RoomNext
<1>. QED  BY RoomInitial, <1>1, PTL DEF RoomSpec

\* Type correctness of the room, whatever is polled, cached and looked up in it.
THEOREM RoomTypeCorrect ==
    ASSUME ~InPlace
    PROVE  RoomSpec => []RoomTypeOK
<1>1. RoomInv => RoomTypeOK
  <2>. SUFFICES ASSUME RoomInv PROVE RoomTypeOK
    OBVIOUS
  <2>1. \A a \in Auctions :
          /\ chain[a].tone \in Tones /\ chain[a].bids \in 0..MaxBids
          /\ (chain[a].winner \in Winners) <=> (chain[a].tone = "settled")
          /\ indexed[a] # "not_yet" => chain[a].tone = "settled"
    BY DEF RoomInv, RoomTypes, ChainInv
  <2>2. /\ Mounted <=> room.value # NoView
        /\ ~Mounted => body = NoBody
    BY DEF RoomInv, RouteInv, NoView
  <2>3. route = None => \A n \in Reads : reads[n] = NoRead
    BY DEF RoomInv, RouteInv
  <2>4. /\ route \in Auctions \cup {None}
        /\ room.phase \in {"loading", "ready", "error"}
        /\ DOMAIN cache \subseteq Auctions /\ lookups \subseteq Auctions
    BY DEF RoomInv, RoomTypes, RoomPhases
  <2>. QED  BY <2>1, <2>2, <2>3, <2>4 DEF RoomTypeOK
<1>. QED  BY <1>1, RoomInvHolds, PTL

\* routes/AuctionRoomRoute.tsx shows the winner and the price the chain settled its
\* own auction with, wherever it has them from and whatever was cached, answered
\* late or cancelled before, as long as the route is not changed in place.
THEOREM RoomShowsItsAuction ==
    ASSUME ~InPlace
    PROVE  RoomSpec => []SummaryIsOfThisAuction
<1>1. RoomInv => SummaryIsOfThisAuction
  BY DEF RoomInv, RecordInv, SummaryIsOfThisAuction, winnerAddress
<1>. QED  BY <1>1, RoomInvHolds, PTL
=============================================================================
