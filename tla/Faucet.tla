------------------------------- MODULE Faucet -------------------------------
(***************************************************************************)
(* Test tokens for a wallet: the button components/layout/FaucetButton.tsx *)
(* and web/src/lib/faucet.ts, and the service that mints, as a serverless  *)
(* function (web/api/faucet.ts) and as the standalone process it replaces  *)
(* (faucet/src): the two follow the same steps.                            *)
(*                                                                         *)
(* A run is one press of the button.  Closing and opening the dialog       *)
(* resets it while a run is still out, so runs of one wallet may overlap.  *)
(***************************************************************************)
EXTENDS Integers

CONSTANTS
    Runs,                   \* presses of the button
    Wallets,                \* wallets
    Instances,              \* processes serving the faucet; they share no memory
    Serverless,             \* those that may be started afresh between two requests
    COOLDOWN_MS,
    LastMs,                 \* bound: the last tick
    Nobody

ASSUME FaucetAssumption == COOLDOWN_MS \in Nat /\ LastMs \in Nat

Tokens == {"tUSDC", "tBENJI"}

VARIABLES
    dateNow,
    lastGrantMsByAddress,   \* per process: address -> the time of its last grant
    press,                  \* per press: the wallet, the process, the step it is at, its times
    trust,                  \* address -> the tokens it trusts
    trusting,               \* presses whose trustline transaction may still apply
    mint                    \* per press and token: what became of the mint

faucetVars == <<dateNow, lastGrantMsByAddress, press, trust, trusting, mint>>

Step(r, step) == press' = [press EXCEPT ![r].step = step]
At(r, step) == press[r].step = step
Respond(r, step) == press' = [press EXCEPT ![r].step = step, ![r].answered = dateNow]

-----------------------------------------------------------------------------
(* The browser.                                                            *)

demoAssets == Tokens
findMissingTrustlines(a) == demoAssets \ trust[a]

handleAddTestTokens(r) ==
    /\ At(r, "idle")
    /\ \E a \in Wallets :
          press' = [press EXCEPT ![r].address = a, ![r].step = "looking"]
    /\ UNCHANGED <<dateNow, lastGrantMsByAddress, trust, trusting, mint>>

\* Horizon lists the trustlines, or the account is unfunded, or out of reach.
Look(r) ==
    /\ At(r, "looking")
    /\ \/ findMissingTrustlines(press[r].address) = {} /\ Step(r, "asking")
       \/ findMissingTrustlines(press[r].address) # {} /\ Step(r, "signing")
       \/ Step(r, "error")
    /\ UNCHANGED <<dateNow, lastGrantMsByAddress, trust, trusting, mint>>

\* Declined, or signed and submitted.  Horizon answers that the transaction
\* applied, or fails: the transaction may still apply later.
establishTrustlines(r) ==
    /\ At(r, "signing")
    /\ \/ /\ trust' = [trust EXCEPT ![press[r].address] = Tokens]
          /\ Step(r, "asking")
          /\ UNCHANGED trusting
       \/ /\ trusting' \in {trusting, trusting \cup {r}}
          /\ Step(r, "error")
          /\ UNCHANGED trust
    /\ UNCHANGED <<dateNow, lastGrantMsByAddress, mint>>

LateTrustline(r) ==
    /\ r \in trusting
    /\ trusting' = trusting \ {r}
    /\ trust' \in {trust, [trust EXCEPT ![press[r].address] = Tokens]}
    /\ UNCHANGED <<dateNow, lastGrantMsByAddress, press, mint>>

-----------------------------------------------------------------------------
(* The service.                                                            *)

Granted(i, a) == a \in DOMAIN lastGrantMsByAddress[i]
cooldownRemainingMs(i, a) ==
    IF ~Granted(i, a) \/ dateNow - lastGrantMsByAddress[i][a] >= COOLDOWN_MS THEN 0
    ELSE COOLDOWN_MS - (dateNow - lastGrantMsByAddress[i][a])

Record(i, a) ==
    [lastGrantMsByAddress EXCEPT ![i] =
        [x \in DOMAIN @ \cup {a} |-> IF x = a THEN dateNow ELSE @[x]]]

\* callFaucetService: one of the processes takes the request, refuses it during
\* the cooldown, or starts to mint; the request may also not get through.
Arrive(r) ==
    /\ At(r, "asking")
    /\ \/ \E i \in Instances :
          LET refused == cooldownRemainingMs(i, press[r].address) > 0 IN
          press' = [press EXCEPT ![r].instance = i, ![r].arrived = dateNow, ![r].answered = dateNow,
                             ![r].step = IF refused THEN "rate_limited" ELSE "tUSDC"]
       \/ Step(r, "error")
    /\ UNCHANGED <<dateNow, lastGrantMsByAddress, trust, trusting, mint>>

\* The loop of plannedGrants: the step of a press that mints is the token.
NextStepFaulty(token) == IF token = "tUSDC" THEN "tBENJI" ELSE "undefined"
NextStep(token) == IF token = "tUSDC" THEN "tBENJI" ELSE "minted"

\* mintToken: the simulation needs the trustline; a transaction that was sent is
\* seen to succeed, seen to fail, or not seen before the service gives up.
mintTokenFaulty(r, token) ==
    /\ At(r, token)
    /\ \/ /\ token \in trust[press[r].address]
          /\ mint' = [mint EXCEPT ![r][token] = "landed"]
          /\ Step(r, NextStep(token))
       \/ /\ mint' \in {mint, [mint EXCEPT ![r][token] = "sent"]}
          /\ Step(r, NextStep(token))
    /\ UNCHANGED <<dateNow, lastGrantMsByAddress, trust, trusting>>
mintToken(r, token) ==
    /\ At(r, token)
    /\ \/ /\ token \in trust[press[r].address]
          /\ mint' = [mint EXCEPT ![r][token] = "landed"]
          /\ Step(r, NextStep(token))
       \/ /\ token \in trust[press[r].address]
          /\ mint' = [mint EXCEPT ![r][token] = "sent"]
          /\ Respond(r, "error")
       \/ /\ Respond(r, "error")
          /\ UNCHANGED mint
    /\ UNCHANGED <<dateNow, lastGrantMsByAddress, trust, trusting>>

LateMint(r, token) ==
    /\ mint[r][token] = "sent"
    /\ mint' \in {[mint EXCEPT ![r][token] = "landed"], [mint EXCEPT ![r][token] = "no"]}
    /\ UNCHANGED <<dateNow, lastGrantMsByAddress, press, trust, trusting>>

\* The grant is recorded once both mints went through, in the step that answers;
\* the answer may get lost, and the browser then shows an error.
GrantFaulty(r) ==
    /\ At(r, "minted")
    /\ Respond(r, "done") \/ Respond(r, "unheard")
    /\ UNCHANGED <<dateNow, lastGrantMsByAddress, trust, trusting, mint>>
Grant(r) ==
    /\ At(r, "minted")
    /\ lastGrantMsByAddress' = Record(press[r].instance, press[r].address)
    /\ Respond(r, "done") \/ Respond(r, "unheard")
    /\ UNCHANGED <<dateNow, trust, trusting, mint>>

\* A serverless process starts with an empty map.
ColdStart(i) ==
    /\ i \in Serverless
    /\ \A r \in Runs : press[r].instance = i => ~ press[r].step \in Tokens \cup {"minted"}
    /\ lastGrantMsByAddress' = [lastGrantMsByAddress EXCEPT ![i] = [x \in {} |-> 0]]
    /\ UNCHANGED <<dateNow, press, trust, trusting, mint>>

MillisecondsPass ==
    /\ dateNow < LastMs
    /\ dateNow' = dateNow + 1
    /\ UNCHANGED <<lastGrantMsByAddress, press, trust, trusting, mint>>

-----------------------------------------------------------------------------
FaucetInit ==
    /\ dateNow = 0
    /\ lastGrantMsByAddress = [i \in Instances |-> [x \in {} |-> 0]]
    /\ press = [r \in Runs |-> [address |-> Nobody, instance |-> Nobody, step |-> "idle",
                              arrived |-> 0, answered |-> 0]]
    /\ trust \in [Wallets -> SUBSET Tokens]
    /\ trusting = {}
    /\ mint = [r \in Runs |-> [token \in Tokens |-> "no"]]

FaucetNext ==
    \/ \E r \in Runs :
          \/ handleAddTestTokens(r) \/ Look(r) \/ establishTrustlines(r) \/ LateTrustline(r)
          \/ Arrive(r) \/ Grant(r)
          \/ \E token \in Tokens : mintToken(r, token) \/ LateMint(r, token)
    \/ \E i \in Instances : ColdStart(i)
    \/ MillisecondsPass

FaucetSpec == FaucetInit /\ [][FaucetNext]_faucetVars

-----------------------------------------------------------------------------
(* Properties.                                                             *)

FaucetTypeOK ==
    /\ dateNow \in 0..LastMs
    /\ \A i \in Instances : DOMAIN lastGrantMsByAddress[i] \subseteq Wallets
    /\ \A r \in Runs :
          /\ press[r].address \in Wallets \cup {Nobody}
          /\ press[r].instance \in Instances \cup {Nobody}
          /\ press[r].step \in {"idle", "looking", "signing", "asking", "minted", "done",
                                "unheard", "rate_limited", "error"} \cup Tokens
          /\ press[r].arrived <= press[r].answered /\ press[r].answered <= dateNow
    /\ trust \in [Wallets -> SUBSET Tokens] /\ trusting \subseteq Runs
    /\ mint \in [Runs -> [Tokens -> {"no", "sent", "landed"}]]

Done(r) == At(r, "done")
Given(r) == press[r].step \in {"done", "unheard"}
SameWallet(q, r) ==
    q # r /\ press[q].address = press[r].address /\ press[q].instance = press[r].instance

\* "Added ... to your wallet": when the button says so, the wallet trusts both
\* tokens and both mints of this very press have landed.
DoneMeansFunded ==
    \A r \in Runs : Done(r) => /\ trust[press[r].address] = Tokens
                              /\ \A token \in Tokens : mint[r][token] = "landed"

\* A wallet is told to wait only within the cooldown of a grant it was really
\* given: a failed or half-made grant never locks it out.
RefusedOnlyAfterAGrant ==
    \A r \in Runs : At(r, "rate_limited") =>
        \E q \in Runs : /\ Given(q) /\ SameWallet(q, r)
                        /\ press[q].answered <= press[r].arrived
                        /\ press[r].arrived < press[q].answered + COOLDOWN_MS

\* Two grants of a wallet by a process that keeps its memory are a cooldown apart
\* when the second request came after the first was answered.
GrantsInTurnAreSpaced ==
    \A q, r \in Runs :
        /\ Given(q) /\ Given(r) /\ SameWallet(q, r)
        /\ press[r].instance \notin Serverless
        /\ press[q].answered < press[r].arrived
        => press[q].answered + COOLDOWN_MS <= press[r].arrived

\* The cooldown refuses just those it is meant for.
CooldownIsExact == RefusedOnlyAfterAGrant /\ GrantsInTurnAreSpaced
=============================================================================
