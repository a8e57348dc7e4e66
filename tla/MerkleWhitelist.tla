--------------------------- MODULE MerkleWhitelist ---------------------------
(***************************************************************************)
(* The whitelist tree: the root an auction is created with                 *)
(* (web/src/lib/whitelist-tree.ts, circuits/test/helpers.js,               *)
(* prover/build-whitelist.js), the path of a winner rebuilt at settlement  *)
(* and its check inside the circuit (circuits/lib/merkle.circom).  The     *)
(* loops of the three are steps of the state machine, one level each.      *)
(*                                                                         *)
(* Poseidon is injective: a node is the pair of its children and a leaf is *)
(* what it was made of.  The depth is fixed, so leaves and nodes are told  *)
(* apart by their level although both are hashes of two values.            *)
(***************************************************************************)
EXTENDS Integers, Sequences, FiniteSets

CONSTANTS
    Addresses,
    Invalid,        \* texts that are not addresses
    MERKLE_DEPTH

ASSUME TreeAssumption == MERKLE_DEPTH \in Nat \ {0}

VARIABLES
    list,           \* the list given, of addresses or of texts
    treePhase,
    levels,         \* levels[1]: the padded leaves, ... the last: the root
    claimed,        \* the member the path is for
    runningIndex,   \* pathFor's index, from 0
    path,           \* what pathFor collected: elements and indexBits
    node            \* the circuit's running node

treeVars == <<list, treePhase, levels, claimed, runningIndex, path, node>>

Capacity == 2 ^ MERKLE_DEPTH
EmptyLeaf == <<>>
computeAddressLeaf(x) == <<x>>
Poseidon2(left, right) == <<left, right>>

-----------------------------------------------------------------------------
(* The tree, level by level.                                               *)

\* computeWhitelistRoot: the three refusals, in their order.
Refuses ==
    \/ Len(list) = 0
    \/ Len(list) > Capacity
    \/ \E i \in DOMAIN list : list[i] \in Invalid

Refuse ==
    /\ treePhase = "given" /\ Refuses
    /\ treePhase' = "refused"
    /\ UNCHANGED <<list, levels, claimed, runningIndex, path, node>>

PaddedFaulty ==
    [i \in 1..Capacity |-> computeAddressLeaf(IF i <= Len(list) THEN list[i] ELSE list[1])]
Padded ==
    [i \in 1..Capacity |-> IF i <= Len(list) THEN computeAddressLeaf(list[i])
                           ELSE EmptyLeaf]

StartTree ==
    /\ treePhase = "given" /\ ~Refuses
    /\ treePhase' = "levels"
    /\ levels' = <<Padded>>
    /\ UNCHANGED <<list, claimed, runningIndex, path, node>>

NextLevel(previous) ==
    [i \in 1..(Len(previous) \div 2) |-> Poseidon2(previous[2 * i - 1], previous[2 * i])]

BuildLevel ==
    /\ treePhase = "levels" /\ Len(levels) <= MERKLE_DEPTH
    /\ levels' = Append(levels, NextLevel(levels[Len(levels)]))
    /\ UNCHANGED <<list, treePhase, claimed, runningIndex, path, node>>

Root == levels[MERKLE_DEPTH + 1][1]

-----------------------------------------------------------------------------
(* The path of one member, and the circuit that follows it.                *)

\* The place of an address that may be given twice: findIndex takes the first
\* (build-input.js), the loop of assembleAndProve the last.
IndexOf(x) == CHOOSE i \in DOMAIN list : list[i] = x /\ \A j \in 1..(i - 1) : list[j] # x
LastIndexOf(x) ==
    CHOOSE i \in DOMAIN list : list[i] = x /\ \A j \in DOMAIN list : j > i => list[j] # x

ClaimMembership ==
    /\ treePhase = "levels" /\ Len(levels) = MERKLE_DEPTH + 1
    /\ \E x \in {list[i] : i \in DOMAIN list} :
          claimed' = x /\ runningIndex' \in {IndexOf(x) - 1, LastIndexOf(x) - 1}
    /\ treePhase' = "path"
    /\ UNCHANGED <<list, levels, path, node>>

Sibling(i) == IF i % 2 = 0 THEN i + 1 ELSE i - 1

PathLevel ==
    /\ treePhase = "path" /\ Len(path) < MERKLE_DEPTH
    /\ path' = Append(path, [element |-> levels[Len(path) + 1][1 + Sibling(runningIndex)],
                             bit     |-> runningIndex % 2])
    /\ runningIndex' = runningIndex \div 2
    /\ UNCHANGED <<list, treePhase, levels, claimed, node>>

GiveWitness ==
    /\ treePhase = "path" /\ Len(path) = MERKLE_DEPTH
    /\ treePhase' = "checking"
    /\ node' = computeAddressLeaf(claimed)
    /\ runningIndex' = 0
    /\ UNCHANGED <<list, levels, claimed, path>>

\* One level of MerkleTreeChecker.
LevelNode(below, step) ==
    IF step.bit = 0 THEN Poseidon2(below, step.element) ELSE Poseidon2(step.element, below)

CheckLevel ==
    /\ treePhase = "checking" /\ runningIndex < MERKLE_DEPTH
    /\ node' = LevelNode(node, path[runningIndex + 1])
    /\ runningIndex' = runningIndex + 1
    /\ UNCHANGED <<list, treePhase, levels, claimed, path>>

\* root === levelNodes[depth]
CheckRoot ==
    /\ treePhase = "checking" /\ runningIndex = MERKLE_DEPTH
    /\ treePhase' = IF node = Root THEN "member" ELSE "rejected"
    /\ UNCHANGED <<list, levels, claimed, runningIndex, path, node>>

-----------------------------------------------------------------------------
TreeInit ==
    /\ list \in UNION {[1..n -> Addresses \cup Invalid] : n \in 0..Capacity + 1}
    /\ treePhase = "given"
    /\ levels = <<>>
    /\ claimed = "nobody" /\ runningIndex = 0 /\ path = <<>> /\ node = EmptyLeaf

TreeNext ==
    \/ Refuse \/ StartTree \/ BuildLevel
    \/ ClaimMembership \/ PathLevel \/ GiveWitness
    \/ CheckLevel \/ CheckRoot

TreeSpec == TreeInit /\ [][TreeNext]_treeVars

-----------------------------------------------------------------------------
(* Properties.                                                             *)

\* The tree and the path have their shapes: every level half of the one below.
TreeTypeOK ==
    /\ treePhase \in {"given", "refused", "levels", "path", "checking", "member", "rejected"}
    /\ \A k \in DOMAIN levels : DOMAIN levels[k] = 1..(2 ^ (MERKLE_DEPTH + 1 - k))
    /\ runningIndex \in 0..Capacity
    /\ \A k \in DOMAIN path : path[k].bit \in {0, 1}
    /\ Len(levels) <= MERKLE_DEPTH + 1 /\ Len(path) <= MERKLE_DEPTH

\* The path rebuilt for a member of a list is one the circuit accepts against the
\* root computed from that list, also for a list that names somebody twice.
MembersProve == treePhase # "rejected"

\* No path whatever makes the circuit accept an address that is not in the list:
\* for every leaf and every path made of hashes that occur in the tree (or of the
\* leaf itself), acceptance means the leaf is at the place the bits spell.
Hashes == UNION {{levels[k][i] : i \in DOMAIN levels[k]} : k \in DOMAIN levels}
Accepted(leaf, steps) ==
    LET at[k \in 0..MERKLE_DEPTH] == IF k = 0 THEN leaf ELSE LevelNode(at[k - 1], steps[k])
    IN  at[MERKLE_DEPTH] = Root
OnlyMembersProve ==
    treePhase = "levels" /\ Len(levels) = MERKLE_DEPTH + 1 =>
        \A x \in Addresses :
        \A steps \in [1..MERKLE_DEPTH -> [element : Hashes \cup {computeAddressLeaf(x)},
                                          bit : {0, 1}]] :
            Accepted(computeAddressLeaf(x), steps) =>
                \E i \in DOMAIN list :
                    /\ list[i] = x
                    /\ \A k \in 1..MERKLE_DEPTH :
                          steps[k].bit = ((i - 1) \div (2 ^ (k - 1))) % 2

\* Tree, path and circuit agree on who is a member.
PathsProveMembership == MembersProve /\ OnlyMembersProve
=============================================================================
