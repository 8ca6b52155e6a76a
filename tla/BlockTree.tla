----------------------------- MODULE BlockTree -----------------------------
(***************************************************************************)
(* The blocks the network can deliver to a node, as far as chain selection *)
(* looks at them: a hash, the single tip a block builds on, and the height *)
(* its header claims.  Everything else a block carries (miniblocks, proof  *)
(* of work, transactions) decides only whether a block is accepted at all, *)
(* and the node's model leaves that decision open.                         *)
(***************************************************************************)
EXTENDS Naturals

CONSTANTS
    Block,      \* the hashes of the blocks that exist anywhere in the network
    Genesis,    \* the one block without a tip
    Parent,     \* Parent[b] is bl.Tips[0]; Parent[Genesis] is Genesis by convention
    Height,     \* Height[b] is the height in the header, which need not be honest
    MaxHeight   \* no header claims a greater height; it bounds the topo file

ASSUME BlockTreeAssumption ==
    /\ Genesis \in Block
    /\ Parent \in [Block -> Block]
    /\ MaxHeight \in Nat
    /\ Height \in [Block -> 0..MaxHeight]
    /\ Height[Genesis] = 0

\* The positions of the topo file: a block is always filed under its height.
Position == 0..MaxHeight

\* A header whose height is what its tip calls for; the genesis block has none.
WellPlaced(b) == IF b = Genesis THEN TRUE ELSE Height[b] = Height[Parent[b]] + 1

=============================================================================
