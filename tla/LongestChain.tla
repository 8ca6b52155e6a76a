---------------------------- MODULE LongestChain ----------------------------
(***************************************************************************)
(* What a node promises about its chain, without files, indices or tips:   *)
(* it knows a growing tree of executed blocks and follows one of them.  It *)
(* changes to another block only if that block is strictly higher, so of   *)
(* two blocks at a height the one that came first stays; and when it gives *)
(* blocks up it does so one at a time from the top, and never the block of *)
(* height 1.                                                               *)
(***************************************************************************)
EXTENDS BlockTree

CONSTANT NoBlock        \* what a node without a chain follows

VARIABLES
    known,              \* the blocks the node has executed
    best                \* the block at the top of its chain

vars == <<known, best>>

Init == known = {} /\ best = NoBlock

\* A block is executed; its tip was executed before it.
Accept(b) ==
    /\ IF b = Genesis THEN known = {} ELSE Parent[b] \in known /\ WellPlaced(b)
    /\ known' = known \cup {b}
    /\ best' = best

\* An executed block becomes the top of the chain.
Adopt(b) ==
    /\ b \in known
    /\ IF best = NoBlock THEN b = Genesis ELSE Height[b] > Height[best]
    /\ best' = b
    /\ known' = known

\* The top block is given up.
Retreat ==
    /\ best \in known /\ Height[best] > 1
    /\ best' = Parent[best]
    /\ known' = known

Next == \/ \E b \in Block : Accept(b) \/ Adopt(b)
        \/ Retreat

Spec == Init /\ [][Next]_vars

-----------------------------------------------------------------------------
\* The chain a node follows is executed all the way down: known blocks have
\* known tips, at one height less.
KnownIsATree ==
    /\ best # NoBlock => best \in known
    /\ \A b \in known : b # Genesis => Parent[b] \in known /\ WellPlaced(b)
=============================================================================
