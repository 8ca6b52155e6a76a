---------------------------- MODULE MCChainSync ----------------------------
(***************************************************************************)
(* An instance of ChainSync for TLC.                                       *)
(***************************************************************************)
EXTENDS ChainSync

CONSTANTS g, c1, a2, a3, p2, p3, p4

(* g -- c1 -- a2 -- a3, and c1 -- p2 -- p3 -- p4. *)
Blocks      == {g, c1, a2, a3, p2, p3, p4}
BlockHeight == [b \in Blocks |-> CASE b = g -> 0 [] b = c1 -> 1 [] b \in {a2, p2} -> 2
                                   [] b \in {a3, p3} -> 3 [] b = p4 -> 4]
BlockParent == [b \in Blocks |-> CASE b \in {a2, p2} -> c1 [] b = a3 -> a2
                                   [] b = p3 -> p2 [] b = p4 -> p3 [] OTHER -> g]
BlockPast   == [b \in Blocks |->
                  {b, g} \cup (IF b = g THEN {} ELSE {c1})
                         \cup {c \in {a2, a3} : b \in {a2, a3} /\ BlockHeight[c] <= BlockHeight[b]}
                         \cup {c \in {p2, p3, p4} : b \in {p2, p3, p4} /\ BlockHeight[c] <= BlockHeight[b]}]
MCRelayed   == {p3}
=============================================================================
