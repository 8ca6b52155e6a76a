---------------------------- MODULE MCBlockchain ----------------------------
(***************************************************************************)
(* Instances of Blockchain for TLC.                                        *)
(***************************************************************************)
EXTENDS Blockchain

CONSTANTS g, a1, a2, a3, b1, b2, b3, x2

(*        a1 -- a2 -- a3
         /
        g            
         \
          b1 -- b2 -- b3      x2 builds on b1 and claims the height of a block on b2  *)
TwoBranches == {g, a1, a2, a3, b1, b2, b3, x2}
TwoBranchesParent ==
    [b \in TwoBranches |-> CASE b \in {g, a1, b1} -> g
                             [] b = a2 -> a1 [] b = a3 -> a2
                             [] b \in {b2, x2} -> b1 [] b = b3 -> b2]
TwoBranchesHeight ==
    [b \in TwoBranches |-> CASE b = g -> 0
                             [] b \in {a1, b1} -> 1
                             [] b \in {a2, b2} -> 2
                             [] b \in {a3, b3, x2} -> 3]

(* The same branches without a3: the b branch is the higher one. *)
LongerBranch == TwoBranches \ {a3}
LongerBranchParent == [b \in LongerBranch |-> TwoBranchesParent[b]]
LongerBranchHeight == [b \in LongerBranch |-> TwoBranchesHeight[b]]
HigherChain == {b1, b2, b3}
=============================================================================
