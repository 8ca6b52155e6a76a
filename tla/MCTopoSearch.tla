--------------------------- MODULE MCTopoSearch ---------------------------
(***************************************************************************)
(* The search on the index of an instance of Blockchain whose chain is     *)
(* long enough for the search to probe a record that is not there yet.     *)
(***************************************************************************)
EXTENDS MCBlockchain, TopoSearch

CONSTANTS b4, b5, b6

(*        a1 -- a2
         /
        g
         \
          b1 -- b2 -- b3 -- b4 -- b5 -- b6    x2 builds on b1 and claims the height of b3  *)
LongTree == {g, a1, a2, b1, b2, b3, b4, b5, b6, x2}
LongTreeParent ==
    [b \in LongTree |-> CASE b \in {g, a1, b1} -> g
                           [] b = a2 -> a1
                           [] b \in {b2, x2} -> b1 [] b = b3 -> b2 [] b = b4 -> b3
                           [] b = b5 -> b4 [] b = b6 -> b5]
LongTreeHeight ==
    [b \in LongTree |-> CASE b = g -> 0
                           [] b \in {a1, b1} -> 1
                           [] b \in {a2, b2} -> 2
                           [] b \in {b3, x2} -> 3
                           [] b = b4 -> 4 [] b = b5 -> 5 [] b = b6 -> 6]
=============================================================================
