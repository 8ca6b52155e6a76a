---------------------------- MODULE TopoSearch ----------------------------
(***************************************************************************)
(* How the node finds a block in topo.map: binarySearchHeight looks for a  *)
(* record whose height is near the block's, and scans the records around   *)
(* it.  Blockchain reads the records directly; here the search runs over   *)
(* its records, in every state it reaches: in the middle of a rewind that  *)
(* cleans them, and of a reorganisation that replaces them from the top.   *)
(*                                                                         *)
(* A record holds its block's height; a clean one, and what Read returns   *)
(* behind the end of the file, holds zero, which is the height of the      *)
(* genesis block and less than the height of any other.                    *)
(***************************************************************************)
EXTENDS Blockchain

CONSTANTS
    WINDOW,     \* (STABLE_LIMIT * 4) / 2: the search ends at a record this near
    SCAN        \* 100: the records scanned, in either direction

\* The scan makes up for where the search may end: in the window, or beside the one
\* record that a reorganisation has not written yet.
ASSUME TopoSearchAssumption == WINDOW \in Nat /\ SCAN \in Nat /\ SCAN > WINDOW /\ SCAN > 2

-----------------------------------------------------------------------------
\* Read(i).Height.
RecordHeight(i) == IF i \in Position /\ topo[i] # Clean THEN Height[topo[i].block] ELSE 0

\* Slip: all records of a file that once was at its longest, those a rewind has
\* cleaned, too.
total_records_of_file == IF Count = 0 THEN 0 ELSE MaxHeight + 1

\* Count leaves out the clean records at the end.
total_records == Count

Near(targetheight) == (targetheight - WINDOW)..(targetheight + WINDOW)

\* What is left to search, and where it is probed.  The code's division rounds towards
\* zero; that makes a difference only left of position 0, where no search goes that
\* is for the height of a block.
Interval    == [startIndex : 0..(MaxHeight + 2), endIndex : (-1)..(MaxHeight + 1)]
Whole       == [startIndex |-> 0, endIndex |-> total_records]
Middle(r)   == (r.startIndex + r.endIndex) \div 2
LeftPart(r)  == [r EXCEPT !.endIndex = Middle(r) - 1]
RightPart(r) == [r EXCEPT !.startIndex = Middle(r) + 1]

\* midIndex where the loop ends.
midIndex(targetheight) ==
    LET end[r \in Interval] ==
            LET h == RecordHeight(Middle(r))
            IN  IF r.startIndex > r.endIndex \/ h \in Near(targetheight) THEN Middle(r)
                ELSE IF h >= targetheight THEN end[LeftPart(r)]
                ELSE end[RightPart(r)]
    IN  end[Whole]

\* The records of this height around the one the search ended at.
binarySearchHeight(targetheight) ==
    LET mid  == midIndex(targetheight)
        down == {i \in (mid - SCAN + 1)..mid : i >= 0}
        up   == {i \in mid..(mid + SCAN - 1) : i < total_records}
    IN  {i \in down \cup up : RecordHeight(i) = targetheight}

\* Those of them that name the block.  Behind the end there is no record of a block.
Load_Block_Topological_order(b) ==
    {i \in binarySearchHeight(Height[b]) \cap Position : topo[i].block = b}

-----------------------------------------------------------------------------
\* Whatever has been rewound or is being rewritten, the search finds a stored block
\* exactly where the index has it, if it has it: a block on the chain is never taken
\* for a new one, nor a block beside it for one on it ("instead of doing cleanup, we
\* double check the pointers", storetopo.go:260).
SearchFindsTheChain ==
    \A b \in Block : Block_Exists(b) =>
        Load_Block_Topological_order(b) = {i \in Position : topo[i].block = b}
=============================================================================
