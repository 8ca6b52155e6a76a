--------------------------- MODULE OneChainProofs ---------------------------
(***************************************************************************)
(* As long as the process does not die and every file can be written, the  *)
(* topo file is one chain whenever the lock is free, for every tree of     *)
(* blocks, however they arrive and whatever is rewound; the tips are the   *)
(* blocks of the top height; and the node is a longest-chain node:         *)
(* Blockchain implements LongestChain.                                     *)
(***************************************************************************)
EXTENDS BlockchainProofs

-----------------------------------------------------------------------------
\* The inductive invariant.

\* Every record that is used is linked to the one below, except that the record
\* above the one that the loop writes next was written for a child of fix.
Links == \A i \in 1..MaxHeight :
            Used(i) => IF pc = "fix" /\ i = Height[fix] + 1
                         THEN Parent[topo[i].block] = fix
                         ELSE topo[i - 1].block = Parent[topo[i].block]

\* Only blocks whose header has the height of their place are added.
Placed == /\ WellPlaced(cur) /\ WellPlaced(fix)
          /\ \A v \in 1..Len(commits) : WellPlaced(commits[v].block)

\* A stored block was executed and stored under its version, and so was its tip;
\* this is why neither Execute nor the loop meets a tip it cannot read.
Stored ==
    /\ \A b \in Block : /\ file[b] = 0 => Storing /\ b = cur
                        /\ file[b] # NoFile /\ b # Genesis
                            => file[Parent[b]] >= 1 \/ (Storing /\ Parent[b] = cur)
    /\ \A i \in Position : Used(i) => file[topo[i].block] >= 1
    /\ pc = "fix" => file[fix] >= 1

\* The block being added has no record, its tip is stored, and if it raises the
\* chain there is no record at its height or above.
Adding ==
    /\ Storing => /\ \A i \in Position : topo[i].block # cur
                  /\ cur # Genesis => file[Parent[cur]] >= 1
                  /\ cur = Genesis => \A i \in Position : ~ Used(i)
    /\ pc \in {"execute", "delete", "restore"} /\ grown
            => \A i \in Position : i >= Height[cur] => ~ Used(i)

\* A rewind cleans from the top.
Cleaned == pc = "clean" => \A i \in Position : i > cut => ~ Used(i)

OneChainInv == Links /\ Placed /\ Stored /\ Adding /\ Cleaned

-----------------------------------------------------------------------------
\* Reading an index whose records are linked.

\* What the topo file names is stored, the top as well.
LEMMA StoredTopIsThere == TypeOK /\ Stored => TopThere
<1> SUFFICES ASSUME TypeOK, Stored, Count # 0 PROVE file[Top] # NoFile
  BY DEF TopThere, Block_Exists
<1>1. Used(Load_TOPO_HEIGHT) /\ Load_TOPO_HEIGHT \in Position /\ Top = topo[Load_TOPO_HEIGHT].block
  BY TopIsUsed, TopIsBlockOrNone DEF TypeOK
<1> QED
  BY <1>1 DEF Stored, NoFile

\* The height of the chain is the position of its last record.
LEMMA HeightIsTop ==
    ASSUME TypeOK, RecordsNameTheirState, TopThere
    PROVE  Get_Height = Load_TOPO_HEIGHT
<1>1. CASE Count = 0
  BY <1>1 DEF Get_Height, Load_TOPO_HEIGHT
<1>2. CASE Count # 0
  <2>1. Load_TOPO_HEIGHT = Count - 1 /\ Load_TOPO_HEIGHT \in Position
    BY <1>2, UsedUpToCount, BlockTreeAssumption DEF Load_TOPO_HEIGHT, Position
  <2>2. topo[Load_TOPO_HEIGHT].block # NoBlock
    BY <1>2, <2>1, UsedUpToCount DEF Used
  <2> QED
    BY <1>2, <2>1, <2>2 DEF Get_Height, Top, TopThere, RecordsNameTheirState
<1> QED
  BY <1>1, <1>2

\* While the loop is not running, linked records are one chain: a gap would have
\* a used record right above its greatest position, linked to nothing.
LEMMA LinkedRecordsAreOneChain ==
    ASSUME StatesInv, Links, Placed, pc # "fix", Count # 0
    PROVE  topo[0].block = Genesis /\ LinkedUpTo(Count - 1)
<1> USE BlockTreeAssumption
<1>t. TypeOK /\ RecordsNameTheirState
  BY DEF StatesInv
<1>c. Count \in 1..(MaxHeight + 1) /\ Used(Count - 1)
  BY <1>t, UsedUpToCount
<1>l. \A i \in 1..MaxHeight : Used(i) => topo[i - 1].block = Parent[topo[i].block]
  BY DEF Links
<1>b. \A i \in Position : Used(i) => topo[i].block \in Block
  BY <1>t DEF TypeOK, Record, Clean, Used
<1>1. \A i \in 0..(Count - 1) : Used(i)
  <2> DEFINE gaps == {i \in 0..(Count - 1) : ~ Used(i)}
  <2>1. SUFFICES ASSUME gaps # {} PROVE FALSE
    OBVIOUS
  <2>2. gaps \in SUBSET Nat /\ MaxHeight \in Nat /\ \A i \in gaps : i <= MaxHeight
    BY <1>c
  <2>3. PICK i \in gaps : \A j \in gaps : j <= i
    BY <2>1, <2>2, GreatestElement
  <2>4. i \in 0..(Count - 2) /\ ~ Used(i)
    BY <1>c, <2>3
  <2>5. Used(i + 1) /\ i + 1 \in 1..MaxHeight
    BY <1>c, <2>3, <2>4
  <2>6. topo[i].block = Parent[topo[i + 1].block] /\ topo[i + 1].block \in Block
    BY <1>b, <1>l, <2>4, <2>5 DEF Position
  <2> QED
    BY <2>4, <2>6, ChainAssumption DEF Used
<1>2. topo[0].block = Genesis
  <2>1. Used(0) /\ 0 \in Position /\ topo[0].block \in Block
    BY <1>1, <1>b, <1>c DEF Position
  <2>2. Height[topo[0].block] = 0 /\ WellPlaced(topo[0].block)
    BY <1>t, <2>1 DEF RecordsNameTheirState, Placed, SnapshotLoads, Used
  <2> QED
    BY <2>1, <2>2 DEF WellPlaced
<1>3. LinkedUpTo(Count - 1)
  BY <1>1, <1>c, <1>l DEF LinkedUpTo, Used
<1> QED
  BY <1>2, <1>3

-----------------------------------------------------------------------------
\* Steps.

LEMMA OneChainInit == Init => OneChainInv
<1> SUFFICES ASSUME Init PROVE OneChainInv
  OBVIOUS
<1> USE BlockTreeAssumption, ChainAssumption DEF Init
<1>1. Links /\ Cleaned
  BY DEF Links, Cleaned, Used, Clean, Position
<1>2. Placed
  BY DEF Placed, WellPlaced
<1>3. Stored /\ Adding
  BY DEF Stored, Adding, Storing, Used, Clean, NoFile
<1> QED
  BY <1>1, <1>2, <1>3 DEF OneChainInv

\* A step between two calls, or from one to none, that leaves the disk alone.
LEMMA FreeKeepsOneChain ==
    ASSUME OneChainInv, UNCHANGED disk, ~ Storing, pc # "fix", pc' = "idle",
           cur' \in {cur, Genesis}, fix' \in {fix, Genesis}
    PROVE  OneChainInv'
<1> USE DEF disk, OneChainInv
<1>1. Links' /\ Cleaned'
  BY DEF Links, Cleaned, Used
<1>2. Placed'
  BY DEF Placed, WellPlaced
<1>3. Stored' /\ Adding'
  BY DEF Stored, Adding, Storing, Used
<1> QED
  BY <1>1, <1>2, <1>3

\* The checks of an addition establish what the addition relies on.
LEMMA BeginAddKeepsOneChain ==
    ASSUME StatesInv, OneChainInv, NEW b \in Block, BeginAdd(b)
    PROVE  OneChainInv'
<1> USE BlockTreeAssumption, ChainAssumption
<1>t. TypeOK /\ file \in [Block -> Nat \cup {NoFile}]
  BY DEF StatesInv, TypeOK
<1>1. /\ pc = "idle" /\ pc' = "store" /\ cur' = b /\ fix' = fix
      /\ UNCHANGED <<commits, topo>>
      /\ file' = [file EXCEPT ![b] = NoFile]
      /\ Acceptable(b)
  BY DEF BeginAdd
<1>2. ~ Storing /\ Storing'
  BY <1>1 DEF Storing
<1>3. \A i \in Position : topo[i].block # b
  BY <1>1, <1>t DEF Acceptable, Is_Block_Topological_order, Block_Exists, OneChainInv, Stored,
                    Used, NoFile
<1>4. b # Genesis => Parent[b] # b /\ file[Parent[b]] >= 1 /\ WellPlaced(b)
  BY <1>1, <1>2, <1>t DEF Acceptable, Block_Exists, OneChainInv, Stored, WellPlaced, NoFile
<1>5. b = Genesis => \A i \in Position : ~ Used(i)
  <2>1. Count # 0 => topo[0].block = Genesis
    BY <1>1, LinkedRecordsAreOneChain DEF OneChainInv
  <2>2. 0 \in Position
    BY DEF Position
  <2> QED
    BY <1>3, <1>t, <2>1, <2>2, UsedUpToCount
<1>6. Links' /\ Cleaned'
  BY <1>1 DEF OneChainInv, Links, Cleaned, Used
<1>7. Placed'
  BY <1>1, <1>4 DEF OneChainInv, Placed, WellPlaced
<1>8. Stored'
  <2>1. \A c \in Block : c # b => file'[c] = file[c]
    BY <1>1, <1>t
  <2>2. file'[b] = NoFile
    BY <1>1, <1>t
  <2>3. ASSUME NEW c \in Block
        PROVE  /\ file'[c] = 0 => Storing' /\ c = cur'
               /\ file'[c] # NoFile /\ c # Genesis
                    => file'[Parent[c]] >= 1 \/ (Storing' /\ Parent[c] = cur')
    <3>1. c # b => file[c] # 0
      BY <1>2 DEF OneChainInv, Stored
    <3>2. file[c] # NoFile /\ c # Genesis => file[Parent[c]] >= 1
      BY <1>2 DEF OneChainInv, Stored
    <3> QED
      BY <1>1, <1>2, <2>1, <2>2, <3>1, <3>2 DEF NoFile
  <2>4. ASSUME NEW i \in Position, Used(i) PROVE file'[topo[i].block] >= 1
    <3>1. topo[i].block \in Block
      BY <1>t, <2>4 DEF TypeOK, Record, Clean, Used
    <3> QED
      BY <1>3, <2>1, <2>4, <3>1 DEF OneChainInv, Stored
  <2> QED
    BY <1>1, <2>3, <2>4 DEF Stored, Used
<1>9. Adding'
  <2>1. b # Genesis => file'[Parent[b]] >= 1
    BY <1>1, <1>4, <1>t
  <2> QED
    BY <1>1, <1>3, <1>5, <2>1 DEF Adding, Used
<1> QED
  BY <1>6, <1>7, <1>8, <1>9 DEF OneChainInv
\* Between the deletion of its old file and the commit, the block's file is all
\* that changes.
LEMMA StoringKeepsOneChain ==
    ASSUME StatesInv, OneChainInv, Storing, Storing', UNCHANGED <<topo, cur, fix>>,
           \/ file' = file
           \/ \E v \in {0, NoFile} : file' = [file EXCEPT ![cur] = v],
           \A v \in 1..Len(commits') : WellPlaced(commits'[v].block)
    PROVE  Links' /\ Placed' /\ Stored' /\ Cleaned'
<1> USE BlockTreeAssumption
<1>t. TypeOK /\ file \in [Block -> Nat \cup {NoFile}] /\ cur \in Block
  BY DEF StatesInv, TypeOK
<1>1. \A c \in Block : c # cur => file'[c] = file[c]
  BY <1>t
<1>2. Links' /\ Cleaned'
  BY DEF OneChainInv, Links, Cleaned, Used, Storing
<1>3. Placed'
  BY DEF OneChainInv, Placed, WellPlaced
<1>4. Stored'
  <2>1. ASSUME NEW c \in Block
        PROVE  /\ file'[c] = 0 => c = cur
               /\ file'[c] # NoFile /\ c # Genesis => file'[Parent[c]] >= 1 \/ Parent[c] = cur
    <3>1. CASE c = cur
      <4>1. cur # Genesis => file[Parent[cur]] >= 1
        BY DEF OneChainInv, Adding
      <4>2. cur # Genesis => Parent[cur] # cur
        BY <1>t DEF OneChainInv, Placed, WellPlaced
      <4> QED
        BY <1>1, <1>t, <3>1, <4>1, <4>2
    <3>2. CASE c # cur
      BY <1>1, <3>2 DEF OneChainInv, Stored
    <3> QED
      BY <3>1, <3>2
  <2>2. ASSUME NEW i \in Position, Used(i) PROVE file'[topo[i].block] >= 1
    <3>1. topo[i].block \in Block /\ topo[i].block # cur
      BY <1>t, <2>2 DEF TypeOK, Record, Clean, Used, OneChainInv, Adding
    <3> QED
      BY <1>1, <2>2, <3>1 DEF OneChainInv, Stored
  <2> QED
    BY <2>1, <2>2 DEF Stored, Used, Storing
<1> QED
  BY <1>2, <1>3, <1>4

\* A written record closes the link to the record above.
LEMMA WriteTopoLinks ==
    ASSUME StatesInv, OneChainInv, NEW next, WriteTopo(next)
    PROVE  /\ \A i \in 1..MaxHeight :
                i # Height[fix] /\ topo'[i].block # NoBlock
                    => topo'[i - 1].block = Parent[topo'[i].block]
           /\ topo'[Height[fix]].block = fix
           /\ Height[fix] # 0 => topo'[Height[fix] - 1] = topo[Height[fix] - 1]
           /\ \A i \in Position : topo'[i].block # NoBlock => file[topo'[i].block] >= 1
<1> USE BlockTreeAssumption
<1>1. /\ pc = "fix" /\ fix \in Block /\ Height[fix] \in Position
      /\ topo \in [Position -> Record]
      /\ topo' = [topo EXCEPT ![Height[fix]] = [block |-> fix, version |-> version]]
  BY DEF WriteTopo, StatesInv, TypeOK, Position
<1>2. \A i \in Position : topo'[i] = IF i = Height[fix] THEN [block |-> fix, version |-> version]
                                                        ELSE topo[i]
  BY <1>1
<1>3. ASSUME NEW i \in 1..MaxHeight, i # Height[fix], topo'[i].block # NoBlock
      PROVE  topo'[i - 1].block = Parent[topo'[i].block]
  <2>1. i \in Position /\ i - 1 \in Position /\ Used(i) /\ topo'[i] = topo[i]
    BY <1>2, <1>3 DEF Position, Used
  <2>2. CASE i = Height[fix] + 1
    BY <1>1, <1>2, <2>1, <2>2 DEF OneChainInv, Links
  <2>3. CASE i # Height[fix] + 1
    BY <1>1, <1>2, <1>3, <2>1, <2>3 DEF OneChainInv, Links, Position
  <2> QED
    BY <2>2, <2>3
<1>4. topo'[Height[fix]].block = fix
  BY <1>1, <1>2
<1>5. Height[fix] # 0 => topo'[Height[fix] - 1] = topo[Height[fix] - 1]
  BY <1>1, <1>2 DEF Position
<1>6. ASSUME NEW i \in Position, topo'[i].block # NoBlock PROVE file[topo'[i].block] >= 1
  BY <1>1, <1>2, <1>6 DEF OneChainInv, Stored, Used
<1> QED
  BY <1>3, <1>4, <1>5, <1>6

\* What is stored has a stored tip, so an addition panics neither when it executes
\* the block nor halfway through the loop.
LEMMA NothingPanics ==
    ASSUME StatesInv, OneChainInv
    PROVE  ~ ExecutePanics /\ ~ FixPanics
<1> USE BlockTreeAssumption
<1>t. TypeOK /\ FilesNameTheirState
  BY DEF StatesInv
<1>1. ASSUME ExecutePanics PROVE FALSE
  <2>1. pc = "execute" /\ cur # Genesis /\ file[Parent[cur]] >= 1 /\ Parent[cur] \in Block
    BY <1>1, <1>t DEF ExecutePanics, BaseLoads, OneChainInv, Adding, Storing, TypeOK
  <2>2. BaseLoads
    BY <1>t, <2>1 DEF BaseLoads, SnapshotVersionKnown, FilesNameTheirState
  <2> QED
    BY <1>1, <2>2 DEF ExecutePanics
<1>2. ASSUME FixPanics PROVE FALSE
  <2>1. /\ pc = "fix" /\ fix \in Block /\ Height[fix] # 0 /\ ~ SnapshotVersionKnown(Parent[fix])
    BY <1>2, <1>t DEF FixPanics, WriteTopo, Linked, TypeOK
  <2>2. fix # Genesis /\ file[fix] # NoFile /\ ~ Storing
    BY <2>1 DEF OneChainInv, Stored, Storing, NoFile
  <2> QED
    BY <2>1, <2>2 DEF OneChainInv, Stored, SnapshotVersionKnown
<1> QED
  BY <1>1, <1>2

LEMMA OneChainStep ==
    ASSUME Faults = {}
    PROVE  StatesInv /\ OneChainInv /\ [Next]_vars => OneChainInv'
<1> SUFFICES ASSUME StatesInv, OneChainInv, [Next]_vars PROVE OneChainInv'
  OBVIOUS
<1> USE BlockTreeAssumption, ChainAssumption
<1>t. TypeOK /\ RecordsNameTheirState /\ FilesNameTheirState /\ TopThere
  BY StoredTopIsThere DEF StatesInv, OneChainInv
<1>0. CASE UNCHANGED vars
  BY <1>0 DEF vars, disk, locals, OneChainInv, Links, Placed, Stored, Adding, Cleaned, Used,
              Storing
<1>1. ASSUME NEW b \in Block, BeginAdd(b) PROVE OneChainInv'
  BY <1>1, BeginAddKeepsOneChain
<1>2. CASE StoreBlock
  <2>1. /\ pc = "store" /\ pc' = "execute" /\ UNCHANGED <<commits, topo, cur, fix>>
        /\ file' = [file EXCEPT ![cur] = 0]
    BY <1>2 DEF StoreBlock
  <2>2. grown' <=> Height[cur] > Get_Height \/ Height[cur] = 0
    BY <1>2, Zenon DEF StoreBlock
  <2>3. \A v \in 1..Len(commits') : WellPlaced(commits'[v].block)
    BY <2>1 DEF OneChainInv, Placed
  <2>4. Links' /\ Placed' /\ Stored' /\ Cleaned'
    BY <2>1, <2>3, StoringKeepsOneChain DEF Storing
  <2>5. cur # Genesis => Parent[cur] # cur /\ Height[cur] # 0
    BY <1>t DEF OneChainInv, Placed, WellPlaced, TypeOK
  <2>6. ASSUME grown', NEW i \in Position, i >= Height[cur] PROVE ~ Used(i)
    <3>1. CASE cur = Genesis
      BY <2>1, <3>1 DEF OneChainInv, Adding, Storing
    <3>2. CASE cur # Genesis
      <4>1. i > Load_TOPO_HEIGHT
        BY <1>t, <2>2, <2>5, <2>6, <3>2, HeightIsTop, TopIsBlockOrNone DEF TypeOK, Position
      <4>2. Count \in Nat /\ i >= Count
        BY <1>t, <4>1, UsedUpToCount DEF Load_TOPO_HEIGHT, Position
      <4> QED
        BY <1>t, <4>2, UsedUpToCount
    <3> QED
      BY <3>1, <3>2
  <2>7. cur # Genesis => file'[Parent[cur]] >= 1
    BY <1>t, <2>1, <2>5 DEF OneChainInv, Adding, Storing, TypeOK
  <2>8. Adding'
    BY <2>1, <2>6, <2>7 DEF OneChainInv, Adding, Storing, Used
  <2> QED
    BY <2>4, <2>8 DEF OneChainInv
<1>3. CASE Execute
  <2>1. /\ pc = "execute" /\ pc' = "delete" /\ UNCHANGED <<file, topo, cur, fix, grown>>
        /\ commits' = Append(commits, [block |-> cur, base |-> Base])
    BY <1>3 DEF Execute
  <2>2. /\ Len(commits) \in Nat /\ Len(commits') = Len(commits) + 1
        /\ \A v \in 1..Len(commits) : commits'[v] = commits[v]
        /\ commits'[Len(commits) + 1].block = cur
    BY <1>t, <2>1 DEF TypeOK
  <2>3. \A v \in 1..Len(commits') : WellPlaced(commits'[v].block)
    BY <2>2 DEF OneChainInv, Placed
  <2>4. Links' /\ Placed' /\ Stored' /\ Cleaned'
    BY <2>1, <2>3, StoringKeepsOneChain DEF Storing
  <2>5. Adding'
    BY <2>1 DEF OneChainInv, Adding, Storing, Used
  <2> QED
    BY <2>4, <2>5 DEF OneChainInv
<1>4. CASE ExecutePanics \/ FixPanics
  BY <1>4, NothingPanics
<1>5. CASE DeleteUnversioned
  <2>1. /\ pc = "delete" /\ pc' = "restore" /\ UNCHANGED <<commits, topo, cur, fix, grown>>
        /\ file' = [file EXCEPT ![cur] = NoFile]
    BY <1>5 DEF DeleteUnversioned, locals
  <2>2. \A v \in 1..Len(commits') : WellPlaced(commits'[v].block)
    BY <2>1 DEF OneChainInv, Placed
  <2>3. Links' /\ Placed' /\ Stored' /\ Cleaned'
    BY <2>1, <2>2, StoringKeepsOneChain DEF Storing
  <2>4. cur # Genesis => file'[Parent[cur]] >= 1
    BY <1>t, <2>1 DEF OneChainInv, Adding, Placed, WellPlaced, Storing, TypeOK
  <2>5. Adding'
    BY <2>1, <2>4 DEF OneChainInv, Adding, Storing, Used
  <2> QED
    BY <2>3, <2>5 DEF OneChainInv
<1>6. CASE StoreVersioned
  <2>1. /\ pc = "restore" /\ fix' = cur /\ UNCHANGED <<commits, topo, cur, grown>>
        /\ file' = [file EXCEPT ![cur] = version]
    BY <1>6 DEF StoreVersioned
  <2>2. pc' \in {"fix", "tips"} /\ (pc' = "fix" => grown)
    BY <1>6 DEF StoreVersioned
  <2>3. version >= 1 /\ version \in Nat /\ cur \in Block /\ file \in [Block -> Nat \cup {NoFile}]
    BY <2>1, <1>t DEF StatesInv, VersionInHand, SnapshotLoads, TypeOK
  <2>4. \A c \in Block : file'[c] = IF c = cur THEN version ELSE file[c]
    BY <2>1, <2>3
  <2>5. Links'
    <3>1. \A i \in 1..MaxHeight : Used(i) => topo[i - 1].block = Parent[topo[i].block]
      BY <2>1 DEF OneChainInv, Links
    <3>2. pc' = "fix" => \A i \in Position : i >= Height[cur] => ~ Used(i)
      BY <2>1, <2>2 DEF OneChainInv, Adding
    <3>3. Height[cur] \in Nat /\ \A i \in 1..MaxHeight : i \in Position
      BY <2>3 DEF Position
    <3>4. ASSUME NEW i \in 1..MaxHeight, Used(i) PROVE ~ (pc' = "fix" /\ i = Height[cur] + 1)
      BY <3>2, <3>3, <3>4
    <3> QED
      BY <2>1, <3>1, <3>4 DEF Links, Used
  <2>6. Placed' /\ Cleaned' /\ Adding'
    BY <2>1, <2>2 DEF OneChainInv, Placed, WellPlaced, Cleaned, Adding, Storing
  <2>7. Stored'
    <3>1. ASSUME NEW c \in Block
          PROVE  /\ file'[c] # 0
                 /\ file'[c] # NoFile /\ c # Genesis => file'[Parent[c]] >= 1
      <4>1. CASE c = cur
        BY <2>1, <2>3, <2>4, <4>1 DEF OneChainInv, Adding, Storing
      <4>2. CASE c # cur
        BY <2>3, <2>4, <4>2 DEF OneChainInv, Stored
      <4> QED
        BY <4>1, <4>2
    <3>2. ASSUME NEW i \in Position, Used(i) PROVE file'[topo[i].block] >= 1
      <4>1. topo[i].block \in Block
        BY <1>t, <3>2 DEF TypeOK, Record, Clean, Used
      <4>2. file[topo[i].block] >= 1
        BY <3>2 DEF OneChainInv, Stored
      <4> QED
        BY <2>3, <2>4, <4>1, <4>2
    <3> QED
      BY <2>1, <2>3, <2>4, <3>1, <3>2 DEF Stored, Used
  <2> QED
    BY <2>5, <2>6, <2>7 DEF OneChainInv
<1>7. ASSUME NEW next, WriteTopo(next)
      PROVE  /\ pc = "fix" /\ UNCHANGED <<file, commits>> /\ fix \in Block
             /\ Height[fix] # 0 => fix # Genesis /\ SnapshotVersionKnown(Parent[fix])
  BY <1>7, <1>t DEF WriteTopo, TypeOK, OneChainInv, Stored, Storing, NoFile,
                    SnapshotVersionKnown
<1>8. CASE FixTopo
  <2>1. /\ pc' = "fix" /\ fix' = Parent[fix] /\ cur' = cur /\ Height[fix] # 0
        /\ WriteTopo(~ Linked /\ SnapshotVersionKnown(Parent[fix]))
    BY <1>8, <1>7 DEF FixTopo, WriteTopo, Linked
  <2>2. /\ fix \in Block /\ fix # Genesis /\ SnapshotVersionKnown(Parent[fix])
        /\ pc = "fix" /\ UNCHANGED <<file, commits>>
    BY <2>1, <1>7
  <2>3. Height[fix] = Height[Parent[fix]] + 1 /\ Parent[fix] \in Block
    BY <2>2 DEF OneChainInv, Placed, WellPlaced
  <2>4. Links'
    BY <2>1, <2>2, <2>3, WriteTopoLinks DEF Links, Used
  <2>5. WellPlaced(Parent[fix])
    <3>1. SnapshotLoads(file[Parent[fix]]) /\ commits[file[Parent[fix]]].block = Parent[fix]
      BY <1>t, <2>2, <2>3 DEF SnapshotVersionKnown, FilesNameTheirState
    <3> QED
      BY <3>1 DEF OneChainInv, Placed, SnapshotLoads
  <2>6. Placed'
    BY <2>1, <2>2, <2>5 DEF OneChainInv, Placed
  <2>7. Stored'
    BY <2>1, <2>2, WriteTopoLinks DEF OneChainInv, Stored, Storing, Used, SnapshotVersionKnown
  <2>8. Adding' /\ Cleaned'
    BY <2>1 DEF Adding, Cleaned, Storing
  <2> QED
    BY <2>4, <2>6, <2>7, <2>8 DEF OneChainInv
<1>9. CASE FixDone
  <2>1. /\ pc' = "tips" /\ UNCHANGED <<cur, fix>> /\ Linked /\ WriteTopo(Linked)
    BY <1>9 DEF FixDone, WriteTopo, locals
  <2>2. fix \in Block /\ pc = "fix" /\ UNCHANGED <<file, commits>>
    BY <2>1, <1>7
  <2>3. Height[fix] # 0 => topo'[Height[fix] - 1].block = Parent[fix]
    BY <2>1, WriteTopoLinks DEF Linked
  <2>4. Links'
    <3>1. ASSUME NEW i \in 1..MaxHeight, topo'[i].block # NoBlock
          PROVE  topo'[i - 1].block = Parent[topo'[i].block]
      <4>1. CASE i = Height[fix]
        <5>1. topo'[i].block = fix
          BY <2>1, <4>1, WriteTopoLinks
        <5> QED
          BY <2>3, <4>1, <5>1
      <4>2. CASE i # Height[fix]
        BY <2>1, <3>1, <4>2, WriteTopoLinks
      <4> QED
        BY <4>1, <4>2
    <3> QED
      BY <2>1, <3>1 DEF Links, Used
  <2>5. Placed' /\ Adding' /\ Cleaned'
    BY <2>1, <2>2 DEF OneChainInv, Placed, WellPlaced, Adding, Cleaned, Storing
  <2>6. Stored'
    BY <2>1, <2>2, WriteTopoLinks DEF OneChainInv, Stored, Storing, Used
  <2> QED
    BY <2>4, <2>5, <2>6 DEF OneChainInv
<1>11. CASE UpdateTips \/ RewindUnlocks
  <2>1. /\ UNCHANGED disk /\ ~ Storing /\ pc # "fix" /\ pc' = "idle"
        /\ cur' = Genesis /\ fix' = Genesis
    BY <1>11 DEF UpdateTips, RewindUnlocks, Unlock, Storing
  <2> QED
    BY <2>1, FreeKeepsOneChain
<1>12. ASSUME NEW n \in 1..(MaxHeight + 1), StartRewind(n) PROVE OneChainInv'
  <2>1. pc = "idle" /\ UNCHANGED <<disk, cur, fix>>
    BY <1>12 DEF StartRewind
  <2>2. pc' = "idle" \/ (pc' = "clean" /\ cut' = Load_TOPO_HEIGHT)
    BY <1>12 DEF StartRewind
  <2>3. \A i \in Position : i > Load_TOPO_HEIGHT => ~ Used(i)
    BY <1>t, UsedUpToCount DEF Load_TOPO_HEIGHT, Position
  <2>4. Links' /\ Placed' /\ Stored' /\ Adding'
    BY <2>1, <2>2 DEF disk, OneChainInv, Links, Placed, WellPlaced, Stored, Adding, Storing, Used
  <2>5. Cleaned'
    BY <2>1, <2>2, <2>3 DEF Cleaned, disk, Used
  <2> QED
    BY <2>4, <2>5 DEF OneChainInv
<1>13. CASE CleanRecord
  <2>1. /\ pc = "clean" /\ pc' = "clean" /\ cut' = cut - 1 /\ UNCHANGED <<file, commits, cur, fix>>
        /\ topo' = [topo EXCEPT ![cut] = Clean]
    BY <1>13 DEF CleanRecord
  <2>2. \A i \in Position : topo'[i] = IF i = cut THEN Clean ELSE topo[i]
    BY <1>t, <2>1 DEF TypeOK
  <2>3. cut \in Int
    BY <1>t DEF TypeOK
  <2>4. Links'
    <3>1. ASSUME NEW i \in 1..MaxHeight, topo'[i].block # NoBlock
          PROVE  topo'[i - 1].block = Parent[topo'[i].block]
      <4>1. i \in Position /\ i - 1 \in Position /\ topo'[i] = topo[i] /\ i # cut /\ Used(i)
        BY <2>2, <3>1 DEF Position, Clean, Used
      <4>2. i <= cut
        BY <2>1, <2>3, <4>1 DEF OneChainInv, Cleaned
      <4>3. topo'[i - 1] = topo[i - 1]
        BY <2>2, <2>3, <4>1, <4>2
      <4> QED
        BY <2>1, <4>1, <4>3 DEF OneChainInv, Links
    <3> QED
      BY <2>1, <3>1 DEF Links, Used
  <2>5. Placed' /\ Adding'
    BY <2>1 DEF OneChainInv, Placed, WellPlaced, Adding, Storing
  <2>6. Stored'
    BY <2>1, <2>2 DEF OneChainInv, Stored, Storing, Used, Clean
  <2>7. Cleaned'
    BY <2>1, <2>2, <2>3 DEF OneChainInv, Cleaned, Used, Clean, Position
  <2> QED
    BY <2>4, <2>5, <2>6, <2>7 DEF OneChainInv
<1>14. CASE Initialise_Chain_From_DB \/ Start \/ GenesisAdded \/ Booted
  <2>1. UNCHANGED <<disk, pc, locals>>
    BY <1>14 DEF Initialise_Chain_From_DB, Start, GenesisAdded, Booted
  <2> QED
    BY <2>1 DEF disk, locals, OneChainInv, Links, Placed, Stored, Adding, Cleaned, Used, Storing
<1>15. 1 \in 1..(MaxHeight + 1)
  OBVIOUS
<1> QED
  BY <1>0, <1>1, <1>2, <1>3, <1>4, <1>5, <1>6, <1>8, <1>9, <1>11, <1>12, <1>13, <1>14, <1>15
  DEF Next, Work, Fault, AddBlock, AddGenesis, Rewind, BootRewind, Crash, WriteFails, RestoreCopy

\* A node that is never killed and can write its files has one chain in its topo
\* file whenever chain.Lock is free: reorganisations, rewinds and additions that
\* slip in between a rewind and its reload never leave a mixture of branches, and
\* the panics of an addition cannot happen halfway through.
THEOREM TopoStaysOneChain ==
    ASSUME Faults = {}
    PROVE  Spec => []TopoIsOneChain
<1>1. Init => StatesInv /\ OneChainInv
  BY StatesInit, OneChainInit
<1>2. StatesInv /\ OneChainInv /\ [Next]_vars => (StatesInv /\ OneChainInv)'
  BY StatesStep, OneChainStep
<1>3. StatesInv /\ OneChainInv => TopoIsOneChain
  BY LinkedRecordsAreOneChain DEF OneChainInv, TopoIsOneChain
<1> QED
  BY <1>1, <1>2, <1>3, PTL DEF Spec

-----------------------------------------------------------------------------
\* The tips.

\* Unless a reload is owed, or a rewind is about to owe one, every tip is stored.
\* Up to the first write to the topo file, and after an addition that does not
\* raise the chain, the tips are the blocks of the top height, the top among them.
\* The block being added is none of them, and it is stored when they are updated.
TipsOfTheChain ==
    /\ pc \in {"fix", "tips"} => SnapshotVersionKnown(cur)
    /\ mode \in {"check", "up"} /\ ~ reload /\ pc # "clean" /\ Count # 0 =>
          /\ \A t \in tips : t \in Block /\ SnapshotVersionKnown(t)
          /\ Storing => cur \notin tips
          /\ pc = "idle" \/ Storing \/ (pc = "tips" /\ ~ grown)
                => Top \in tips /\ \A t \in tips : Height[t] = Load_TOPO_HEIGHT

TipsInv == StatesInv /\ IndexInv /\ OneChainInv /\ TipsOfTheChain

\* The disk and the tips stay.
LEMMA DiskAloneKeepsTips ==
    ASSUME TipsOfTheChain, UNCHANGED <<file, topo, tips, cur, grown>>,
           mode' \in {"check", "up"} /\ ~ reload' => mode \in {"check", "up"} /\ ~ reload,
           pc' = pc \/ (Storing /\ Storing')
    PROVE  TipsOfTheChain'
BY TopoAloneKeepsTop DEF TipsOfTheChain, SnapshotVersionKnown, Storing

LEMMA TipsStep ==
    ASSUME Faults = {}
    PROVE  TipsInv /\ [Next]_vars => TipsOfTheChain'
<1> SUFFICES ASSUME TipsInv, [Next]_vars PROVE TipsOfTheChain'
  OBVIOUS
<1> USE BlockTreeAssumption, ChainAssumption
<1>t. TypeOK /\ TypeOK' /\ file \in [Block -> Nat \cup {NoFile}] /\ cur \in Block
  BY TypeStep DEF TipsInv, StatesInv, TypeOK
<1>h. TopThere /\ Get_Height = Load_TOPO_HEIGHT /\ (Count # 0 => Height[Top] = Load_TOPO_HEIGHT)
  <2>1. TopThere
    BY <1>t, StoredTopIsThere DEF TipsInv, OneChainInv
  <2>2. Get_Height = Load_TOPO_HEIGHT
    BY <1>t, <2>1, HeightIsLast DEF TipsInv, IndexInv
  <2> QED
    BY <2>1, <2>2 DEF Get_Height, TopThere
<1>0. CASE UNCHANGED vars
  BY <1>0, DiskAloneKeepsTips DEF vars, disk, locals, TipsInv, Storing
<1>1. ASSUME NEW b \in Block, BeginAdd(b) PROVE TipsOfTheChain'
  <2>1. /\ pc = "idle" /\ pc' = "store" /\ cur' = b /\ UNCHANGED <<topo, mode, tips, reload>>
        /\ b \notin tips /\ file' = [file EXCEPT ![b] = NoFile]
    BY <1>1 DEF BeginAdd, Acceptable
  <2>2. \A t \in Block : t # b => file'[t] = file[t]
    BY <1>t, <2>1
  <2> QED
    BY <2>1, <2>2, TopoAloneKeepsTop DEF TipsInv, TipsOfTheChain, SnapshotVersionKnown, Storing
<1>2. CASE StoreBlock \/ DeleteUnversioned
  <2>1. /\ Storing /\ Storing' /\ UNCHANGED <<topo, mode, tips, reload, cur>>
        /\ \A t \in Block : t # cur => file'[t] = file[t]
    BY <1>2, <1>t DEF StoreBlock, DeleteUnversioned, Storing, locals
  <2> QED
    BY <2>1, TopoAloneKeepsTop DEF TipsInv, TipsOfTheChain, SnapshotVersionKnown, Storing
<1>3. CASE Execute
  BY <1>3, DiskAloneKeepsTips DEF Execute, TipsInv, Storing
<1>4. CASE StoreVersioned
  <2>1. /\ pc = "restore" /\ UNCHANGED <<topo, mode, tips, reload, cur, grown>>
        /\ IF grown THEN pc' = "fix" ELSE pc' = "tips"
        /\ file'[cur] = version /\ \A t \in Block : t # cur => file'[t] = file[t]
    BY <1>4, <1>t DEF StoreVersioned
  <2>2. version >= 1
    BY <1>t, <2>1 DEF TipsInv, StatesInv, VersionInHand, SnapshotLoads, TypeOK
  <2> QED
    BY <2>1, <2>2, TopoAloneKeepsTop DEF TipsInv, TipsOfTheChain, SnapshotVersionKnown, Storing
<1>5. CASE FixTopo \/ FixDone
  <2>1. PICK next : WriteTopo(next)
    BY <1>5 DEF FixTopo, FixDone
  <2>2. /\ pc = "fix" /\ grown /\ UNCHANGED <<file, mode, tips, reload>>
    BY <2>1, <1>t, WriteTopoRaises DEF WriteTopo, TipsInv
  <2>3. pc' \in {"fix", "tips"} /\ UNCHANGED <<cur, grown>>
    BY <1>5, <2>2 DEF FixTopo, FixDone, locals
  <2>4. mode \in {"check", "up"} /\ Count = 0 => FALSE
    BY <1>t, <2>2, TopIsUsed DEF TipsInv, IndexInv, Grounded, GenesisFirst
  <2> QED
    BY <2>2, <2>3, <2>4 DEF TipsInv, TipsOfTheChain, SnapshotVersionKnown, Storing
<1>6. CASE ExecutePanics \/ FixPanics
  BY <1>6, NothingPanics DEF TipsInv
<1>7. CASE UpdateTips
  <2>1. /\ pc = "tips" /\ pc' = "idle" /\ UNCHANGED <<file, topo, mode, reload>>
        /\ tips' = {t \in (tips \ (IF cur = Genesis THEN {} ELSE {Parent[cur]})) \cup {cur} :
                       Height[t] = Load_TOPO_HEIGHT}
    BY <1>7, <1>h DEF UpdateTips, Unlock, disk
  <2>2. ASSUME mode \in {"check", "up"}, ~ reload, Count # 0
        PROVE  /\ \A t \in tips' : t \in Block /\ SnapshotVersionKnown(t)
                                      /\ Height[t] = Load_TOPO_HEIGHT
               /\ Top \in tips'
    <3>1. /\ \A t \in tips : t \in Block /\ SnapshotVersionKnown(t)
          /\ SnapshotVersionKnown(cur)
      BY <2>1, <2>2 DEF TipsInv, TipsOfTheChain
    <3>2. Load_TOPO_HEIGHT = Height[Top]
      BY <1>h, <2>2
    <3>3. CASE grown
      <4>1. Top = cur
        BY <2>1, <3>3 DEF TipsInv, IndexInv, Raised
      <4> QED
        BY <1>t, <2>1, <3>1, <3>2, <4>1
    <3>4. CASE ~ grown
      <4>1. Height[cur] <= Load_TOPO_HEIGHT /\ Height[cur] # 0 /\ Top \in tips
        BY <2>1, <2>2, <3>4 DEF TipsInv, IndexInv, Raised, TipsOfTheChain
      <4>2. cur # Genesis /\ Height[cur] = Height[Parent[cur]] + 1 /\ Parent[cur] \in Block
        BY <1>t, <4>1 DEF TipsInv, IndexInv, AtHeight, WellPlaced
      <4>3. Height[Parent[cur]] \in Nat /\ Top # Parent[cur]
        BY <3>2, <4>1, <4>2
      <4> QED
        BY <1>t, <2>1, <3>1, <3>2, <4>1, <4>3
    <3> QED
      BY <3>3, <3>4
  <2> QED
    BY <2>1, <2>2, TopoAloneKeepsTop DEF TipsOfTheChain, SnapshotVersionKnown, Storing
<1>8. ASSUME NEW n, StartRewind(n), mode' = mode PROVE TipsOfTheChain'
  <2>1. /\ pc = "idle" /\ UNCHANGED <<file, topo, tips, cur, grown>>
        /\ pc' = "clean" \/ (pc' = pc /\ reload')
    BY <1>8 DEF StartRewind, disk
  <2> QED
    BY <2>1 DEF TipsInv, TipsOfTheChain
<1>9. CASE CleanRecord \/ RewindUnlocks
  BY <1>9 DEF CleanRecord, RewindUnlocks, Unlock, TipsOfTheChain
<1>10. CASE Initialise_Chain_From_DB
  <2>1. pc = "idle" /\ pc' = pc /\ tips' = {Top} /\ UNCHANGED <<file, topo>>
    BY <1>10 DEF Initialise_Chain_From_DB, disk
  <2>2. Count # 0 => Top \in Block /\ SnapshotVersionKnown(Top) /\ Height[Top] = Load_TOPO_HEIGHT
    <3>1. SUFFICES ASSUME Count # 0
                   PROVE  Top \in Block /\ SnapshotVersionKnown(Top) /\ Height[Top] = Load_TOPO_HEIGHT
      OBVIOUS
    <3>2. Used(Load_TOPO_HEIGHT) /\ Load_TOPO_HEIGHT \in Position /\ Top \in Block
          /\ Top = topo[Load_TOPO_HEIGHT].block
      BY <1>t, <3>1, TopIsUsed, TopIsBlockOrNone DEF TypeOK
    <3> QED
      BY <1>h, <3>1, <3>2 DEF TipsInv, OneChainInv, Stored, SnapshotVersionKnown
  <2> QED
    BY <2>1, <2>2, TopoAloneKeepsTop DEF TipsOfTheChain, SnapshotVersionKnown, Storing
<1>11. CASE Start \/ GenesisAdded
  <2>1. mode' \in {"check", "up"} => reload'
    BY <1>11 DEF Start, GenesisAdded
  <2>2. UNCHANGED <<file, topo, pc, cur>>
    BY <1>11 DEF Start, GenesisAdded, disk, locals
  <2> QED
    BY <2>1, <2>2 DEF TipsInv, TipsOfTheChain, SnapshotVersionKnown
<1>12. CASE Booted
  <2>1. UNCHANGED <<file, topo, tips, reload, pc, cur, grown>> /\ mode = "check"
    BY <1>12 DEF Booted, disk, locals
  <2> QED
    BY <2>1, DiskAloneKeepsTips DEF TipsInv
<1> QED
  BY <1>0, <1>1, <1>2, <1>3, <1>4, <1>5, <1>6, <1>7, <1>8, <1>9, <1>10, <1>11, <1>12
  DEF Next, Work, Fault, AddBlock, AddGenesis, Rewind, BootRewind, StartRewind, Crash, WriteFails,
      RestoreCopy

\* Whatever is added, reorganised or rewound, and although a block may be added
\* between a rewind and its reload: when no call holds the lock and no reload is
\* owed, the tips are blocks of the top height whose snapshots can be loaded, and
\* the top is one of them.  Without faults only: a panic in the loop leaves a new
\* top with the old tips.
THEOREM TipsStayAtTheTop ==
    ASSUME Faults = {}
    PROVE  Spec => []TipsAreTheTop
<1>1. Init => TipsInv
  <2>1. Init => TipsOfTheChain
    BY DEF Init, TipsOfTheChain
  <2> QED
    BY <2>1, StatesInit, IndexInit, OneChainInit DEF TipsInv
<1>2. TipsInv /\ [Next]_vars => TipsInv'
  BY StoredTopIsThere, StatesStep, IndexStep, OneChainStep, TipsStep DEF TipsInv, StatesInv, OneChainInv
<1>3. TipsInv => TipsAreTheTop
  <2> SUFFICES ASSUME TipsInv, mode = "up", pc = "idle", ~ reload
               PROVE  /\ Top \in tips
                      /\ \A t \in tips : /\ Height[t] = Get_Height
                                         /\ SnapshotVersionKnown(t) /\ SnapshotLoads(file[t])
    BY DEF TipsAreTheTop
  <2>1. Count # 0 /\ mode \in {"check", "up"} /\ pc # "clean"
    BY TopIsUsed DEF TipsInv, IndexInv, Grounded
  <2>2. Get_Height = Load_TOPO_HEIGHT
    BY StoredTopIsThere, HeightIsLast DEF TipsInv, StatesInv, IndexInv, OneChainInv
  <2> QED
    BY <2>1, <2>2 DEF TipsInv, TipsOfTheChain, StatesInv, FilesNameTheirState, SnapshotVersionKnown
<1> QED
  BY <1>1, <1>2, <1>3, PTL DEF Spec

-----------------------------------------------------------------------------
(***************************************************************************)
(* The refinement.                                                         *)
(***************************************************************************)

\* The chain a longest-chain node follows is executed all the way down.
THEOREM KnownStaysATree == Abstract!Spec => []Abstract!KnownIsATree
<1> USE BlockTreeAssumption DEF Abstract!KnownIsATree, Abstract!WellPlaced
<1>1. Abstract!Init => Abstract!KnownIsATree
  BY DEF Abstract!Init
<1>2. Abstract!KnownIsATree /\ [Abstract!Next]_(Abstract!vars) => Abstract!KnownIsATree'
  <2> SUFFICES ASSUME Abstract!KnownIsATree, [Abstract!Next]_(Abstract!vars)
               PROVE  Abstract!KnownIsATree'
    OBVIOUS
  <2>1. ASSUME NEW b \in Block, Abstract!Accept(b) PROVE Abstract!KnownIsATree'
    BY <2>1 DEF Abstract!Accept
  <2>2. ASSUME NEW b \in Block, Abstract!Adopt(b) PROVE Abstract!KnownIsATree'
    BY <2>2 DEF Abstract!Adopt
  <2>3. CASE Abstract!Retreat
    <3>1. Top # Genesis
      BY <2>3 DEF Abstract!Retreat
    <3> QED
      BY <2>3, <3>1 DEF Abstract!Retreat
  <2>4. CASE UNCHANGED Abstract!vars
    BY <2>4 DEF Abstract!vars
  <2> QED
    BY <2>1, <2>2, <2>3, <2>4 DEF Abstract!Next
<1> QED
  BY <1>1, <1>2, PTL DEF Abstract!Spec

-----------------------------------------------------------------------------
\* What the mapping needs beyond OneChainInv.

\* The first record the loop writes is the new top; from then on it writes below.
Rising == pc = "fix" => \/ \E i \in Position : i > Height[fix] /\ Used(i)
                        \/ \A i \in Position : i >= Height[fix] => ~ Used(i)

\* The genesis record is there as soon as anything is executed, except while the
\* genesis block itself is being added.
Rooted == /\ ~ Used(0) /\ commits # <<>>
                => /\ pc \in {"delete", "restore", "fix"} /\ cur = Genesis
                   /\ pc = "fix" => fix = Genesis
          /\ pc \in {"execute", "delete", "restore"} /\ cur = Genesis => grown

\* A rewind gives the top up, and keeps the record of height 1.
Falling == pc = "clean" => /\ cut = Load_TOPO_HEIGHT
                           /\ floor >= 0
                           /\ cut > floor => floor >= 1

MappingInv == StatesInv /\ OneChainInv /\ Rising /\ Rooted /\ Falling

LEMMA MappingInit == Init => MappingInv
<1> SUFFICES ASSUME Init PROVE MappingInv
  OBVIOUS
<1>1. StatesInv /\ OneChainInv
  BY StatesInit, OneChainInit
<1>2. Rising /\ Rooted /\ Falling
  BY DEF Init, Rising, Rooted, Falling
<1> QED
  BY <1>1, <1>2 DEF MappingInv

\* A rewind that is not refused keeps position 0, and position 1 if it was used.
LEMMA StartRewindFalls ==
    ASSUME MappingInv, NEW n \in 1..(MaxHeight + 1), StartRewind(n), pc' = "clean"
    PROVE  /\ cut' = Load_TOPO_HEIGHT
           /\ floor' >= 0
           /\ cut' > floor' => floor' >= 1
<1> USE BlockTreeAssumption
<1>t. TypeOK /\ RecordsNameTheirState /\ topo \in [Position -> Record] /\ pc = "idle"
  BY DEF MappingInv, StatesInv, TypeOK, StartRewind
<1>1. /\ ~ RewindRefused(n)
      /\ cut' = Load_TOPO_HEIGHT /\ floor' = Load_TOPO_HEIGHT - Rewindable(n)
  BY <1>t DEF StartRewind
<1>2. /\ Load_TOPO_HEIGHT \in Nat /\ n \in Nat /\ n <= Load_TOPO_HEIGHT
      /\ Rewindable(n) \in 0..n
      /\ \A s \in 0..(Rewindable(n) - 1) : ~ StopsRewind(n, s)
  BY <1>1, <1>t, TopIsBlockOrNone, RewindableCounts DEF RewindRefused, Position
<1>3. ASSUME Rewindable(n) = Load_TOPO_HEIGHT, Load_TOPO_HEIGHT >= 1 PROVE FALSE
  <2>1. ~ StopsRewind(n, Load_TOPO_HEIGHT - 1)
    BY <1>2, <1>3
  <2>2. ~ (topo[1].block # NoBlock /\ Height[topo[1].block] = 1)
    BY <1>2, <2>1 DEF StopsRewind
  <2>3. Count # 0 /\ 1 \in 1..(Count - 1) /\ 1 \in Position
    BY <1>t, <1>2, <1>3, UsedUpToCount, TopIsBlockOrNone DEF Load_TOPO_HEIGHT, Position
  <2>4. topo[1].block # NoBlock
    BY <1>t, <2>3, LinkedRecordsAreOneChain DEF MappingInv, OneChainInv, LinkedUpTo
  <2> QED
    BY <1>t, <2>2, <2>3, <2>4 DEF RecordsNameTheirState
<1> QED
  BY <1>1, <1>2, <1>3

LEMMA MappingStep ==
    ASSUME Faults = {}
    PROVE  MappingInv /\ [Next]_vars => MappingInv'
<1> SUFFICES ASSUME MappingInv, [Next]_vars PROVE MappingInv'
  OBVIOUS
<1> USE BlockTreeAssumption, ChainAssumption
<1>i. StatesInv /\ OneChainInv /\ TypeOK
  BY DEF MappingInv, StatesInv
<1>n. StatesInv' /\ OneChainInv' /\ TypeOK'
  BY <1>i, StatesStep, OneChainStep DEF StatesInv
<1>k. SUFFICES Rising' /\ Rooted' /\ Falling'
  BY <1>n DEF MappingInv
<1>0. CASE UNCHANGED vars
  BY <1>0, TopoAloneKeepsTop DEF vars, disk, locals, MappingInv, Rising, Rooted, Falling, Used
<1>1. ASSUME NEW b \in Block, BeginAdd(b) PROVE Rising' /\ Rooted' /\ Falling'
  BY <1>1 DEF BeginAdd, MappingInv, Rising, Rooted, Falling, Used
<1>2. CASE StoreBlock
  <2>1. pc = "store" /\ pc' = "execute" /\ UNCHANGED <<commits, topo, cur>>
    BY <1>2 DEF StoreBlock
  <2>2. cur = Genesis => grown'
    BY <1>2 DEF StoreBlock
  <2> QED
    BY <2>1, <2>2 DEF MappingInv, Rising, Rooted, Falling, Used
<1>3. CASE Execute
  <2>1. pc = "execute" /\ pc' = "delete" /\ UNCHANGED <<topo, cur, grown>>
    BY <1>3 DEF Execute
  <2>2. ~ Used(0) => cur = Genesis
    <3>1. cur # Genesis => commits # <<>>
      BY <1>3, <1>i DEF Execute, BaseLoads, SnapshotLoads
    <3> QED
      BY <2>1, <3>1 DEF MappingInv, Rooted
  <2> QED
    BY <2>1, <2>2 DEF MappingInv, Rising, Rooted, Falling, Used
<1>4. CASE DeleteUnversioned
  BY <1>4 DEF DeleteUnversioned, locals, MappingInv, Rising, Rooted, Falling, Used
<1>5. CASE StoreVersioned
  <2>1. /\ pc = "restore" /\ fix' = cur /\ UNCHANGED <<commits, topo, cur, grown>>
        /\ pc' = IF grown THEN "fix" ELSE "tips"
    BY <1>5 DEF StoreVersioned
  <2>2. Rising'
    BY <1>i, <2>1 DEF OneChainInv, Adding, Rising, Used
  <2>3. Rooted' /\ Falling'
    BY <2>1 DEF MappingInv, Rooted, Falling, Used
  <2> QED
    BY <2>2, <2>3
<1>6. ASSUME NEW next, WriteTopo(next)
      PROVE  /\ pc = "fix" /\ commits' = commits /\ fix \in Block /\ Height[fix] \in Position
             /\ \A i \in Position : topo'[i] = IF i = Height[fix]
                                                 THEN [block |-> fix, version |-> version]
                                                 ELSE topo[i]
  BY <1>6, <1>i DEF WriteTopo, TypeOK, Position
<1>7. CASE FixTopo
  <2>1. /\ WriteTopo(~ Linked /\ SnapshotVersionKnown(Parent[fix])) /\ Height[fix] # 0
        /\ fix' = Parent[fix] /\ UNCHANGED <<pc, cur, grown>>
    BY <1>7 DEF FixTopo, WriteTopo, Linked
  <2>2. fix # Genesis /\ Height[fix] = Height[Parent[fix]] + 1 /\ Parent[fix] \in Block
    BY <1>i, <2>1, <1>6 DEF OneChainInv, Placed, WellPlaced
  <2>3. topo'[Height[fix]].block # NoBlock
    BY <2>1, <1>6
  <2>4. Rising'
    BY <2>1, <2>2, <2>3, <1>6 DEF Rising, Used
  <2>5. Rooted'
    <3>1. commits # <<>> => Used(0)
      BY <2>1, <2>2, <1>6 DEF MappingInv, Rooted
    <3>2. commits # <<>> => topo'[0].block # NoBlock
      BY <2>1, <3>1, <1>6 DEF Used, Position
    <3>3. pc' = "fix" /\ commits' = commits
      BY <2>1, <1>6
    <3> QED
      BY <3>2, <3>3 DEF Rooted, Used
  <2>6. Falling'
    BY <2>1, <1>6 DEF Falling
  <2> QED
    BY <2>4, <2>5, <2>6
<1>8. CASE FixDone
  <2>1. WriteTopo(Linked) /\ pc' = "tips"
    BY <1>8 DEF FixDone
  <2>2. 0 \in Position /\ (fix = Genesis => topo'[0].block # NoBlock)
    BY <2>1, <1>6 DEF Position
  <2>3. Rooted'
    BY <2>1, <2>2, <1>6 DEF MappingInv, Rooted, Used
  <2> QED
    BY <2>1, <2>3 DEF Rising, Falling
<1>9. CASE ExecutePanics \/ UpdateTips \/ RewindUnlocks
  <2>1. pc \notin {"delete", "restore", "fix"} /\ pc' = "idle" /\ UNCHANGED disk
    BY <1>9 DEF ExecutePanics, UpdateTips, RewindUnlocks, Unlock
  <2> QED
    BY <2>1 DEF disk, MappingInv, Rising, Rooted, Falling, Used
<1>10. CASE FixPanics
  BY <1>10, <1>i, NothingPanics
<1>11. ASSUME NEW n \in 1..(MaxHeight + 1), StartRewind(n) PROVE Rising' /\ Rooted' /\ Falling'
  <2>1. pc = "idle" /\ pc' \in {"idle", "clean"} /\ UNCHANGED disk
    BY <1>11 DEF StartRewind
  <2>2. Rising' /\ Rooted'
    BY <2>1 DEF disk, MappingInv, Rising, Rooted, Used
  <2>3. Falling'
    BY <1>11, <2>1, StartRewindFalls, TopoAloneKeepsTop DEF disk, Falling
  <2> QED
    BY <2>2, <2>3
<1>12. CASE CleanRecord
  <2>1. /\ pc = "clean" /\ pc' = "clean" /\ UNCHANGED <<commits, cur, floor>>
        /\ cut > floor /\ cut' = cut - 1 /\ topo' = [topo EXCEPT ![cut] = Clean]
    BY <1>12 DEF CleanRecord
  <2>2. /\ cut = Load_TOPO_HEIGHT /\ floor >= 1 /\ cut \in Position /\ floor \in Int
        /\ topo \in [Position -> Record]
    BY <1>i, <2>1, TopIsBlockOrNone DEF MappingInv, Falling, TypeOK
  <2>3. \A i \in Position : topo'[i] = IF i = cut THEN Clean ELSE topo[i]
    BY <2>1, <2>2
  <2>4. Rooted'
    BY <2>1, <2>2, <2>3 DEF MappingInv, Rooted, Used, Position
  <2>5. Count # 0 /\ cut - 1 \in 1..(Count - 1) /\ cut = Count - 1
    BY <1>i, <2>1, <2>2, UsedUpToCount DEF Load_TOPO_HEIGHT, Position
  <2>6. cut - 1 \in Position /\ topo[cut - 1].block # NoBlock
    BY <1>i, <2>1, <2>5, <2>2, LinkedRecordsAreOneChain DEF OneChainInv, LinkedUpTo, Position
  <2>7. \A i \in Position : i > cut - 1 => topo'[i].block = NoBlock
    BY <1>i, <2>1, <2>2, <2>3 DEF OneChainInv, Cleaned, Used, Clean, Position
  <2>8. Load_TOPO_HEIGHT' = cut - 1
    BY <1>n, <2>2, <2>3, <2>6, <2>7, LastUsedNext DEF LastUsedIsTop, Used, Position
  <2> QED
    BY <2>1, <2>2, <2>4, <2>8 DEF Rising, Falling
<1>13. CASE Initialise_Chain_From_DB \/ Start \/ GenesisAdded \/ Booted
  <2>1. UNCHANGED <<disk, pc, locals>>
    BY <1>13 DEF Initialise_Chain_From_DB, Start, GenesisAdded, Booted
  <2> QED
    BY <2>1, TopoAloneKeepsTop DEF disk, locals, MappingInv, Rising, Rooted, Falling, Used
<1>14. 1 \in 1..(MaxHeight + 1)
  OBVIOUS
<1> QED
  BY <1>0, <1>1, <1>2, <1>3, <1>4, <1>5, <1>7, <1>8, <1>9, <1>10, <1>11, <1>12, <1>13, <1>14
  DEF Next, Work, Fault, AddBlock, AddGenesis, Rewind, BootRewind, Crash, WriteFails, RestoreCopy
-----------------------------------------------------------------------------
\* The mapping.

\* What the loop writes is a new top or lies below the top.
LEMMA WriteTopoMaps ==
    ASSUME MappingInv, MappingInv', NEW next, WriteTopo(next)
    PROVE  \/ Top' = Top
           \/ Abstract!Adopt(fix)
<1> USE BlockTreeAssumption, ChainAssumption
<1>t. TypeOK /\ TypeOK' /\ RecordsNameTheirState
  BY DEF MappingInv, StatesInv
<1>1. /\ pc = "fix" /\ commits' = commits /\ fix \in Block /\ Height[fix] \in Position
      /\ \A i \in Position : topo'[i] = IF i = Height[fix]
                                          THEN [block |-> fix, version |-> version]
                                          ELSE topo[i]
  BY <1>t DEF WriteTopo, TypeOK, Position
<1>2. CASE \E i \in Position : i > Height[fix] /\ Used(i)
  <2>1. PICK i \in Position : i > Height[fix] /\ Used(i)
    BY <1>2
  <2>2. Count # 0 /\ Used(Count - 1) /\ Count \in 1..(MaxHeight + 1)
    BY <1>t, <2>1, UsedUpToCount
  <2>3. Count > i
    BY <1>t, <2>1, <2>2, UsedUpToCount DEF Position
  <2>4. Count - 1 \in Position /\ Count - 1 > Height[fix]
    BY <1>1, <2>1, <2>2, <2>3 DEF Position
  <2>5. \A j \in Position : j > Count - 1 => topo'[j].block = NoBlock
    BY <1>t, <1>1, <2>2, <2>4, UsedUpToCount DEF Used, Position
  <2>6. Top = topo[Count - 1].block
    BY <1>t, <2>2, TopIsUsed
  <2>7. topo'[Count - 1] = topo[Count - 1] /\ topo'[Count - 1].block # NoBlock
    BY <1>1, <2>2, <2>4 DEF Used
  <2>8. Top' = topo'[Count - 1].block
    BY <1>t, <2>4, <2>5, <2>7, LastUsedNext DEF LastUsedIsTop, Used
  <2> QED
    BY <2>6, <2>7, <2>8
<1>3. CASE \A i \in Position : i >= Height[fix] => ~ Used(i)
  <2>1. topo'[Height[fix]].block = fix /\ fix # NoBlock
    BY <1>1
  <2>2. \A j \in Position : j > Height[fix] => topo'[j].block = NoBlock
    BY <1>1, <1>3 DEF Used, Position
  <2>3. Top' = fix
    BY <1>t, <1>1, <2>1, <2>2, LastUsedNext DEF LastUsedIsTop, Used
  <2>4. /\ SnapshotLoads(version) /\ commits[version].block = fix
    BY <1>1 DEF MappingInv, StatesInv, VersionInHand
  <2>5. fix \in {commits[v].block : v \in 1..Len(commits)} /\ commits # <<>>
    BY <1>t, <2>4 DEF SnapshotLoads, TypeOK
  <2>6. IF Top = NoBlock THEN fix = Genesis ELSE Height[fix] > Height[Top]
    <3>1. CASE Count = 0
      <4>1. ~ Used(0) /\ Top = NoBlock
        BY <1>t, <3>1, UsedUpToCount, TopIsUsed DEF Position
      <4> QED
        BY <1>1, <2>5, <4>1 DEF MappingInv, Rooted
    <3>2. CASE Count # 0
      <4>1. /\ Top # NoBlock /\ Used(Load_TOPO_HEIGHT) /\ Top = topo[Load_TOPO_HEIGHT].block
            /\ Load_TOPO_HEIGHT \in Position
        BY <1>t, <3>2, TopIsUsed, TopIsBlockOrNone DEF TypeOK
      <4>2. Height[Top] = Load_TOPO_HEIGHT
        BY <1>t, <4>1 DEF RecordsNameTheirState, Used
      <4>3. Load_TOPO_HEIGHT < Height[fix]
        BY <1>1, <1>3, <4>1 DEF Position
      <4> QED
        BY <4>1, <4>2, <4>3
    <3> QED
      BY <3>1, <3>2
  <2>7. {commits[v].block : v \in 1..Len(commits)}' = {commits[v].block : v \in 1..Len(commits)}
    BY <1>1
  <2> QED
    BY <2>3, <2>5, <2>6, <2>7 DEF Abstract!Adopt
<1> QED
  BY <1>1, <1>2, <1>3 DEF MappingInv, Rising

LEMMA StepMaps ==
    ASSUME Faults = {}
    PROVE  MappingInv /\ MappingInv' /\ [Next]_vars => [Abstract!Next]_(Abstract!vars)
<1> SUFFICES ASSUME MappingInv, MappingInv', [Next]_vars
             PROVE  [Abstract!Next]_(Abstract!vars)
  OBVIOUS
<1> USE BlockTreeAssumption, ChainAssumption
<1>t. TypeOK /\ TypeOK' /\ RecordsNameTheirState /\ SnapshotsFollowTips
  BY DEF MappingInv, StatesInv
<1> DEFINE known == {commits[v].block : v \in 1..Len(commits)}
<1>0. ASSUME UNCHANGED <<commits, topo>> PROVE [Abstract!Next]_(Abstract!vars)
  BY <1>0, TopoAloneKeepsTop DEF Abstract!vars
<1>1. CASE Execute
  <2>1. /\ pc = "execute" /\ BaseLoads /\ topo' = topo
        /\ commits' = Append(commits, [block |-> cur, base |-> Base])
        /\ cur \in Block
    BY <1>1, <1>t DEF Execute, TypeOK
  <2>2. /\ Len(commits) \in Nat /\ Len(commits') = Len(commits) + 1
        /\ \A v \in 1..Len(commits) : commits'[v] = commits[v]
        /\ commits'[Len(commits) + 1].block = cur
    BY <1>t, <2>1 DEF TypeOK
  <2>3. known' = known \cup {cur}
    <3>1. \A v \in 1..Len(commits') : v \in 1..Len(commits) \/ v = Len(commits) + 1
      BY <2>2
    <3>2. \A v \in 1..Len(commits) : v \in 1..Len(commits')
      BY <2>2
    <3>3. Len(commits) + 1 \in 1..Len(commits')
      BY <2>2
    <3> QED
      BY <2>2, <3>1, <3>2, <3>3
  <2>4. Top' = Top
    BY <2>1, TopoAloneKeepsTop
  <2>5. CASE cur \in known
    BY <2>3, <2>4, <2>5 DEF Abstract!vars
  <2>6. CASE cur # Genesis
    <3>1. file[Parent[cur]] \in 1..Len(commits) /\ Parent[cur] \in Block
      BY <2>1, <2>6, <1>t DEF BaseLoads, SnapshotLoads, TypeOK
    <3>2. commits[file[Parent[cur]]].block = Parent[cur]
      BY <2>1, <2>6, <3>1 DEF BaseLoads, SnapshotVersionKnown, MappingInv, StatesInv,
                              FilesNameTheirState
    <3>3. Parent[cur] \in known
      BY <3>1, <3>2
    <3>4. Abstract!WellPlaced(cur)
      BY DEF MappingInv, OneChainInv, Placed, WellPlaced, Abstract!WellPlaced
    <3>5. Abstract!Accept(cur)
      BY <2>3, <2>4, <2>6, <3>3, <3>4 DEF Abstract!Accept
    <3> QED
      BY <2>1, <3>5 DEF Abstract!Next, Abstract!Accept
  <2>7. CASE cur = Genesis /\ cur \notin known
    <3>1. commits = <<>>
      <4>1. SUFFICES ASSUME commits # <<>> PROVE FALSE
        OBVIOUS
      <4>2. 1 \in 1..Len(commits)
        BY <1>t, <2>2, <4>1 DEF TypeOK
      <4>3. commits[1].block # Genesis => commits[1].base \in 1..0
        BY <1>t, <4>2 DEF SnapshotsFollowTips
      <4>4. commits[1].block \in known
        BY <4>2
      <4> QED
        BY <2>7, <4>3, <4>4
    <3>2. known = {}
      BY <3>1
    <3>3. Abstract!Accept(cur)
      BY <2>3, <2>4, <2>7, <3>2 DEF Abstract!Accept
    <3> QED
      BY <2>1, <3>3 DEF Abstract!Next, Abstract!Accept
  <2> QED
    BY <2>5, <2>6, <2>7
<1>2. CASE FixTopo \/ FixDone \/ FixPanics
  <2>1. commits' = commits /\ fix \in Block
    BY <1>2, <1>t DEF FixTopo, FixDone, FixPanics, WriteTopo, TypeOK
  <2>2. Top' = Top \/ Abstract!Adopt(fix)
    BY <1>2, WriteTopoMaps DEF FixTopo, FixDone, FixPanics
  <2> QED
    BY <2>1, <2>2 DEF Abstract!Next, Abstract!Adopt, Abstract!vars
<1>3. CASE CleanRecord
  <2>1. /\ pc = "clean" /\ commits' = commits
        /\ cut > floor /\ topo' = [topo EXCEPT ![cut] = Clean]
    BY <1>3 DEF CleanRecord
  <2>2. /\ cut = Load_TOPO_HEIGHT /\ floor >= 1 /\ cut \in Position /\ floor \in Int
        /\ topo \in [Position -> Record]
    BY <1>t, <2>1, TopIsBlockOrNone DEF MappingInv, Falling, TypeOK
  <2>3. \A i \in Position : topo'[i] = IF i = cut THEN Clean ELSE topo[i]
    BY <2>1, <2>2
  <2>4. Count # 0 /\ cut \in 2..(Count - 1) /\ cut = Count - 1
    BY <1>t, <2>1, <2>2, UsedUpToCount DEF Load_TOPO_HEIGHT, Position
  <2>5. LinkedUpTo(Count - 1)
    BY <2>1, <2>4, LinkedRecordsAreOneChain DEF MappingInv, OneChainInv
  <2>6. /\ cut - 1 \in Position /\ topo[cut - 1].block # NoBlock
        /\ topo[cut].block # NoBlock /\ topo[cut - 1].block = Parent[topo[cut].block]
    BY <2>2, <2>4, <2>5 DEF LinkedUpTo, Position
  <2>7. \A i \in Position : i > cut - 1 => topo'[i].block = NoBlock
    BY <2>1, <2>2, <2>3 DEF MappingInv, OneChainInv, Cleaned, Used, Clean, Position
  <2>8. Top' = topo[cut - 1].block
    BY <1>t, <2>2, <2>3, <2>6, <2>7, LastUsedNext DEF LastUsedIsTop, Used, Position
  <2>9. Top = topo[cut].block /\ Height[Top] > 1
    BY <1>t, <2>2, <2>4, <2>6, TopIsUsed DEF RecordsNameTheirState, Position
  <2>10. Top \in known
    BY <1>t, <2>2, <2>6, <2>9 DEF RecordsNameTheirState, SnapshotLoads
  <2>11. Abstract!Retreat
    BY <2>1, <2>6, <2>8, <2>9, <2>10 DEF Abstract!Retreat
  <2> QED
    BY <2>11 DEF Abstract!Next
<1>4. CASE StoreBlock \/ ExecutePanics \/ DeleteUnversioned \/ StoreVersioned \/ UpdateTips
  BY <1>0, <1>4 DEF StoreBlock, ExecutePanics, DeleteUnversioned, StoreVersioned, UpdateTips, disk
<1>5. CASE RewindUnlocks \/ Initialise_Chain_From_DB \/ Start \/ GenesisAdded \/ Booted
  BY <1>0, <1>5 DEF RewindUnlocks, Initialise_Chain_From_DB, Start, GenesisAdded, Booted, disk
<1>6. ASSUME NEW b \in Block, BeginAdd(b) PROVE UNCHANGED <<commits, topo>>
  BY <1>6 DEF BeginAdd
<1>7. ASSUME NEW n, StartRewind(n) PROVE UNCHANGED <<commits, topo>>
  BY <1>7 DEF StartRewind, disk
<1>8. CASE UNCHANGED vars
  BY <1>0, <1>8 DEF vars, disk
<1> QED
  BY <1>0, <1>1, <1>2, <1>3, <1>4, <1>5, <1>6, <1>7, <1>8
  DEF Next, Work, Fault, AddBlock, AddGenesis, Rewind, BootRewind, Crash, WriteFails, RestoreCopy

\* A node that is never killed and can write its files changes the top of its
\* chain only to a block it has executed and that is strictly higher, or in a
\* rewind one block back: in every state, also between the writes of an addition.
THEOREM ImplementsLongestChain ==
    ASSUME Faults = {}
    PROVE  Spec => FollowsLongestChain
<1>1. Init => MappingInv
  BY MappingInit
<1>2. MappingInv /\ [Next]_vars => MappingInv'
  BY MappingStep
<1>3. MappingInv /\ MappingInv' /\ [Next]_vars => [Abstract!Next]_(Abstract!vars)
  BY StepMaps
<1>4. Init => Abstract!Init
  <2> SUFFICES ASSUME Init PROVE Abstract!Init
    OBVIOUS
  <2>1. TypeOK /\ \A i \in Position : ~ Used(i)
    BY TypeInit DEF Init, Used, Clean
  <2>2. Top = NoBlock
    BY <2>1, UsedUpToCount, TopIsUsed, BlockTreeAssumption DEF Position
  <2>3. 1..Len(commits) = {}
    BY DEF Init
  <2> QED
    BY <2>2, <2>3 DEF Abstract!Init
<1> QED
  BY <1>1, <1>2, <1>3, <1>4, PTL DEF Spec, FollowsLongestChain, Abstract!Spec
=============================================================================
