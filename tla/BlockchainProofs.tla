-------------------------- MODULE BlockchainProofs --------------------------
(***************************************************************************)
(* What holds of Blockchain for every tree of blocks and every bound.      *)
(***************************************************************************)
EXTENDS Blockchain, Arithmetic

-----------------------------------------------------------------------------
\* Reading the topo file.

\* Count is one more than the position of the last record that is used, and 0
\* if no record is.
LEMMA CountIsLastUsed ==
    ASSUME topo \in [Position -> Record]
    PROVE  /\ Count \in 0..(MaxHeight + 1)
           /\ Count = 0 <=> \A i \in Position : topo[i] = Clean
           /\ Count # 0 => topo[Count - 1] # Clean
           /\ \A i \in Position : i >= Count => topo[i] = Clean
<1> USE BlockTreeAssumption DEF Position
<1> DEFINE used == {i \in Position : topo[i] # Clean}
<1>1. CASE used = {}
  <2>1. Count = 0
    BY <1>1 DEF Count
  <2> QED
    BY <1>1, <2>1
<1>2. CASE used # {}
  <2> DEFINE last == CHOOSE i \in used : \A j \in used : j <= i
  <2>1. used \in SUBSET Nat /\ \A j \in used : j <= MaxHeight
    OBVIOUS
  <2>2. \E i \in used : \A j \in used : j <= i
    BY <1>2, <2>1, GreatestElement
  <2>3. last \in used /\ \A j \in used : j <= last
    BY <2>2
  <2>4. Count = 1 + last
    BY <1>2 DEF Count
  <2> HIDE DEF last
  <2>5. Count \in 1..(MaxHeight + 1) /\ Count - 1 = last
    BY <2>3, <2>4
  <2> QED
    BY <2>3, <2>5
<1> QED
  BY <1>1, <1>2

\* The top position is a position of the file, so the top is a block or nothing.
LEMMA TopIsBlockOrNone ==
    ASSUME topo \in [Position -> Record]
    PROVE  /\ Load_TOPO_HEIGHT \in Position
           /\ Top \in Block \cup {NoBlock}
           /\ Top = NoBlock <=> Count = 0
<1>1. Load_TOPO_HEIGHT \in Position
  BY CountIsLastUsed, BlockTreeAssumption DEF Load_TOPO_HEIGHT, Position
<1>2. topo[Load_TOPO_HEIGHT] \in Record
  BY <1>1
<1>3. Top \in Block \cup {NoBlock}
  BY <1>2 DEF Top, Record, Clean
<1>4. Top = NoBlock <=> topo[Load_TOPO_HEIGHT] = Clean
  BY <1>2, ChainAssumption DEF Top, Record, Clean
<1>5. topo[Load_TOPO_HEIGHT] = Clean <=> Count = 0
  BY <1>1, CountIsLastUsed DEF Load_TOPO_HEIGHT, Position
<1> QED
  BY <1>1, <1>3, <1>4, <1>5

\* The loop of Rewind_Chain counts to a number of records: it stops at the
\* latest when it has counted as many as it was asked for.
LEMMA RewindableCounts ==
    ASSUME topo \in [Position -> Record], NEW n \in 1..(MaxHeight + 1)
    PROVE  /\ Rewindable(n) \in 0..n
           /\ StopsRewind(n, Rewindable(n))
           /\ \A s \in 0..(Rewindable(n) - 1) : ~ StopsRewind(n, s)
<1> DEFINE stops == {r \in 0..n : StopsRewind(n, r)}
<1>1. n \in Nat
  BY BlockTreeAssumption
<1>2. StopsRewind(n, n)
  BY <1>1 DEF StopsRewind
<1>3. stops \in SUBSET Nat /\ stops # {}
  BY <1>1, <1>2
<1> HIDE DEF stops
<1>4. PICK r \in stops : \A s \in stops : r <= s
  BY <1>3, LeastElement
<1>5. /\ r \in 0..n /\ StopsRewind(n, r)
      /\ \A s \in 0..(r - 1) : ~ StopsRewind(n, s)
  BY <1>1, <1>4 DEF stops
<1> QED
  BY <1>5 DEF Rewindable

-----------------------------------------------------------------------------
\* Types.

\* Releasing the lock leaves the locals with their types.
LEMMA UnlockTypes ==
    ASSUME Unlock
    PROVE  /\ pc' = "idle" /\ cur' \in Block /\ fix' \in Block /\ grown' \in BOOLEAN
           /\ version' \in Nat /\ cut' \in Int /\ floor' \in Int
<1>1. pc' = "idle" /\ cur' \in Block /\ fix' \in Block
  BY BlockTreeAssumption DEF Unlock
<1>2. grown' \in BOOLEAN
  BY Zenon DEF Unlock
<1>3. version' \in Nat /\ cut' \in Int /\ floor' \in Int
  BY DEF Unlock
<1> QED
  BY <1>1, <1>2, <1>3

LEMMA TypeInit == Init => TypeOK
<1> SUFFICES ASSUME Init PROVE TypeOK
  OBVIOUS
<1>1. Genesis \in Block
  BY BlockTreeAssumption
<1>2. <<>> \in Seq(Commit)
  OBVIOUS
<1>3. Clean \in Record
  BY DEF Record
<1>4. reload \in BOOLEAN /\ grown \in BOOLEAN
  BY Zenon DEF Init
<1> QED
  BY <1>1, <1>2, <1>3, <1>4 DEF Init, TypeOK, NoFile

LEMMA TypeStep == TypeOK /\ [Next]_vars => TypeOK'
<1> SUFFICES ASSUME TypeOK, [Next]_vars PROVE TypeOK'
  OBVIOUS
<1> USE BlockTreeAssumption DEF NoFile, disk, locals, bounds
<1>0. CASE UNCHANGED vars
  BY <1>0 DEF TypeOK, vars
<1>1. ASSUME NEW b \in Block, BeginAdd(b), UNCHANGED mode PROVE TypeOK'
  BY <1>1 DEF TypeOK, BeginAdd
<1>2. CASE StoreBlock
  BY <1>2 DEF TypeOK, StoreBlock
<1>3. CASE Execute
  <2>1. Parent[cur] \in Block /\ Len(commits) \in Nat
    BY DEF TypeOK
  <2>2. Base \in Nat
    BY <1>3, <2>1 DEF TypeOK, Execute, BaseLoads, Base, SnapshotVersionKnown
  <2>3. [block |-> cur, base |-> Base] \in Commit
    BY <2>2 DEF TypeOK, Commit
  <2>4. commits' \in Seq(Commit)
    BY <1>3, <2>3 DEF TypeOK, Execute
  <2> QED
    BY <1>3, <2>1, <2>4 DEF TypeOK, Execute
<1>4. CASE ExecutePanics
  BY <1>4, UnlockTypes DEF TypeOK, ExecutePanics
<1>5. CASE DeleteUnversioned
  BY <1>5 DEF TypeOK, DeleteUnversioned
<1>6. CASE StoreVersioned
  BY <1>6 DEF TypeOK, StoreVersioned
<1>7. ASSUME NEW next, WriteTopo(next) PROVE topo' \in [Position -> Record]
  <2>1. [block |-> fix, version |-> version] \in Record
    BY DEF TypeOK, Record
  <2> QED
    BY <1>7, <2>1 DEF TypeOK, WriteTopo
<1>8. CASE FixTopo
  <2>1. SnapshotVersionKnown(Parent[fix]) /\ Parent[fix] \in Block
    BY <1>8 DEF TypeOK, FixTopo, WriteTopo
  <2>2. version' \in Nat /\ fix' \in Block
    BY <1>8, <2>1 DEF TypeOK, FixTopo, SnapshotVersionKnown
  <2>3. topo' \in [Position -> Record]
    BY <1>7, <1>8 DEF FixTopo
  <2> QED
    BY <1>8, <2>2, <2>3 DEF TypeOK, FixTopo, WriteTopo
<1>9. CASE FixDone
  <2>1. topo' \in [Position -> Record]
    BY <1>7, <1>9 DEF FixDone
  <2> QED
    BY <1>9, <2>1 DEF TypeOK, FixDone, WriteTopo
<1>10. CASE FixPanics
  <2>1. topo' \in [Position -> Record]
    BY <1>7, <1>10 DEF FixPanics
  <2> QED
    BY <1>10, <2>1, UnlockTypes DEF TypeOK, FixPanics, WriteTopo
<1>11. CASE UpdateTips
  BY <1>11, UnlockTypes DEF TypeOK, UpdateTips
<1>12. CASE WriteFails
  BY <1>12, UnlockTypes DEF TypeOK, WriteFails
<1>13. ASSUME NEW n \in 1..(MaxHeight + 1), StartRewind(n), mode' = mode, rewinds' \in Nat
       PROVE  TypeOK'
  <2>1. Load_TOPO_HEIGHT \in Int /\ Rewindable(n) \in Int
    BY TopIsBlockOrNone, RewindableCounts DEF TypeOK, Position
  <2>2. reload' \in BOOLEAN /\ grown' \in BOOLEAN
    BY <1>13, Zenon DEF StartRewind, TypeOK
  <2>3. cut' \in Int /\ floor' \in Int
    BY <1>13, <2>1 DEF TypeOK, StartRewind
  <2>4. pc' \in {"idle", "clean"}
    BY <1>13 DEF StartRewind
  <2> QED
    BY <1>13, <2>2, <2>3, <2>4 DEF TypeOK, StartRewind
<1>14. CASE CleanRecord
  <2>1. topo' \in [Position -> Record]
    BY <1>14 DEF TypeOK, CleanRecord, Record
  <2> QED
    BY <1>14, <2>1 DEF TypeOK, CleanRecord
<1>15. CASE RewindUnlocks
  BY <1>15, UnlockTypes DEF TypeOK, RewindUnlocks
<1>16. CASE Initialise_Chain_From_DB
  <2>1. Top \in Block \cup {NoBlock}
    BY TopIsBlockOrNone DEF TypeOK
  <2> QED
    BY <1>16, <2>1 DEF TypeOK, Initialise_Chain_From_DB
<1>17. CASE Start \/ GenesisAdded \/ Booted
  BY <1>17 DEF TypeOK, Start, GenesisAdded, Booted
<1>18. ASSUME Stop,
              commits' \in Seq(Commit), topo' = topo, file' \in [Block -> Nat \cup {NoFile}]
       PROVE  TypeOK'
  <2>1. pc' = "idle" /\ cur' \in Block /\ fix' \in Block /\ grown' \in BOOLEAN
        /\ version' \in Nat /\ cut' \in Int /\ floor' \in Int
    BY <1>18, UnlockTypes DEF Stop
  <2>2. /\ mode' = "off" /\ tips' = {} /\ reload' = FALSE
        /\ rewinds' \in Nat /\ crashes' \in Nat
    BY <1>18 DEF Stop, TypeOK
  <2> QED
    BY <1>18, <2>1, <2>2 DEF TypeOK
<1>19. CASE Crash
  BY <1>18, <1>19 DEF TypeOK, Crash
<1>20. ASSUME NEW k \in 1..Len(commits), NEW m \in k..Len(commits), RestoreCopy(k, m)
       PROVE  TypeOK'
  <2>1. commits' \in Seq(Commit)
    BY <1>20 DEF TypeOK, RestoreCopy
  <2>2. file' \in [Block -> Nat \cup {NoFile}]
    BY <1>20 DEF TypeOK, RestoreCopy
  <2> QED
    BY <1>18, <1>20, <2>1, <2>2 DEF RestoreCopy
<1>21. CASE AddGenesis
  BY <1>1, <1>21 DEF AddGenesis, BeginAdd
<1>22. ASSUME NEW b \in Block, AddBlock(b) PROVE TypeOK'
  BY <1>1, <1>22 DEF AddBlock, BeginAdd
<1>23. ASSUME NEW n \in 1..(MaxHeight + 1), Rewind(n) PROVE TypeOK'
  <2>1. StartRewind(n) /\ rewinds' = rewinds + 1
    BY <1>23 DEF Rewind
  <2>2. mode' = mode /\ rewinds' \in Nat
    BY <2>1 DEF TypeOK, StartRewind
  <2> QED
    BY <1>13, <2>1, <2>2
<1>24. CASE BootRewind
  <2>1. StartRewind(1) /\ 1 \in 1..(MaxHeight + 1)
    BY <1>24 DEF BootRewind
  <2>2. mode' = mode /\ rewinds' \in Nat
    BY <1>24 DEF TypeOK, BootRewind, StartRewind
  <2> QED
    BY <1>13, <2>1, <2>2
<1> QED
  BY <1>0, <1>2, <1>3, <1>4, <1>5, <1>6, <1>8, <1>9, <1>10, <1>11, <1>12, <1>14, <1>15, <1>16,
     <1>17, <1>19, <1>20, <1>21, <1>22, <1>23, <1>24
  DEF Next, Work, Fault

\* Every variable keeps its type: in particular the top of the chain is a
\* record of the topo file, and a rewind cleans a whole number of records.
THEOREM TypeCorrect == Spec => []TypeOK
<1>1. Init => TypeOK
  BY TypeInit
<1>2. TypeOK /\ [Next]_vars => TypeOK'
  BY TypeStep
<1> QED
  BY <1>1, <1>2, PTL DEF Spec

-----------------------------------------------------------------------------
\* Reading an index of the right type.

Used(i) == topo[i].block # NoBlock

\* The records from Count on are clean, the one below is not.
LEMMA UsedUpToCount ==
    ASSUME TypeOK
    PROVE  /\ Count \in 0..(MaxHeight + 1)
           /\ Count # 0 => Used(Count - 1)
           /\ \A i \in Position : i >= Count => ~ Used(i)
           /\ Count = 0 => \A i \in Position : ~ Used(i)
<1>1. \A i \in Position : Used(i) <=> topo[i] # Clean
  BY ChainAssumption DEF TypeOK, Record, Clean, Used
<1>2. topo \in [Position -> Record]
  BY DEF TypeOK
<1>3. Count # 0 => Count - 1 \in Position
  BY <1>2, CountIsLastUsed, BlockTreeAssumption DEF Position
<1> QED
  BY <1>1, <1>2, <1>3, CountIsLastUsed, BlockTreeAssumption DEF Clean, Position

\* The last record that is used names the top.
LastUsedIsTop ==
    \A i \in Position :
        Used(i) /\ (\A j \in Position : j > i => ~ Used(j))
            => Count = i + 1 /\ Load_TOPO_HEIGHT = i /\ Top = topo[i].block

LEMMA LastUsed == TypeOK => LastUsedIsTop
<1> SUFFICES ASSUME TypeOK, NEW i \in Position, Used(i), \A j \in Position : j > i => ~ Used(j)
             PROVE  Count = i + 1 /\ Load_TOPO_HEIGHT = i /\ Top = topo[i].block
  BY DEF LastUsedIsTop
<1>1. Count # 0 /\ Count \in 1..(MaxHeight + 1) /\ Used(Count - 1)
  BY UsedUpToCount, BlockTreeAssumption
<1>2. i < Count
  BY <1>1, UsedUpToCount, BlockTreeAssumption DEF Position
<1>3. ~ (Count - 1 > i)
  BY <1>1, BlockTreeAssumption DEF Position
<1>4. Count = i + 1
  BY <1>1, <1>2, <1>3, BlockTreeAssumption DEF Position
<1> QED
  BY <1>4, BlockTreeAssumption DEF Load_TOPO_HEIGHT, Top, Position

LEMMA LastUsedNext == (TypeOK => LastUsedIsTop)'
BY LastUsed, PTL

\* When nothing is used below position 0, the node has no top.
LEMMA TopIsUsed ==
    ASSUME TypeOK
    PROVE  /\ Top = NoBlock <=> Count = 0
           /\ Count # 0 => /\ Used(Load_TOPO_HEIGHT) /\ Top = topo[Load_TOPO_HEIGHT].block
                           /\ Load_TOPO_HEIGHT = Count - 1
           /\ Used(0) => Count # 0
BY UsedUpToCount, TopIsBlockOrNone, BlockTreeAssumption
DEF TypeOK, Load_TOPO_HEIGHT, Top, Used, Position

\* Only the topo file says what the top is.
LEMMA TopoAloneKeepsTop ==
    topo' = topo => Count' = Count /\ Load_TOPO_HEIGHT' = Load_TOPO_HEIGHT /\ Top' = Top
BY DEF Count, Load_TOPO_HEIGHT, Top

-----------------------------------------------------------------------------
\* Versions name the state of their block.

\* The version that a call carries from one write to the next is a snapshot of
\* the block it is about to name.  This is what makes the three properties
\* inductive: the file and the topo record are written from the local variable.
VersionInHand ==
    /\ pc \in {"delete", "restore"} => SnapshotLoads(version) /\ commits[version].block = cur
    /\ pc = "fix" => SnapshotLoads(version) /\ commits[version].block = fix

StatesInv == /\ TypeOK
             /\ FilesNameTheirState
             /\ SnapshotsFollowTips
             /\ RecordsNameTheirState
             /\ VersionInHand

LEMMA StatesInit == Init => StatesInv
<1> SUFFICES ASSUME Init PROVE StatesInv
  OBVIOUS
<1>1. TypeOK
  BY TypeInit
<1>2. FilesNameTheirState /\ SnapshotsFollowTips
  BY DEF Init, FilesNameTheirState, SnapshotsFollowTips, NoFile
<1>3. RecordsNameTheirState /\ VersionInHand
  BY DEF Init, RecordsNameTheirState, VersionInHand, Clean
<1> QED
  BY <1>1, <1>2, <1>3 DEF StatesInv

\* A step that leaves the disk alone and frees the lock keeps the names.
LEMMA DiskAloneKeepsStates ==
    ASSUME StatesInv, TypeOK', UNCHANGED disk, pc' \notin {"delete", "restore", "fix"}
    PROVE  StatesInv'
BY DEF StatesInv, FilesNameTheirState, SnapshotsFollowTips, RecordsNameTheirState,
       VersionInHand, SnapshotLoads, disk

\* So does one that removes a file, or leaves it without a snapshot.
LEMMA FileGoneKeepsStates ==
    ASSUME StatesInv, TypeOK', UNCHANGED <<commits, topo, version, cur, fix>>,
           NEW b \in Block, NEW v \in {0, NoFile}, file' = [file EXCEPT ![b] = v],
           \/ pc' \notin {"delete", "restore", "fix"}
           \/ pc = "delete" /\ pc' = "restore"
    PROVE  StatesInv'
<1>1. FilesNameTheirState'
  BY DEF StatesInv, TypeOK, FilesNameTheirState, SnapshotLoads, NoFile
<1>2. SnapshotsFollowTips' /\ RecordsNameTheirState'
  BY DEF StatesInv, SnapshotsFollowTips, RecordsNameTheirState, SnapshotLoads
<1>3. VersionInHand'
  BY DEF StatesInv, VersionInHand, SnapshotLoads
<1> QED
  BY <1>1, <1>2, <1>3 DEF StatesInv

\* A record may be written for the block and the version in hand.
LEMMA WriteTopoKeepsRecords ==
    ASSUME StatesInv, NEW next, WriteTopo(next)
    PROVE  FilesNameTheirState' /\ SnapshotsFollowTips' /\ RecordsNameTheirState'
<1>1. SnapshotLoads(version) /\ commits[version].block = fix
  BY DEF StatesInv, VersionInHand, WriteTopo
<1>2. topo \in [Position -> Record] /\ fix \in Block
  BY DEF StatesInv, TypeOK
<1>3. FilesNameTheirState' /\ SnapshotsFollowTips'
  BY DEF StatesInv, FilesNameTheirState, SnapshotsFollowTips, SnapshotLoads, WriteTopo
<1>4. RecordsNameTheirState'
  BY <1>1, <1>2 DEF StatesInv, RecordsNameTheirState, SnapshotLoads, WriteTopo
<1> QED
  BY <1>3, <1>4

\* Without restored copies a snapshot is never lost.
LEMMA StatesStep ==
    ASSUME "copy" \notin Faults
    PROVE  StatesInv /\ [Next]_vars => StatesInv'
<1> SUFFICES ASSUME StatesInv, [Next]_vars PROVE StatesInv'
  OBVIOUS
<1>t. TypeOK /\ TypeOK'
  BY TypeStep DEF StatesInv
<1> USE BlockTreeAssumption
<1>0. CASE UNCHANGED vars
  BY <1>0, <1>t DEF vars, disk, locals, StatesInv, FilesNameTheirState, SnapshotsFollowTips,
                    RecordsNameTheirState, VersionInHand, SnapshotLoads
<1>1. ASSUME NEW b \in Block, BeginAdd(b) PROVE StatesInv'
  <2>1. /\ UNCHANGED <<commits, topo, version, fix>> /\ pc' = "store"
        /\ file' = [file EXCEPT ![b] = NoFile]
    BY <1>1 DEF BeginAdd
  <2>2. FilesNameTheirState'
    BY <1>t, <2>1 DEF StatesInv, TypeOK, FilesNameTheirState, SnapshotLoads, NoFile
  <2>3. SnapshotsFollowTips' /\ RecordsNameTheirState' /\ VersionInHand'
    BY <2>1 DEF StatesInv, SnapshotsFollowTips, RecordsNameTheirState, VersionInHand,
                SnapshotLoads
  <2> QED
    BY <1>t, <2>2, <2>3 DEF StatesInv
<1>2. CASE StoreBlock
  BY <1>2, <1>t, FileGoneKeepsStates DEF StoreBlock, TypeOK
<1>3. CASE Execute
  <2>1. Len(commits) \in Nat /\ Parent[cur] \in Block
    BY <1>t DEF TypeOK
  <2>2. /\ Len(commits') = Len(commits) + 1
        /\ \A v \in 1..Len(commits) : commits'[v] = commits[v]
        /\ commits'[Len(commits) + 1] = [block |-> cur, base |-> Base]
    BY <1>3, <1>t, <2>1 DEF Execute, TypeOK
  <2>3. cur # Genesis => Base \in 1..Len(commits) /\ commits[Base].block = Parent[cur]
    BY <1>3, <2>1 DEF Execute, BaseLoads, Base, SnapshotVersionKnown, SnapshotLoads,
                      StatesInv, FilesNameTheirState
  <2>4. FilesNameTheirState' /\ RecordsNameTheirState'
    BY <1>3, <2>1, <2>2 DEF Execute, StatesInv, FilesNameTheirState, RecordsNameTheirState,
                            SnapshotLoads
  <2>5. SnapshotsFollowTips'
    <3> SUFFICES ASSUME NEW v \in 1..(Len(commits) + 1), commits'[v].block # Genesis
                 PROVE  /\ commits'[v].base \in 1..(v - 1)
                        /\ commits'[commits'[v].base].block = Parent[commits'[v].block]
      BY <2>2 DEF SnapshotsFollowTips
    <3>1. CASE v \in 1..Len(commits)
      <4>1. /\ commits'[v] = commits[v]
            /\ commits[v].base \in 1..(v - 1)
            /\ commits[commits[v].base].block = Parent[commits[v].block]
        BY <2>2, <3>1 DEF StatesInv, SnapshotsFollowTips
      <4>2. commits[v].base \in 1..Len(commits)
        BY <2>1, <3>1, <4>1
      <4> QED
        BY <2>2, <4>1, <4>2
    <3>2. CASE v = Len(commits) + 1
      <4>1. commits'[v].block = cur /\ commits'[v].base = Base
        BY <2>2, <3>2
      <4> QED
        BY <2>1, <2>2, <2>3, <3>2, <4>1
    <3> QED
      BY <2>1, <3>1, <3>2
  <2>6. VersionInHand'
    BY <1>3, <2>1, <2>2 DEF Execute, VersionInHand, SnapshotLoads
  <2> QED
    BY <1>t, <2>4, <2>5, <2>6 DEF StatesInv
<1>4. CASE ExecutePanics \/ UpdateTips \/ WriteFails \/ RewindUnlocks
  BY <1>4, <1>t, DiskAloneKeepsStates
  DEF ExecutePanics, UpdateTips, WriteFails, RewindUnlocks, Unlock, disk
<1>5. CASE DeleteUnversioned
  BY <1>5, <1>t, FileGoneKeepsStates DEF DeleteUnversioned, TypeOK, locals
<1>6. CASE StoreVersioned
  <2>1. SnapshotLoads(version) /\ commits[version].block = cur
    BY <1>6 DEF StoreVersioned, StatesInv, VersionInHand
  <2>2. FilesNameTheirState' /\ SnapshotsFollowTips' /\ RecordsNameTheirState'
    BY <1>6, <1>t, <2>1 DEF StoreVersioned, TypeOK, StatesInv, FilesNameTheirState,
                            SnapshotsFollowTips, RecordsNameTheirState, SnapshotLoads
  <2>3. VersionInHand'
    BY <1>6, <2>1 DEF StoreVersioned, VersionInHand, SnapshotLoads
  <2> QED
    BY <1>t, <2>2, <2>3 DEF StatesInv
<1>7. CASE FixTopo
  <2>1. FilesNameTheirState' /\ SnapshotsFollowTips' /\ RecordsNameTheirState'
    BY <1>7, WriteTopoKeepsRecords DEF FixTopo
  <2>2. Parent[fix] \in Block /\ SnapshotVersionKnown(Parent[fix])
    BY <1>7, <1>t DEF FixTopo, WriteTopo, TypeOK
  <2>3. VersionInHand'
    BY <1>7, <2>2 DEF FixTopo, WriteTopo, StatesInv, FilesNameTheirState, VersionInHand,
                      SnapshotVersionKnown, SnapshotLoads
  <2> QED
    BY <1>t, <2>1, <2>3 DEF StatesInv
<1>8. CASE FixDone \/ FixPanics
  <2>1. FilesNameTheirState' /\ SnapshotsFollowTips' /\ RecordsNameTheirState'
    BY <1>8, WriteTopoKeepsRecords DEF FixDone, FixPanics
  <2>2. VersionInHand'
    BY <1>8 DEF FixDone, FixPanics, Unlock, VersionInHand
  <2> QED
    BY <1>t, <2>1, <2>2 DEF StatesInv
<1>9. ASSUME NEW n, StartRewind(n) PROVE StatesInv'
  <2>1. UNCHANGED disk /\ pc' \in {"idle", "clean"}
    BY <1>9 DEF StartRewind
  <2> QED
    BY <1>t, <2>1, DiskAloneKeepsStates
<1>10. CASE CleanRecord
  <2>1. RecordsNameTheirState'
    BY <1>10, <1>t, ChainAssumption DEF CleanRecord, Clean, TypeOK, StatesInv,
                                        RecordsNameTheirState, SnapshotLoads
  <2>2. FilesNameTheirState' /\ SnapshotsFollowTips' /\ VersionInHand'
    BY <1>10 DEF CleanRecord, StatesInv, FilesNameTheirState, SnapshotsFollowTips,
                 VersionInHand, SnapshotLoads
  <2> QED
    BY <1>t, <2>1, <2>2 DEF StatesInv
<1>11. CASE Initialise_Chain_From_DB \/ Start \/ GenesisAdded \/ Booted
  <2>1. /\ UNCHANGED <<disk, pc, locals>>
    BY <1>11 DEF Initialise_Chain_From_DB, Start, GenesisAdded, Booted
  <2> QED
    BY <1>t, <2>1 DEF disk, locals, StatesInv, FilesNameTheirState, SnapshotsFollowTips,
                      RecordsNameTheirState, VersionInHand, SnapshotLoads
<1>12. CASE Crash
  BY <1>12, <1>t, DiskAloneKeepsStates DEF Crash, Stop, Unlock
<1> QED
  BY <1>0, <1>1, <1>2, <1>3, <1>4, <1>5, <1>6, <1>7, <1>8, <1>9, <1>10, <1>11, <1>12
  DEF Next, Work, Fault, AddBlock, AddGenesis, Rewind, BootRewind, RestoreCopy

\* However blocks arrive, are executed again, reorganised or rewound, and wherever
\* the process dies or a file cannot be written: a block file and a topo record
\* name a snapshot of their own block.  Only the files of a running node copied one
\* after the other can break that.
THEOREM VersionsNameStates ==
    ASSUME "copy" \notin Faults
    PROVE  Spec => [](RecordsNameTheirState /\ FilesNameTheirState)
<1>1. Init => StatesInv
  BY StatesInit
<1>2. StatesInv /\ [Next]_vars => StatesInv'
  BY StatesStep
<1>3. StatesInv => RecordsNameTheirState /\ FilesNameTheirState
  BY DEF StatesInv
<1> QED
  BY <1>1, <1>2, <1>3, PTL DEF Spec

\* Every snapshot was made by executing a block on an earlier snapshot of its own
\* tip, also for the blocks that are executed a second time after a crash.
THEOREM BlocksAreExecutedOnTheirTips ==
    ASSUME "copy" \notin Faults
    PROVE  Spec => []SnapshotsFollowTips
<1>1. Init => StatesInv
  BY StatesInit
<1>2. StatesInv /\ [Next]_vars => StatesInv'
  BY StatesStep
<1>3. StatesInv => SnapshotsFollowTips
  BY DEF StatesInv
<1> QED
  BY <1>1, <1>2, <1>3, PTL DEF Spec

-----------------------------------------------------------------------------
\* The index, whatever fails.

\* From the deletion of its old file to the write of its new one, the file of
\* the block being added says nothing.
Storing == pc \in {"store", "execute", "delete", "restore"}

NoneFrom(h) == \A i \in Position : i >= h => ~ Used(i)

\* A record is at the height of its block, and no block whose header lies about
\* its height is stored.
AtHeight == /\ \A i \in Position : Used(i) => Height[topo[i].block] = i
            /\ \A b \in Block : file[b] # NoFile => WellPlaced(b)
            /\ WellPlaced(cur) /\ WellPlaced(fix)

\* Position 0 is the first that is used, and it is never cleaned.
Grounded == /\ mode = "up" => Used(0)
            /\ (\E i \in Position : Used(i)) => Used(0)
            /\ pc = "clean" => floor >= 0 /\ mode \in {"check", "up"}

\* The genesis block is added by a start that found nothing, all others by a node
\* that is up.
GenesisFirst ==
    /\ mode # "up" /\ (Storing \/ pc \in {"fix", "tips"}) => mode = "genesis" /\ cur = Genesis
    /\ mode # "up" /\ pc = "fix" => fix = Genesis
    /\ mode = "up" /\ Storing => cur # Genesis
    /\ mode = "genesis" => \/ NoneFrom(0)
                           \/ pc = "tips"
                           \/ pc = "idle" /\ Genesis \in tips
    /\ mode \in {"off", "genesis"} => ~ reload

\* A block that raises the chain has no record above it.  Its own is the first the
\* loop writes; from then on the block is the top, and the loop writes below it.
Raised ==
    /\ pc \in {"execute", "delete", "restore"} /\ grown => NoneFrom(Height[cur])
    /\ pc = "fix" => /\ grown
                     /\ \/ fix = cur /\ NoneFrom(Height[cur])
                        \/ Top = cur /\ Height[fix] < Load_TOPO_HEIGHT
    /\ pc = "tips" /\ grown => Top = cur
    /\ pc \in {"execute", "delete", "restore", "tips"} /\ ~ grown
            => Height[cur] <= Load_TOPO_HEIGHT /\ Height[cur] # 0

IndexInv == TypeOK /\ AtHeight /\ Grounded /\ GenesisFirst /\ Raised

\* The file of the top is there, without which Get_Height is -1.
TopThere == Count # 0 => Block_Exists(Top)

\* The height of the chain is the position of its last record.
LEMMA HeightIsLast ==
    ASSUME TypeOK, AtHeight, TopThere
    PROVE  /\ Get_Height = Load_TOPO_HEIGHT /\ Load_TOPO_HEIGHT \in Nat
           /\ \A h \in Nat : h > Get_Height => NoneFrom(h)
<1> USE BlockTreeAssumption
<1>1. Load_TOPO_HEIGHT \in Nat /\ Load_TOPO_HEIGHT \in Position
  BY TopIsBlockOrNone DEF TypeOK, Position
<1>2. Get_Height = Load_TOPO_HEIGHT
  BY <1>1, TopIsUsed DEF Get_Height, Load_TOPO_HEIGHT, AtHeight, TopThere
<1>3. ASSUME NEW h \in Nat, h > Load_TOPO_HEIGHT, Count # 0 PROVE NoneFrom(h)
  <2>1. h >= Count /\ Count \in Nat
    BY <1>3, UsedUpToCount DEF Load_TOPO_HEIGHT
  <2> QED
    BY <2>1, UsedUpToCount DEF NoneFrom, Position
<1>4. Count = 0 => \A h \in Nat : NoneFrom(h)
  BY UsedUpToCount DEF NoneFrom
<1> QED
  BY <1>1, <1>2, <1>3, <1>4

LEMMA IndexInit == Init => IndexInv
<1> SUFFICES ASSUME Init PROVE IndexInv
  OBVIOUS
<1> USE BlockTreeAssumption, ChainAssumption DEF Init
<1>1. TypeOK
  BY TypeInit
<1>2. AtHeight
  BY DEF AtHeight, WellPlaced, Used, Clean
<1>3. Grounded /\ GenesisFirst
  BY DEF Grounded, GenesisFirst, Used, Clean, Storing
<1>4. Raised
  BY DEF Raised
<1> QED
  BY <1>1, <1>2, <1>3, <1>4 DEF IndexInv

\* Freeing the lock without a write to the topo file.
LEMMA FreedKeepsIndex ==
    ASSUME IndexInv, topo' = topo, pc' = "idle", cur' = Genesis, fix' = Genesis,
           \A b \in Block : file'[b] # NoFile => file[b] # NoFile,
           mode' = "up" => mode = "up"
    PROVE  AtHeight' /\ Grounded' /\ Raised'
<1>1. AtHeight'
  BY BlockTreeAssumption DEF IndexInv, AtHeight, Used, WellPlaced
<1>2. Grounded' /\ Raised'
  BY DEF IndexInv, Grounded, Raised, Used
<1> QED
  BY <1>1, <1>2

\* The first record that is written is the block's own and makes it the top.
LEMMA WriteTopoRaises ==
    ASSUME IndexInv, TypeOK', NEW next, WriteTopo(next)
    PROVE  /\ pc = "fix" /\ fix \in Block /\ Height[fix] \in Position /\ grown
           /\ \A i \in Position : topo'[i] = IF i = Height[fix]
                                               THEN [block |-> fix, version |-> version]
                                               ELSE topo[i]
           /\ Top' = cur
           /\ Height[fix] <= Load_TOPO_HEIGHT'
           /\ Load_TOPO_HEIGHT' \in Nat
<1> USE BlockTreeAssumption, ChainAssumption
<1>t. TypeOK
  BY DEF IndexInv
<1>1. /\ pc = "fix" /\ grown /\ fix \in Block /\ Height[fix] \in Position
      /\ \A i \in Position : topo'[i] = IF i = Height[fix]
                                          THEN [block |-> fix, version |-> version]
                                          ELSE topo[i]
  BY <1>t DEF WriteTopo, TypeOK, Position, IndexInv, Raised
<1>2. CASE fix = cur /\ NoneFrom(Height[cur])
  <2>1. topo'[Height[fix]].block = fix /\ fix # NoBlock
    BY <1>1
  <2>2. \A j \in Position : j > Height[fix] => topo'[j].block = NoBlock
    BY <1>1, <1>2 DEF Used, Position, NoneFrom
  <2>3. Top' = fix /\ Load_TOPO_HEIGHT' = Height[fix]
    BY <1>1, <2>1, <2>2, LastUsedNext DEF LastUsedIsTop, Used
  <2> QED
    BY <1>1, <1>2, <2>3 DEF Position
<1>3. CASE Top = cur /\ Height[fix] < Load_TOPO_HEIGHT
  <2>1. Load_TOPO_HEIGHT \in Position /\ Count # 0
    BY <1>1, <1>3, <1>t, TopIsBlockOrNone DEF TypeOK, Load_TOPO_HEIGHT, Position
  <2>2. Used(Load_TOPO_HEIGHT) /\ Load_TOPO_HEIGHT = Count - 1
    BY <1>t, <2>1, TopIsUsed
  <2>3. \A j \in Position : j > Load_TOPO_HEIGHT => topo[j].block = NoBlock
    BY <1>t, <2>1, <2>2, UsedUpToCount DEF Used, Position
  <2>4. topo'[Load_TOPO_HEIGHT] = topo[Load_TOPO_HEIGHT]
    BY <1>1, <1>3, <2>1 DEF Position
  <2>5. \A j \in Position : j > Load_TOPO_HEIGHT => topo'[j].block = NoBlock
    BY <1>1, <1>3, <2>1, <2>3 DEF Position
  <2>6. Load_TOPO_HEIGHT' = Load_TOPO_HEIGHT /\ Top' = topo[Load_TOPO_HEIGHT].block
    BY <2>1, <2>2, <2>4, <2>5, LastUsedNext DEF LastUsedIsTop, Used
  <2> QED
    BY <1>1, <1>3, <2>1, <2>6 DEF Top, Position
<1> QED
  BY <1>1, <1>2, <1>3 DEF IndexInv, Raised

LEMMA BeginAddKeepsIndex ==
    ASSUME IndexInv, NEW b \in Block, BeginAdd(b),
           IF b = Genesis THEN mode = "genesis" ELSE mode = "up"
    PROVE  AtHeight' /\ Grounded' /\ GenesisFirst' /\ Raised'
<1>1. /\ pc = "idle" /\ pc' = "store" /\ cur' = b /\ b \notin tips
      /\ UNCHANGED <<topo, mode, tips, reload, fix>>
      /\ file' = [file EXCEPT ![b] = NoFile]
      /\ WellPlaced(b)
  BY DEF BeginAdd, Acceptable, WellPlaced
<1>2. AtHeight'
  BY <1>1 DEF IndexInv, TypeOK, AtHeight, Used, WellPlaced
<1>3. Grounded' /\ Raised'
  BY <1>1 DEF IndexInv, Grounded, Raised, Used
<1>4. GenesisFirst'
  BY <1>1 DEF IndexInv, GenesisFirst, NoneFrom, Used, Storing
<1> QED
  BY <1>2, <1>3, <1>4

LEMMA StoreBlockKeepsIndex ==
    ASSUME IndexInv, TopThere, StoreBlock
    PROVE  AtHeight' /\ Grounded' /\ GenesisFirst' /\ Raised'
<1> USE BlockTreeAssumption
<1>1. /\ pc = "store" /\ pc' = "execute" /\ UNCHANGED <<topo, mode, tips, reload, cur, fix>>
      /\ file' = [file EXCEPT ![cur] = 0] /\ cur \in Block /\ Height[cur] \in Nat
  <2>1. cur \in Block
    BY DEF IndexInv, TypeOK
  <2> QED
    BY <2>1 DEF StoreBlock
<1>2. grown' <=> Height[cur] > Get_Height \/ Height[cur] = 0
  BY Zenon DEF StoreBlock
<1>3. AtHeight'
  BY <1>1 DEF IndexInv, TypeOK, AtHeight, Used, WellPlaced
<1>4. Grounded' /\ GenesisFirst'
  BY <1>1 DEF IndexInv, Grounded, GenesisFirst, Used, Storing, NoneFrom
<1>5. ASSUME grown' PROVE NoneFrom(Height[cur])
  <2>1. CASE cur = Genesis
    <3>1. mode = "genesis"
      BY <1>1, <2>1 DEF IndexInv, GenesisFirst, Storing, TypeOK
    <3> QED
      BY <1>1, <2>1, <3>1 DEF IndexInv, GenesisFirst
  <2>2. CASE cur # Genesis
    <3>1. Height[cur] # 0
      BY <1>1, <2>2 DEF IndexInv, AtHeight, WellPlaced
    <3> QED
      BY <1>1, <1>2, <1>5, <3>1, HeightIsLast DEF IndexInv
  <2> QED
    BY <2>1, <2>2
<1>6. Load_TOPO_HEIGHT' = Load_TOPO_HEIGHT /\ Get_Height = Load_TOPO_HEIGHT /\ Get_Height \in Nat
  BY <1>1, TopoAloneKeepsTop, HeightIsLast DEF IndexInv
<1>7. Raised'
  BY <1>1, <1>2, <1>5, <1>6 DEF Raised, NoneFrom, Used
<1> QED
  BY <1>3, <1>4, <1>7

\* Neither a snapshot nor a file that is removed changes the index.
LEMMA StoringKeepsIndex ==
    ASSUME IndexInv, UNCHANGED <<topo, mode, tips, reload, cur, fix, grown>>,
           \A b \in Block : file'[b] # NoFile => file[b] # NoFile,
           pc \in {"execute", "delete"}, pc' \in {"delete", "restore"}
    PROVE  AtHeight' /\ Grounded' /\ GenesisFirst' /\ Raised'
<1>1. AtHeight'
  BY DEF IndexInv, AtHeight, Used, WellPlaced
<1>2. Grounded' /\ GenesisFirst'
  BY DEF IndexInv, Grounded, GenesisFirst, Used, Storing, NoneFrom
<1>3. Raised'
  BY TopoAloneKeepsTop DEF IndexInv, Raised, NoneFrom, Used
<1> QED
  BY <1>1, <1>2, <1>3

LEMMA StoreVersionedKeepsIndex ==
    ASSUME IndexInv, StoreVersioned
    PROVE  AtHeight' /\ Grounded' /\ GenesisFirst' /\ Raised'
<1>1. /\ pc = "restore" /\ UNCHANGED <<topo, mode, tips, reload, cur, grown>>
      /\ fix' = cur /\ file' = [file EXCEPT ![cur] = version]
      /\ IF grown THEN pc' = "fix" ELSE pc' = "tips"
  BY DEF StoreVersioned
<1>2. AtHeight'
  BY <1>1 DEF IndexInv, TypeOK, AtHeight, Used, WellPlaced
<1>3. Grounded' /\ GenesisFirst'
  BY <1>1 DEF IndexInv, Grounded, GenesisFirst, Used, Storing, NoneFrom
<1>4. Raised'
  BY <1>1, TopoAloneKeepsTop DEF IndexInv, Raised, NoneFrom, Used
<1> QED
  BY <1>2, <1>3, <1>4

\* The loop: a record is written at the height of its block, in a started node
\* above position 0.
LEMMA WriteTopoKeepsIndex ==
    ASSUME IndexInv, TypeOK', FixTopo \/ FixDone \/ FixPanics
    PROVE  AtHeight' /\ Grounded' /\ GenesisFirst' /\ Raised'
<1> USE BlockTreeAssumption, ChainAssumption
<1>1. PICK next : WriteTopo(next)
  BY DEF FixTopo, FixDone, FixPanics
<1>2. /\ pc = "fix" /\ fix \in Block /\ Height[fix] \in Position /\ grown
      /\ \A i \in Position : topo'[i] = IF i = Height[fix]
                                          THEN [block |-> fix, version |-> version]
                                          ELSE topo[i]
      /\ Top' = cur /\ Height[fix] <= Load_TOPO_HEIGHT' /\ Load_TOPO_HEIGHT' \in Nat
  BY <1>1, WriteTopoRaises
<1>3. UNCHANGED <<file, mode, tips, reload>>
  BY <1>1 DEF WriteTopo
<1>4. \A i \in Position : topo'[i].block # NoBlock => Height[topo'[i].block] = i
  BY <1>2 DEF IndexInv, AtHeight, Used
<1>5. topo'[0].block # NoBlock
  <2>1. CASE mode = "up"
    BY <1>2, <2>1 DEF IndexInv, Grounded, Used, Position
  <2>2. CASE mode # "up"
    <3>1. fix = Genesis
      BY <1>2, <2>2 DEF IndexInv, GenesisFirst
    <3> QED
      BY <1>2, <3>1 DEF Position
  <2> QED
    BY <2>1, <2>2
<1>6. mode \in {"up", "genesis"} /\ (mode = "genesis" => fix = Genesis)
  BY <1>2 DEF IndexInv, GenesisFirst
<1>7. CASE FixTopo
  <2>1. /\ pc' = "fix" /\ fix' = Parent[fix] /\ UNCHANGED <<cur, grown>>
        /\ Height[fix] # 0 /\ SnapshotVersionKnown(Parent[fix])
    BY <1>2, <1>7 DEF FixTopo, WriteTopo, Linked
  <2>2. Parent[fix] \in Block /\ fix # Genesis /\ Height[fix] = Height[Parent[fix]] + 1
    BY <1>2, <2>1 DEF IndexInv, AtHeight, WellPlaced
  <2>3. WellPlaced(Parent[fix])
    BY <2>1, <2>2 DEF IndexInv, AtHeight, SnapshotVersionKnown, NoFile
  <2>4. AtHeight'
    BY <1>3, <1>4, <2>1, <2>3 DEF IndexInv, AtHeight, WellPlaced, Used
  <2>5. Grounded' /\ GenesisFirst'
    BY <1>2, <1>3, <1>5, <1>6, <2>1, <2>2 DEF IndexInv, Grounded, GenesisFirst, Used, Storing
  <2>6. Raised'
    BY <1>2, <2>1, <2>2 DEF Raised, Position
  <2> QED
    BY <2>4, <2>5, <2>6
<1>8. CASE FixDone
  <2>1. pc' = "tips" /\ UNCHANGED <<cur, fix, grown>>
    BY <1>8 DEF FixDone, locals
  <2>2. AtHeight'
    BY <1>3, <1>4, <2>1 DEF IndexInv, AtHeight, WellPlaced, Used
  <2>3. Grounded' /\ GenesisFirst'
    BY <1>2, <1>3, <1>5, <1>6, <2>1 DEF IndexInv, Grounded, GenesisFirst, Used, Storing
  <2>4. Raised'
    BY <1>2, <2>1 DEF Raised
  <2> QED
    BY <2>2, <2>3, <2>4
<1>9. CASE FixPanics
  <2>1. pc' = "idle" /\ cur' = Genesis /\ fix' = Genesis /\ Height[fix] # 0
    BY <1>9 DEF FixPanics, Unlock, WriteTopo, Linked
  <2>2. mode = "up"
    BY <1>6, <2>1
  <2>3. AtHeight'
    BY <1>3, <1>4, <2>1 DEF IndexInv, AtHeight, WellPlaced, Used
  <2>4. Grounded' /\ GenesisFirst' /\ Raised'
    BY <1>3, <1>5, <2>1, <2>2 DEF IndexInv, Grounded, GenesisFirst, Raised, Used, Storing
  <2> QED
    BY <2>3, <2>4
<1> QED
  BY <1>7, <1>8, <1>9

LEMMA UpdateTipsKeepsIndex ==
    ASSUME IndexInv, TopThere, UpdateTips
    PROVE  AtHeight' /\ Grounded' /\ GenesisFirst' /\ Raised'
<1> USE BlockTreeAssumption, ChainAssumption
<1>1. /\ pc = "tips" /\ pc' = "idle" /\ cur' = Genesis /\ fix' = Genesis
      /\ UNCHANGED <<file, topo, mode, reload>>
      /\ tips' = {t \in (tips \ (IF cur = Genesis THEN {} ELSE {Parent[cur]})) \cup {cur} :
                     Height[t] = Get_Height}
  BY DEF UpdateTips, Unlock, disk
<1>2. AtHeight' /\ Grounded' /\ Raised'
  BY <1>1, FreedKeepsIndex
<1>3. mode = "genesis" => Genesis \in tips'
  <2>1. SUFFICES ASSUME mode = "genesis" PROVE Genesis \in tips'
    OBVIOUS
  <2>2. cur = Genesis /\ Top = Genesis
    BY <1>1, <2>1 DEF IndexInv, GenesisFirst, Raised, TypeOK
  <2>3. Get_Height = Height[Genesis]
    BY <2>2 DEF Get_Height, TopThere
  <2> QED
    BY <1>1, <2>2, <2>3
<1>4. GenesisFirst'
  BY <1>1, <1>3 DEF IndexInv, GenesisFirst, Storing
<1> QED
  BY <1>2, <1>4

LEMMA StartRewindKeepsIndex ==
    ASSUME IndexInv, NEW n \in 1..(MaxHeight + 1), StartRewind(n), mode' = mode,
           mode \in {"check", "up"}
    PROVE  AtHeight' /\ Grounded' /\ GenesisFirst' /\ Raised'
<1> USE BlockTreeAssumption
<1>1. pc = "idle" /\ pc' \in {"idle", "clean"} /\ UNCHANGED <<file, topo, tips, cur, fix>>
  BY DEF StartRewind, disk
<1>2. pc' = "clean" => floor' >= 0
  <2>1. SUFFICES ASSUME pc' = "clean" PROVE floor' >= 0
    OBVIOUS
  <2>2. ~ RewindRefused(n) /\ floor' = Load_TOPO_HEIGHT - Rewindable(n)
    BY <1>1, <2>1 DEF StartRewind
  <2>3. Rewindable(n) \in 0..n /\ Load_TOPO_HEIGHT \in Nat
    BY RewindableCounts, TopIsBlockOrNone DEF IndexInv, TypeOK, Position
  <2> QED
    BY <2>2, <2>3 DEF RewindRefused
<1>3. AtHeight' /\ Grounded'
  BY <1>1, <1>2 DEF IndexInv, AtHeight, Grounded, Used, WellPlaced
<1>4. GenesisFirst' /\ Raised'
  BY <1>1 DEF GenesisFirst, Raised, Storing
<1> QED
  BY <1>3, <1>4

LEMMA CleanRecordKeepsIndex ==
    ASSUME IndexInv, CleanRecord
    PROVE  AtHeight' /\ Grounded' /\ GenesisFirst' /\ Raised'
<1> USE BlockTreeAssumption
<1>1. /\ pc = "clean" /\ pc' = "clean" /\ UNCHANGED <<file, mode, tips, reload, cur, fix, floor>>
      /\ cut > floor /\ topo' = [topo EXCEPT ![cut] = Clean]
  BY DEF CleanRecord
<1>2. floor >= 0 /\ mode \in {"check", "up"} /\ floor \in Int /\ cut \in Int
      /\ topo \in [Position -> Record]
  BY <1>1 DEF IndexInv, Grounded, TypeOK
<1>3. \A i \in Position : topo'[i] = IF i = cut THEN Clean ELSE topo[i]
  BY <1>1, <1>2
<1>4. AtHeight'
  BY <1>1, <1>3 DEF IndexInv, AtHeight, Used, Clean, WellPlaced
<1>5. topo'[0] = topo[0]
  BY <1>1, <1>2, <1>3 DEF Position
<1>6. Grounded'
  BY <1>1, <1>2, <1>3, <1>5 DEF IndexInv, Grounded, Used, Clean
<1>7. GenesisFirst' /\ Raised'
  BY <1>1, <1>2 DEF GenesisFirst, Raised, Storing
<1> QED
  BY <1>4, <1>6, <1>7

\* The deferred reload and the steps of a start.
LEMMA StartKeepsIndex ==
    ASSUME IndexInv, Initialise_Chain_From_DB \/ Start \/ GenesisAdded \/ Booted
    PROVE  AtHeight' /\ Grounded' /\ GenesisFirst' /\ Raised'
<1> USE BlockTreeAssumption
<1>1. UNCHANGED <<file, topo, pc, cur, grown, fix, floor>>
  BY DEF Initialise_Chain_From_DB, Start, GenesisAdded, Booted, disk, locals
<1>2. AtHeight' /\ Raised'
  BY <1>1, TopoAloneKeepsTop DEF IndexInv, AtHeight, Raised, Used, WellPlaced, NoneFrom
<1>3. CASE Initialise_Chain_From_DB
  <2>1. mode' = mode /\ mode \notin {"off", "genesis"} /\ ~ reload'
    BY <1>3 DEF Initialise_Chain_From_DB, IndexInv, GenesisFirst
  <2> QED
    BY <1>1, <1>2, <2>1 DEF IndexInv, Grounded, GenesisFirst, Used, Storing
<1>4. CASE Start
  <2>1. pc \notin {"clean", "fix", "tips"} /\ ~ Storing /\ mode = "off" /\ ~ reload
    BY <1>4 DEF Start, IndexInv, Grounded, GenesisFirst
  <2>2. mode' \in {"genesis", "check"}
    BY <1>4 DEF Start
  <2>3. mode' = "genesis" => Count = 0 /\ reload' = reload
    BY <1>4, <2>1 DEF Start
  <2>4. Count = 0 => NoneFrom(0)
    BY UsedUpToCount DEF IndexInv, NoneFrom
  <2> QED
    BY <1>1, <1>2, <2>1, <2>2, <2>3, <2>4 DEF IndexInv, Grounded, GenesisFirst, Used, Storing, NoneFrom
<1>5. CASE GenesisAdded
  BY <1>1, <1>2, <1>5 DEF GenesisAdded, IndexInv, Grounded, GenesisFirst, Used, Storing
<1>6. CASE Booted
  <2>1. mode' = "up" /\ pc = "idle" /\ Count # 0
    BY <1>6 DEF Booted, TopReadable
  <2>2. Used(0)
    <3>1. Used(Load_TOPO_HEIGHT) /\ Load_TOPO_HEIGHT \in Position
      BY <2>1, TopIsUsed, TopIsBlockOrNone DEF IndexInv, TypeOK
    <3> QED
      BY <3>1 DEF IndexInv, Grounded
  <2> QED
    BY <1>1, <1>2, <2>1, <2>2 DEF IndexInv, Grounded, GenesisFirst, Used, Storing
<1> QED
  BY <1>3, <1>4, <1>5, <1>6

LEMMA IndexStep == IndexInv /\ (Storing \/ pc = "tips" => TopThere) /\ [Next]_vars => IndexInv'
<1> SUFFICES ASSUME IndexInv, Storing \/ pc = "tips" => TopThere, [Next]_vars PROVE IndexInv'
  OBVIOUS
<1> USE BlockTreeAssumption
<1>t. TypeOK /\ TypeOK'
  BY TypeStep DEF IndexInv
<1>k. SUFFICES AtHeight' /\ Grounded' /\ GenesisFirst' /\ Raised'
  BY <1>t DEF IndexInv
<1>0. CASE UNCHANGED vars
  BY <1>0, TopoAloneKeepsTop DEF vars, disk, locals, IndexInv, AtHeight, Grounded, GenesisFirst,
     Raised, Used, Storing, NoneFrom, WellPlaced
<1>1. CASE AddGenesis \/ \E b \in Block : AddBlock(b)
  BY <1>1, BeginAddKeepsIndex DEF AddGenesis, AddBlock
<1>2. CASE StoreBlock
  BY <1>2, StoreBlockKeepsIndex DEF StoreBlock, Storing
<1>3. CASE Execute
  BY <1>3, StoringKeepsIndex DEF Execute
<1>4. CASE ExecutePanics
  <2>1. /\ pc = "execute" /\ cur # Genesis /\ pc' = "idle" /\ cur' = Genesis /\ fix' = Genesis
        /\ UNCHANGED <<disk, mode, tips, reload>>
    BY <1>4 DEF ExecutePanics, BaseLoads, Unlock
  <2>2. mode = "up"
    BY <2>1 DEF IndexInv, GenesisFirst, Storing
  <2> QED
    BY <2>1, <2>2, FreedKeepsIndex DEF disk, GenesisFirst, Storing
<1>5. CASE DeleteUnversioned
  <2>1. \A b \in Block : file'[b] # NoFile => file[b] # NoFile
    BY <1>5, <1>t DEF DeleteUnversioned, TypeOK
  <2> QED
    BY <1>5, <2>1, StoringKeepsIndex DEF DeleteUnversioned, locals
<1>6. CASE StoreVersioned
  BY <1>6, StoreVersionedKeepsIndex
<1>7. CASE FixTopo \/ FixDone \/ FixPanics
  BY <1>7, <1>t, WriteTopoKeepsIndex
<1>8. CASE UpdateTips
  BY <1>8, UpdateTipsKeepsIndex DEF UpdateTips
<1>9. CASE WriteFails
  <2>1. /\ Storing /\ pc' = "idle" /\ cur' = Genesis /\ fix' = Genesis
        /\ UNCHANGED <<disk, tips, reload>>
        /\ mode' = IF mode = "genesis" THEN "off" ELSE mode
    BY <1>9 DEF WriteFails, Unlock, Storing
  <2>2. mode \in {"up", "genesis"}
    BY <2>1 DEF IndexInv, GenesisFirst
  <2> QED
    BY <2>1, <2>2, FreedKeepsIndex DEF disk, IndexInv, GenesisFirst, Storing
<1>10. CASE (\E n \in 1..(MaxHeight + 1) : Rewind(n)) \/ BootRewind
  <2>1. PICK n \in 1..(MaxHeight + 1) : StartRewind(n)
    BY <1>10 DEF Rewind, BootRewind
  <2>2. mode' = mode /\ mode \in {"check", "up"}
    BY <1>10, <2>1 DEF Rewind, BootRewind, StartRewind
  <2> QED
    BY <2>1, <2>2, StartRewindKeepsIndex
<1>11. CASE CleanRecord
  BY <1>11, CleanRecordKeepsIndex
<1>12. CASE RewindUnlocks
  <2>1. /\ pc = "clean" /\ pc' = "idle" /\ cur' = Genesis /\ fix' = Genesis
        /\ UNCHANGED <<disk, mode, tips>>
    BY <1>12 DEF RewindUnlocks, Unlock
  <2>2. mode \in {"check", "up"}
    BY <2>1 DEF IndexInv, Grounded
  <2> QED
    BY <2>1, <2>2, FreedKeepsIndex DEF disk, GenesisFirst, Storing
<1>13. CASE Initialise_Chain_From_DB \/ Start \/ GenesisAdded \/ Booted
  BY <1>13, StartKeepsIndex
<1>14. CASE Crash \/ \E k \in 1..Len(commits) : \E m \in k..Len(commits) : RestoreCopy(k, m)
  <2>1. /\ mode' = "off" /\ pc' = "idle" /\ cur' = Genesis /\ fix' = Genesis /\ ~ reload'
        /\ topo' = topo
    BY <1>14 DEF Crash, RestoreCopy, Stop, Unlock, disk
  <2>2. \A b \in Block : file'[b] # NoFile => file[b] # NoFile
    BY <1>14 DEF Crash, RestoreCopy, disk
  <2> QED
    BY <2>1, <2>2, FreedKeepsIndex DEF GenesisFirst, Storing
<1> QED
  BY <1>0, <1>1, <1>2, <1>3, <1>4, <1>5, <1>6, <1>7, <1>8, <1>9, <1>10, <1>11, <1>12, <1>13, <1>14
  DEF Next, Work, Fault

-----------------------------------------------------------------------------
\* The top can be read.

Readable(b) == SnapshotVersionKnown(b) /\ SnapshotLoads(file[b])

\* A record is written after its block's file, and no file that a record needs is
\* removed: the block whose file is rewritten has no record.
Filed == /\ \A i \in Position : Used(i) => SnapshotVersionKnown(topo[i].block)
         /\ Storing => \A i \in Position : topo[i].block # cur
         /\ pc = "fix" => SnapshotVersionKnown(fix)

\* A block that may be added is not the top, and no record names it if all
\* records are filed.
LEMMA AcceptableHasNoRecord ==
    ASSUME NEW b \in Block, Acceptable(b), NEW i \in Position, SnapshotVersionKnown(b)
    PROVE  topo[i].block # b
BY DEF Acceptable, Is_Block_Topological_order, Block_Exists, SnapshotVersionKnown, NoFile

\* Steps that neither write the topo file nor remove a file.
LEMMA FilesAloneKeepFiled ==
    ASSUME Filed, UNCHANGED <<file, topo, cur, fix>>, Storing' => Storing, pc' # "fix" \/ pc = "fix"
    PROVE  Filed'
BY DEF Filed, Used, SnapshotVersionKnown

\* The file of the block being added is all that changes.
LEMMA CurAloneKeepsFiled ==
    ASSUME TypeOK, Filed, Storing, UNCHANGED <<topo, cur>>,
           NEW v, file' = [file EXCEPT ![cur] = v],
           \/ Storing'
           \/ ~ Storing' /\ v >= 1 /\ fix' = cur,
           Storing' => pc' # "fix"
    PROVE  Filed'
<1>1. /\ \A c \in Block : c # cur => file'[c] = file[c]
      /\ cur \in Block /\ file'[cur] = v
  BY DEF TypeOK
<1>2. ASSUME NEW i \in Position, Used(i) PROVE SnapshotVersionKnown(topo[i].block)'
  <2>1. topo[i].block \in Block /\ topo[i].block # cur
    BY <1>2, ChainAssumption DEF TypeOK, Record, Clean, Used, Filed
  <2> QED
    BY <1>1, <1>2, <2>1 DEF Filed, SnapshotVersionKnown
<1> QED
  BY <1>1, <1>2 DEF Filed, Used, SnapshotVersionKnown

LEMMA FiledStep ==
    ASSUME "copy" \notin Faults
    PROVE  StatesInv /\ Filed /\ [Next]_vars => Filed'
<1> SUFFICES ASSUME StatesInv, Filed, [Next]_vars PROVE Filed'
  OBVIOUS
<1>t. TypeOK
  BY DEF StatesInv
<1> USE BlockTreeAssumption, ChainAssumption
<1>0. CASE UNCHANGED vars
  BY <1>0, FilesAloneKeepFiled DEF vars, disk, locals, Storing
<1>1. ASSUME NEW b \in Block, BeginAdd(b) PROVE Filed'
  <2>1. /\ pc' = "store" /\ cur' = b /\ UNCHANGED <<topo, fix>> /\ Acceptable(b)
        /\ file' = [file EXCEPT ![b] = NoFile]
    BY <1>1 DEF BeginAdd
  <2>2. ASSUME NEW i \in Position PROVE topo[i].block # b
    <3>1. topo[i].block = b => SnapshotVersionKnown(b)
      BY DEF Filed, Used
    <3> QED
      BY <2>1, <3>1, AcceptableHasNoRecord
  <2>3. ASSUME NEW i \in Position, Used(i) PROVE SnapshotVersionKnown(topo[i].block)'
    <3>1. topo[i].block \in Block
      BY <1>t, <2>3 DEF TypeOK, Record, Clean, Used
    <3> QED
      BY <1>t, <2>1, <2>2, <2>3, <3>1 DEF Filed, SnapshotVersionKnown, TypeOK
  <2> QED
    BY <2>1, <2>2, <2>3 DEF Filed, Used
<1>2. CASE StoreBlock \/ DeleteUnversioned
  BY <1>2, <1>t, CurAloneKeepsFiled DEF StoreBlock, DeleteUnversioned, Storing, locals
<1>3. CASE Execute \/ ExecutePanics \/ UpdateTips \/ WriteFails \/ RewindUnlocks
  <2>1. /\ UNCHANGED <<file, topo>>
        /\ \/ pc' = "delete" /\ pc = "execute" /\ UNCHANGED <<cur, fix>>
           \/ pc' = "idle"
    BY <1>3 DEF Execute, ExecutePanics, UpdateTips, WriteFails, RewindUnlocks, Unlock, disk
  <2> QED
    BY <2>1 DEF Filed, Used, Storing, SnapshotVersionKnown
<1>4. CASE StoreVersioned
  <2>1. version >= 1
    BY <1>4, <1>t DEF StoreVersioned, StatesInv, VersionInHand, SnapshotLoads, TypeOK
  <2> QED
    BY <1>4, <1>t, <2>1, CurAloneKeepsFiled DEF StoreVersioned, Storing
<1>5. CASE FixTopo \/ FixDone \/ FixPanics
  <2>1. PICK next : WriteTopo(next)
    BY <1>5 DEF FixTopo, FixDone, FixPanics
  <2>2. /\ pc = "fix" /\ fix \in Block /\ file' = file
        /\ topo' = [topo EXCEPT ![Height[fix]] = [block |-> fix, version |-> version]]
    BY <1>t, <2>1 DEF WriteTopo, TypeOK
  <2>3. \A i \in Position : topo'[i].block # NoBlock => SnapshotVersionKnown(topo'[i].block)
    BY <1>t, <2>2 DEF TypeOK, Filed, Used
  <2>4. /\ ~ Storing'
        /\ pc' = "fix" => fix' \in Block /\ SnapshotVersionKnown(fix')
    BY <1>5, <2>2 DEF FixTopo, FixDone, FixPanics, WriteTopo, Unlock, Storing
  <2> QED
    BY <2>2, <2>3, <2>4 DEF Filed, Used, SnapshotVersionKnown
<1>6. ASSUME NEW n, StartRewind(n) PROVE Filed'
  <2>1. UNCHANGED <<file, topo, cur, fix>> /\ pc' \in {"idle", "clean"}
    BY <1>6 DEF StartRewind, disk
  <2> QED
    BY <2>1, FilesAloneKeepFiled DEF Storing
<1>7. CASE CleanRecord
  BY <1>7, <1>t DEF CleanRecord, TypeOK, Filed, Used, Clean, Storing, SnapshotVersionKnown
<1>8. CASE Initialise_Chain_From_DB \/ Start \/ GenesisAdded \/ Booted
  <2>1. UNCHANGED <<disk, pc, locals>>
    BY <1>8 DEF Initialise_Chain_From_DB, Start, GenesisAdded, Booted
  <2> QED
    BY <2>1, FilesAloneKeepFiled DEF disk, locals, Storing
<1>9. CASE Crash
  BY <1>9 DEF Crash, Stop, Unlock, disk, Filed, Used, Storing, SnapshotVersionKnown
<1> QED
  BY <1>0, <1>1, <1>2, <1>3, <1>4, <1>5, <1>6, <1>7, <1>8, <1>9
  DEF Next, Work, Fault, AddBlock, AddGenesis, Rewind, BootRewind, RestoreCopy

LEMMA FiledInit == Init => Filed
BY DEF Init, Filed, Used, Clean, Storing

LEMMA FiledTopIsReadable ==
    ASSUME StatesInv, Filed, Count # 0
    PROVE  TopReadable
<1>1. Used(Load_TOPO_HEIGHT) /\ Load_TOPO_HEIGHT \in Position /\ Top \in Block
  BY TopIsUsed, TopIsBlockOrNone DEF StatesInv, TypeOK
<1>2. SnapshotVersionKnown(Top)
  BY <1>1 DEF Filed, Top
<1> QED
  BY <1>1, <1>2 DEF TopReadable, StatesInv, FilesNameTheirState, SnapshotVersionKnown

\* Wherever the process died and whatever file could not be written, a start finds
\* the top readable: the record is the last thing an addition writes, and an
\* addition that rewrites a file never rewrites that of a block with a record.
THEOREM StartsFindTheTop ==
    ASSUME "copy" \notin Faults
    PROVE  Spec => []TopSurvivesCrash
<1>1. Init => StatesInv /\ Filed
  BY StatesInit, FiledInit
<1>2. StatesInv /\ Filed /\ [Next]_vars => (StatesInv /\ Filed)'
  BY StatesStep, FiledStep
<1>3. StatesInv /\ Filed => TopSurvivesCrash
  BY FiledTopIsReadable DEF TopSurvivesCrash
<1> QED
  BY <1>1, <1>2, <1>3, PTL DEF Spec

\* Of a node that is never rewound while it is up, even if it was started from a
\* copy: it comes up on a readable top, the file of the top stays where it is, and
\* a block that becomes the top has been stored under a snapshot.
TopKept ==
    /\ pc \in {"delete", "restore"} => SnapshotLoads(version)
    /\ mode = "up" => /\ pc # "clean"
                      /\ Readable(Top)
                      /\ Storing => cur # Top
    /\ pc = "fix" => Readable(cur)
    /\ pc = "tips" => Readable(Top)

LEMMA TopKeptInit == Init => TopKept
BY DEF Init, TopKept

\* Steps that leave the top, its file and its snapshot alone.
LEMMA OtherFilesKeepTop ==
    ASSUME TopKept, UNCHANGED <<topo, version, cur>>,
           mode' = "up" => mode = "up" /\ file'[Top] = file[Top],
           Len(commits) \in Nat, Len(commits') \in Nat, Len(commits') >= Len(commits),
           pc' \notin {"clean", "fix", "tips"}, Storing' => Storing,
           pc' \in {"delete", "restore"} => pc \in {"delete", "restore"}
    PROVE  TopKept'
BY TopoAloneKeepsTop DEF TopKept, Readable, SnapshotVersionKnown, SnapshotLoads

LEMMA TopKeptStep ==
    ASSUME MaxRewinds = 0
    PROVE  IndexInv /\ TopKept /\ [Next]_vars => TopKept'
<1> SUFFICES ASSUME IndexInv, TopKept, [Next]_vars PROVE TopKept'
  OBVIOUS
<1> USE BlockTreeAssumption, ChainAssumption
<1>t. TypeOK /\ TypeOK' /\ Len(commits) \in Nat
  BY TypeStep DEF IndexInv, TypeOK
<1>u. mode = "up" => Count # 0 /\ Top \in Block /\ Load_TOPO_HEIGHT \in Position
                     /\ Top = topo[Load_TOPO_HEIGHT].block
  BY <1>t, TopIsUsed, TopIsBlockOrNone DEF IndexInv, Grounded, TypeOK
<1>0. CASE UNCHANGED vars
  BY <1>0, TopoAloneKeepsTop DEF vars, disk, locals, TopKept, Storing, Readable,
                                 SnapshotVersionKnown, SnapshotLoads
<1>1. ASSUME NEW b \in Block, BeginAdd(b) PROVE TopKept'
  <2>1. /\ pc' = "store" /\ cur' = b /\ UNCHANGED <<topo, commits, mode>> /\ Acceptable(b)
        /\ file' = [file EXCEPT ![b] = NoFile]
    BY <1>1 DEF BeginAdd
  <2>2. mode = "up" => Top # b /\ file'[Top] = file[Top]
    <3>1. mode = "up" /\ Top = b => SnapshotVersionKnown(b)
      BY DEF TopKept, Readable
    <3> QED
      BY <1>t, <1>u, <2>1, <3>1, AcceptableHasNoRecord DEF TypeOK
  <2> QED
    BY <2>1, <2>2, TopoAloneKeepsTop DEF TopKept, Readable, SnapshotVersionKnown, SnapshotLoads
<1>2. CASE StoreBlock \/ DeleteUnversioned
  <2>1. /\ UNCHANGED <<topo, commits, mode, version, cur>> /\ Storing
        /\ \A c \in Block : c # cur => file'[c] = file[c]
        /\ pc' \in {"execute", "restore"} /\ (pc' = "restore" => pc = "delete")
    BY <1>2, <1>t DEF StoreBlock, DeleteUnversioned, Storing, TypeOK, locals
  <2>2. mode = "up" => file'[Top] = file[Top]
    BY <1>u, <2>1 DEF TopKept
  <2> QED
    BY <1>t, <1>u, <2>1, <2>2, OtherFilesKeepTop
<1>3. CASE Execute
  <2>1. /\ pc' = "delete" /\ pc = "execute" /\ UNCHANGED <<topo, file, mode, cur>>
        /\ version' = Len(commits) + 1 /\ Len(commits') = Len(commits) + 1
    BY <1>3, <1>t DEF Execute, TypeOK
  <2> QED
    BY <1>t, <2>1, TopoAloneKeepsTop DEF TopKept, Readable, SnapshotVersionKnown, SnapshotLoads,
                                         Storing
<1>4. CASE ExecutePanics \/ UpdateTips \/ WriteFails
  <2>1. /\ pc' = "idle" /\ UNCHANGED disk /\ (mode' = "up" => mode = "up")
    BY <1>4 DEF ExecutePanics, UpdateTips, WriteFails, Unlock, disk
  <2> QED
    BY <2>1, TopoAloneKeepsTop DEF disk, TopKept, Readable, SnapshotVersionKnown, SnapshotLoads,
                                   Storing
<1>5. CASE StoreVersioned
  <2>1. /\ pc = "restore" /\ pc' \in {"fix", "tips"} /\ UNCHANGED <<topo, commits, mode, cur>>
        /\ \A c \in Block : c # cur => file'[c] = file[c]
        /\ cur \in Block /\ file'[cur] = version
    BY <1>5, <1>t DEF StoreVersioned, TypeOK
  <2>2. SnapshotLoads(version) /\ version >= 1
    BY <1>t, <2>1 DEF TopKept, SnapshotLoads, TypeOK
  <2>3. mode = "up" => file'[Top] = file[Top]
    BY <1>u, <2>1 DEF TopKept, Storing
  <2>4. pc' = "tips" => mode = "up"
    <3>1. pc' = "tips" => ~ grown
      BY <1>5 DEF StoreVersioned
    <3>2. ~ grown => Height[cur] # 0
      BY <2>1 DEF IndexInv, Raised
    <3>3. mode # "up" => cur = Genesis
      BY <2>1 DEF IndexInv, GenesisFirst, Storing
    <3> QED
      BY <3>1, <3>2, <3>3
  <2>5. mode = "up" => Readable(Top)'
    BY <1>u, <2>1, <2>3, TopoAloneKeepsTop DEF TopKept, Readable, SnapshotVersionKnown, SnapshotLoads
  <2>6. Readable(cur)'
    BY <2>1, <2>2 DEF Readable, SnapshotVersionKnown, SnapshotLoads
  <2> QED
    BY <2>1, <2>4, <2>5, <2>6 DEF TopKept, Storing
<1>6. CASE FixTopo \/ FixDone \/ FixPanics
  <2>1. PICK next : WriteTopo(next)
    BY <1>6 DEF FixTopo, FixDone, FixPanics
  <2>2. pc = "fix" /\ UNCHANGED <<file, commits, mode>> /\ Top' = cur
    BY <1>t, <2>1, WriteTopoRaises DEF WriteTopo
  <2>3. pc' \in {"fix", "tips", "idle"} /\ (pc' = "fix" => cur' = cur)
    BY <1>6, <2>2 DEF FixTopo, FixDone, FixPanics, Unlock
  <2> QED
    BY <2>2, <2>3 DEF TopKept, Readable, SnapshotVersionKnown, SnapshotLoads, Storing
<1>7. ASSUME mode \notin {"up", "genesis"}, pc' \in {"idle", "clean"}, mode' # "up" PROVE TopKept'
  BY <1>7 DEF TopKept
<1>8. CASE \E n \in 1..(MaxHeight + 1) : Rewind(n)
  BY <1>8, <1>t DEF Rewind, TypeOK
<1>9. CASE BootRewind
  BY <1>9, <1>7 DEF BootRewind, StartRewind
<1>10. CASE CleanRecord \/ RewindUnlocks
  <2>1. /\ pc = "clean" /\ mode' = mode /\ pc' \in {"clean", "idle"}
    BY <1>10 DEF CleanRecord, RewindUnlocks, Unlock
  <2>2. mode \notin {"up", "genesis"}
    BY <2>1 DEF TopKept, IndexInv, Grounded
  <2> QED
    BY <1>7, <2>1, <2>2
<1>11. CASE Initialise_Chain_From_DB \/ Start \/ GenesisAdded
  <2>1. UNCHANGED <<disk, pc, locals>> /\ (mode' = "up" => mode = "up")
    BY <1>11 DEF Initialise_Chain_From_DB, Start, GenesisAdded
  <2> QED
    BY <2>1, TopoAloneKeepsTop DEF disk, locals, TopKept, Readable, SnapshotVersionKnown,
                                   SnapshotLoads, Storing
<1>12. CASE Booted
  <2>1. UNCHANGED <<disk, pc, locals>> /\ pc = "idle" /\ TopReadable
    BY <1>12 DEF Booted
  <2> QED
    BY <2>1, TopoAloneKeepsTop DEF disk, TopReadable, TopKept, Readable, SnapshotVersionKnown,
                                   SnapshotLoads, Storing
<1>13. CASE Crash \/ \E k \in 1..Len(commits) : \E m \in k..Len(commits) : RestoreCopy(k, m)
  BY <1>13 DEF Crash, RestoreCopy, Stop, Unlock, TopKept
<1> QED
  BY <1>0, <1>1, <1>2, <1>3, <1>4, <1>5, <1>6, <1>8, <1>9, <1>10, <1>11, <1>12, <1>13
  DEF Next, Work, Fault, AddBlock, AddGenesis

\* A node that is up has a top it can build on.  Without restored copies that holds
\* whatever is popped, because every record can be read; with them a rewind may
\* uncover a record whose file the copy missed, so a node that was started from a
\* copy must not be rewound.
THEOREM TopStaysExtendable ==
    ASSUME "copy" \notin Faults \/ MaxRewinds = 0
    PROVE  Spec => []TopCanBeExtended
<1>1. Init => IndexInv /\ StatesInv /\ Filed /\ TopKept
  BY IndexInit, StatesInit, FiledInit, TopKeptInit
<1>2. IndexInv /\ mode = "up" => Count # 0
  BY TopIsUsed DEF IndexInv, Grounded
<1>3. ASSUME Readable(Top) PROVE TopThere
  BY <1>3 DEF TopThere, Block_Exists, Readable, SnapshotVersionKnown, NoFile
<1>4. CASE "copy" \notin Faults
  <2>1. StatesInv /\ Filed /\ [Next]_vars => (StatesInv /\ Filed)'
    BY <1>4, StatesStep, FiledStep
  <2>2. StatesInv /\ Filed => TopThere
    BY <1>3, FiledTopIsReadable DEF TopReadable, TopThere, Readable
  <2>3. IndexInv /\ StatesInv /\ Filed /\ [Next]_vars => IndexInv'
    BY <2>2, IndexStep
  <2>4. IndexInv /\ StatesInv /\ Filed => TopCanBeExtended
    BY <1>2, FiledTopIsReadable DEF TopCanBeExtended
  <2> QED
    BY <1>1, <2>1, <2>3, <2>4, PTL DEF Spec
<1>5. CASE MaxRewinds = 0
  <2>1. IndexInv /\ TopKept /\ [Next]_vars => TopKept'
    BY <1>5, TopKeptStep
  <2>2. ASSUME IndexInv, TopKept, Storing \/ pc = "tips" PROVE TopThere
    <3>1. CASE mode = "up" \/ pc = "tips"
      BY <1>3, <2>2, <3>1 DEF TopKept
    <3>2. CASE mode # "up" /\ Storing
      <4>1. NoneFrom(0) /\ TypeOK
        BY <2>2, <3>2 DEF IndexInv, GenesisFirst, Storing
      <4>2. Count = 0
        BY <4>1, UsedUpToCount, BlockTreeAssumption DEF NoneFrom, Position
      <4> QED
        BY <4>2 DEF TopThere
    <3> QED
      BY <2>2, <3>1, <3>2
  <2>3. IndexInv /\ TopKept /\ [Next]_vars => IndexInv'
    BY <2>2, IndexStep
  <2>4. IndexInv /\ TopKept => TopCanBeExtended
    BY <1>2 DEF TopCanBeExtended, TopReadable, TopKept, Readable
  <2> QED
    BY <1>1, <2>1, <2>3, <2>4, PTL DEF Spec
<1> QED
  BY <1>4, <1>5
=============================================================================
