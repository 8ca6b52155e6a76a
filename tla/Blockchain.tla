----------------------------- MODULE Blockchain -----------------------------
(***************************************************************************)
(* One node's chain: the block files, the committed balance snapshots, the *)
(* topological index (topo.map) and the tips, and the only code that       *)
(* changes them: Add_Complete_Block, Rewind_Chain and Blockchain_Start.    *)
(*                                                                         *)
(* The unit of a step is one durable write.  chain.Lock is held from the   *)
(* first step of an addition or a rewind to its last, so nothing that      *)
(* takes the lock interleaves, but the process can die between any two     *)
(* writes, and code that does not take the lock (miniblocks, templates)    *)
(* runs in between.                                                        *)
(***************************************************************************)
EXTENDS BlockTree, Integers, Sequences

CONSTANTS
    NoBlock,        \* the all-zero hash of a clean record
    STABLE_LIMIT,   \* config.STABLE_LIMIT: how far below the top blocks are still taken
    Word,           \* 2^64 in the code; a header height is compared as a uint64
    Offered,        \* the blocks that some peer keeps offering
    Faults,         \* the faults of the environment, a subset of FaultKind
    MaxCommits,     \* bound on the snapshots there are when a block that does not raise the chain is added again
    MaxRewinds,     \* bound on the calls of Rewind_Chain
    MaxCrashes      \* bound on crashes, failed writes and restored copies together

FaultKind == {"crash",  \* the process dies between two writes
              "io",     \* a block file cannot be written, and the code panics
              "copy"}   \* the files are a copy taken while the node was running

ASSUME ChainAssumption ==
    /\ NoBlock \notin Block
    /\ STABLE_LIMIT \in Nat \ {0}
    /\ Word \in Nat /\ Word > MaxHeight + STABLE_LIMIT + 2
    /\ Offered \subseteq Block
    /\ Faults \subseteq FaultKind
    /\ MaxCommits \in Nat /\ MaxRewinds \in Nat /\ MaxCrashes \in Nat

VARIABLES
    \* on disk
    file,       \* file[b]: the snapshot version in the block file's name, NoFile if there is none
    commits,    \* the snapshots of the balance store, commits[v] is version v
    topo,       \* the topo file: a record per height
    \* in memory
    mode,       \* "off", the stages "genesis" and "check" of Blockchain_Start, or "up"
    tips,       \* chain.Tips
    reload,     \* a Rewind_Chain has unlocked and still owes Initialise_Chain_From_DB
    \* the call that holds chain.Lock, and its local variables
    pc,         \* what it does next; "idle" when the lock is free
    cur,        \* the block being added
    grown,      \* height_changed: the block is higher than the chain was
    fix,        \* fix_bl: the block whose topo record is written next
    version,    \* fix_commit_version: the snapshot version that goes with it
    cut, floor, \* the records cut, cut - 1, ..., floor + 1 are still to be cleaned
    \* bounds
    rewinds, crashes

disk   == <<file, commits, topo>>
locals == <<cur, grown, fix, version, cut, floor>>
bounds == <<rewinds, crashes>>
vars   == <<disk, mode, tips, reload, pc, locals, bounds>>

NoFile  == -1
Clean   == [block |-> NoBlock, version |-> 0]
Record  == [block : Block, version : Nat] \cup {Clean}

\* A snapshot: the block whose execution it holds, and the version that
\* execution started from (0 is the empty store the genesis block starts from).
Commit  == [block : Block, base : Nat]

(***************************************************************************)
(* Reading the store.                                                      *)
(***************************************************************************)

\* storetopofs.Count: the records up to the last one that is not clean.
Count == LET used == {i \in Position : topo[i] # Clean}
         IN  IF used = {} THEN 0 ELSE 1 + CHOOSE i \in used : \A j \in used : j <= i

\* Load_TOPO_HEIGHT, and the block the record names (Get_Top_ID).
Load_TOPO_HEIGHT == IF Count = 0 THEN 0 ELSE Count - 1
Top              == topo[Load_TOPO_HEIGHT].block

Block_Exists(b) == file[b] # NoFile

\* Load_Block_Height of the top: -1 when its file is missing.
Get_Height        == IF Count = 0 THEN 0 ELSE IF Block_Exists(Top) THEN Height[Top] ELSE -1
Get_Stable_Height == Get_Height - STABLE_LIMIT

\* The block is on disk and the topo file has a record for it.
Is_Block_Topological_order(b) ==
    Block_Exists(b) /\ \E i \in Position : topo[i].block = b

\* Slip: the error of ReadBlockSnapshotVersion is dropped.
SnapshotVersionUnchecked(b) == TRUE

\* ReadBlockSnapshotVersion and LoadSnapshot both succeed.
SnapshotVersionKnown(b) == file[b] >= 1
SnapshotLoads(v)        == v \in 1..Len(commits)

Uint64(i) == i % Word

(***************************************************************************)
(* Add_Complete_Block.                                                     *)
(***************************************************************************)

\* The lock is released; the locals of the call that held it are gone.
Unlock == /\ pc' = "idle"
          /\ cur' = Genesis /\ grown' = FALSE /\ fix' = Genesis /\ version' = 0
          /\ cut' = 0 /\ floor' = 0

\* Slip: a tip must be on the followed branch, where being stored is enough.
AcceptableOnTopo(b) ==
    /\ b \notin tips
    /\ ~ Is_Block_Topological_order(b)
    /\ Height[b] <= Get_Height + 2
    /\ b # Genesis => Is_Block_Topological_order(Parent[b]) /\ WellPlaced(b)

\* The checks on the header.  A block that fails one is rejected and nothing
\* changes; the checks that are not about the block's place in the tree may
\* reject any block, which is the choice not to take this step.
Acceptable(b) ==
    /\ b \notin tips
    /\ ~ Is_Block_Topological_order(b)
    /\ Height[b] <= Get_Height + 2
    /\ ~ (Height[b] > STABLE_LIMIT /\ Height[b] < Uint64(Get_Stable_Height))
    /\ b # Genesis => /\ Block_Exists(Parent[b])
                      /\ Height[b] # 0
                      /\ WellPlaced(b)

\* The checks pass under the lock; StoreBlock deletes the block's old file.
BeginAdd(b) ==
    /\ pc = "idle"
    /\ Acceptable(b)
    /\ SnapshotVersionKnown(b) /\ Height[b] <= Get_Height => Len(commits) < MaxCommits
    /\ file' = [file EXCEPT ![b] = NoFile]
    /\ cur' = b
    /\ pc' = "store"
    /\ UNCHANGED <<commits, topo, mode, tips, reload, grown, fix, version, cut, floor, bounds>>

\* A block from a peer, a chunk server or a miner.
AddBlock(b) == mode = "up" /\ b # Genesis /\ BeginAdd(b)

\* Blockchain_Start adds the genesis block when the node has nothing at all.
AddGenesis == mode = "genesis" /\ BeginAdd(Genesis)

\* Slip: a block of the same height replaces the top.
StoreBlockNotLower ==
    /\ pc = "store"
    /\ file' = [file EXCEPT ![cur] = 0]
    /\ grown' = (Height[cur] >= Get_Height)
    /\ pc' = "execute"
    /\ UNCHANGED <<commits, topo, mode, tips, reload, cur, fix, version, cut, floor, bounds>>

\* StoreBlock(bl, 0): the file is back, without a snapshot; then the question
\* whether the block makes the chain higher is settled.
StoreBlock ==
    /\ pc = "store"
    /\ file' = [file EXCEPT ![cur] = 0]
    /\ grown' = (Height[cur] > Get_Height \/ Height[cur] = 0)
    /\ pc' = "execute"
    /\ UNCHANGED <<commits, topo, mode, tips, reload, cur, fix, version, cut, floor, bounds>>

\* Slip: every block is executed on the most recent snapshot.
BaseMostRecent == Len(commits)

\* What LoadSnapshot can load for the block's tip.  The genesis block starts
\* from the most recent snapshot, which is the empty store.
BaseLoads == cur # Genesis => SnapshotVersionKnown(Parent[cur]) /\ SnapshotLoads(file[Parent[cur]])
Base      == IF cur = Genesis THEN Len(commits) ELSE file[Parent[cur]]

\* Slip: the second StoreBlock is forgotten, the file stays without its version.
ExecuteNoStore ==
    /\ pc = "execute" /\ BaseLoads
    /\ commits' = Append(commits, [block |-> cur, base |-> Base])
    /\ version' = Len(commits) + 1
    /\ fix' = cur
    /\ pc' = IF grown THEN "fix" ELSE "tips"
    /\ UNCHANGED <<file, topo, mode, tips, reload, cur, grown, cut, floor, bounds>>

\* The snapshot of the tip is loaded, the block is executed on it, and the
\* trees are committed as the next version.
Execute ==
    /\ pc = "execute" /\ BaseLoads
    /\ commits' = Append(commits, [block |-> cur, base |-> Base])
    /\ version' = Len(commits) + 1
    /\ pc' = "delete"
    /\ UNCHANGED <<file, topo, mode, tips, reload, cur, grown, fix, cut, floor, bounds>>

\* The tip's snapshot cannot be read: a panic, recovered as ErrPanic.
ExecutePanics ==
    /\ pc = "execute" /\ ~ BaseLoads
    /\ Unlock
    /\ UNCHANGED <<disk, mode, tips, reload, bounds>>

\* StoreBlock(bl, commit_version): first the file without a snapshot goes ...
DeleteUnversioned ==
    /\ pc = "delete"
    /\ file' = [file EXCEPT ![cur] = NoFile]
    /\ pc' = "restore"
    /\ UNCHANGED <<commits, topo, mode, tips, reload, locals, bounds>>

\* ... then it is back under its version.
StoreVersioned ==
    /\ pc = "restore"
    /\ file' = [file EXCEPT ![cur] = version]
    /\ fix' = cur
    /\ pc' = IF grown THEN "fix" ELSE "tips"
    /\ UNCHANGED <<commits, topo, mode, tips, reload, cur, grown, version, cut, floor, bounds>>

\* Slip: the loop stops at the first record that is there at all.
LinkedIfUsed == Height[fix] # 0 => topo[Height[fix] - 1].block # NoBlock

\* One round of the loop that writes "history until the entire chain is
\* fixed": it walks from the new block down its tips, and stops at the first
\* tip that already has its record.
Linked == Height[fix] # 0 => topo[Height[fix] - 1].block = Parent[fix]

WriteTopo(next) ==
    /\ pc = "fix" /\ next
    /\ topo' = [topo EXCEPT ![Height[fix]] = [block |-> fix, version |-> version]]
    /\ UNCHANGED <<file, commits, mode, tips, reload, bounds>>

\* Slip: the tip's record gets the version of the block above it.
FixTopoOldVersion == WriteTopo(~ Linked /\ SnapshotVersionKnown(Parent[fix]))
                     /\ fix' = Parent[fix]
                     /\ UNCHANGED <<pc, cur, grown, version, cut, floor>>

\* Slip: the loop does not move on to the tip.
FixTopoInPlace == WriteTopo(~ Linked /\ SnapshotVersionKnown(Parent[fix]))
                  /\ UNCHANGED <<pc, cur, grown, fix, version, cut, floor>>

FixTopo == WriteTopo(~ Linked /\ SnapshotVersionKnown(Parent[fix]))
           /\ fix' = Parent[fix] /\ version' = file[Parent[fix]]
           /\ UNCHANGED <<pc, cur, grown, cut, floor>>

FixDone == WriteTopo(Linked)
           /\ pc' = "tips"
           /\ UNCHANGED locals

\* The tip's snapshot version cannot be read: a panic, recovered as ErrPanic.
FixPanics == WriteTopo(~ Linked /\ ~ SnapshotVersionKnown(Parent[fix]))
             /\ Unlock

\* Slip: a tip may be one block below the top.
UpdateTipsRusty ==
    /\ pc = "tips"
    /\ tips' = {t \in (tips \ (IF cur = Genesis THEN {} ELSE {Parent[cur]})) \cup {cur} :
                    Get_Height - Height[t] <= 1}
    /\ Unlock
    /\ UNCHANGED <<disk, mode, reload, bounds>>

\* The block takes the place of its tip, and only tips at the chain's height
\* stay.  The pooled miniblocks that this step purges are Mining's.
UpdateTips ==
    /\ pc = "tips"
    /\ tips' = {t \in (tips \ (IF cur = Genesis THEN {} ELSE {Parent[cur]})) \cup {cur} :
                    Height[t] = Get_Height}
    /\ Unlock
    /\ UNCHANGED <<disk, mode, reload, bounds>>

\* WriteBlock fails after the old file was removed: a panic as well.  A node
\* that cannot store its genesis block gives up.
WriteFails ==
    /\ "io" \in Faults /\ crashes < MaxCrashes
    /\ pc \in {"store", "restore"}
    /\ Unlock
    /\ mode' = IF mode = "genesis" THEN "off" ELSE mode
    /\ crashes' = crashes + 1
    /\ UNCHANGED <<disk, tips, reload, rewinds>>

(***************************************************************************)
(* Rewind_Chain.                                                           *)
(***************************************************************************)

\* Slip: one record too few is counted.
StopsRewindEarly(n, r) == LET i == Load_TOPO_HEIGHT - r
                          IN  \/ i < 1
                              \/ r + 1 >= n
                              \/ topo[i].block # NoBlock /\ Height[topo[i].block] = 1

\* The loop that counts the records to clean: it stops at position 0, after n
\* records, or at a record of height 1, which is never cleaned.
StopsRewind(n, r) == LET i == Load_TOPO_HEIGHT - r
                     IN  \/ i < 1
                         \/ r >= n
                         \/ topo[i].block # NoBlock /\ Height[topo[i].block] = 1

Rewindable(n) == CHOOSE r \in 0..n : StopsRewind(n, r) /\ \A s \in 0..(r - 1) : ~ StopsRewind(n, s)

\* pruned_till is -1 on a node whose history was never pruned.
RewindRefused(n) == Load_TOPO_HEIGHT - n <= -1

StartRewind(n) ==
    /\ pc = "idle"
    /\ IF RewindRefused(n)
         THEN reload' = TRUE /\ UNCHANGED <<pc, cut, floor>>
         ELSE /\ pc' = "clean"
              /\ cut' = Load_TOPO_HEIGHT
              /\ floor' = Load_TOPO_HEIGHT - Rewindable(n)
              /\ UNCHANGED reload
    /\ UNCHANGED <<disk, mode, tips, cur, grown, fix, version, crashes>>

\* The sync code under --sync-node, and the console command pop.
Rewind(n) ==
    /\ mode = "up" /\ rewinds < MaxRewinds
    /\ StartRewind(n)
    /\ rewinds' = rewinds + 1

CleanRecord ==
    /\ pc = "clean" /\ cut > floor
    /\ topo' = [topo EXCEPT ![cut] = Clean]
    /\ cut' = cut - 1
    /\ UNCHANGED <<file, commits, mode, tips, reload, pc, cur, grown, fix, version, floor, bounds>>

\* The lock is released, and only then does the deferred
\* Initialise_Chain_From_DB ask for it again.  (All pooled miniblocks go, see Mining.)
RewindUnlocks ==
    /\ pc = "clean" /\ cut = floor
    /\ Unlock
    /\ reload' = TRUE
    /\ UNCHANGED <<disk, mode, tips, bounds>>

\* Only one tip can be loaded from disk, the top; it is the zero hash when the
\* topo file has no record.
Initialise_Chain_From_DB ==
    /\ pc = "idle" /\ reload
    /\ tips' = {Top}
    /\ reload' = FALSE
    /\ UNCHANGED <<disk, mode, pc, locals, bounds>>

(***************************************************************************)
(* Blockchain_Start.                                                       *)
(***************************************************************************)

\* The genesis block is added only if topo.map has no record and the balance
\* store was never written.
Start ==
    /\ mode = "off"
    /\ IF Count = 0 /\ commits = <<>>
         THEN mode' = "genesis" /\ UNCHANGED reload
         ELSE mode' = "check" /\ reload' = TRUE
    /\ UNCHANGED <<disk, tips, pc, locals, bounds>>

GenesisAdded ==
    /\ mode = "genesis" /\ pc = "idle" /\ Genesis \in tips
    /\ mode' = "check" /\ reload' = TRUE
    /\ UNCHANGED <<disk, tips, pc, locals, bounds>>

TopReadable == Count # 0 /\ SnapshotVersionKnown(Top) /\ SnapshotLoads(file[Top])

\* Slip: the merkle root of the top's snapshot is not tried.
BootedUntried ==
    /\ mode = "check" /\ pc = "idle" /\ ~ reload
    /\ Count # 0 /\ SnapshotVersionKnown(Top)
    /\ mode' = "up"
    /\ UNCHANGED <<disk, tips, reload, pc, locals, bounds>>

Booted ==
    /\ mode = "check" /\ pc = "idle" /\ ~ reload /\ TopReadable
    /\ mode' = "up"
    /\ UNCHANGED <<disk, tips, reload, pc, locals, bounds>>

\* try_again: the snapshot of the top cannot be read, so one block is rewound.
BootRewind ==
    /\ mode = "check" /\ ~ reload /\ ~ TopReadable
    /\ StartRewind(1)
    /\ UNCHANGED rewinds

(***************************************************************************)
(* Faults.                                                                 *)
(***************************************************************************)

Stop == /\ mode # "off" /\ crashes < MaxCrashes
        /\ mode' = "off" /\ tips' = {} /\ reload' = FALSE
        /\ Unlock
        /\ crashes' = crashes + 1
        /\ UNCHANGED rewinds

Crash == "crash" \in Faults /\ Stop /\ UNCHANGED disk

\* The directory is copied while the node adds blocks, balances/ first, then
\* bltx_store/, then topo.map, and the node starts from the copy: snapshots
\* and block files are missing that the topo file already names.
RestoreCopy(snapshots, blocks) ==
    /\ "copy" \in Faults /\ pc = "idle"
    /\ Stop
    /\ commits' = SubSeq(commits, 1, snapshots)
    /\ file' = [b \in Block |-> IF file[b] > blocks THEN NoFile ELSE file[b]]
    /\ UNCHANGED topo

-----------------------------------------------------------------------------
Init ==
    /\ file = [b \in Block |-> NoFile]
    /\ commits = <<>>
    /\ topo = [i \in Position |-> Clean]
    /\ mode = "off" /\ tips = {} /\ reload = FALSE
    /\ pc = "idle" /\ cur = Genesis /\ grown = FALSE /\ fix = Genesis /\ version = 0
    /\ cut = 0 /\ floor = 0
    /\ rewinds = 0 /\ crashes = 0

\* The steps of a call that holds the lock, of a start, and of the deferred reload.
Work == \/ StoreBlock \/ Execute \/ ExecutePanics \/ DeleteUnversioned \/ StoreVersioned
        \/ FixTopo \/ FixDone \/ FixPanics \/ UpdateTips
        \/ CleanRecord \/ RewindUnlocks \/ Initialise_Chain_From_DB
        \/ Start \/ AddGenesis \/ GenesisAdded \/ Booted \/ BootRewind

Fault == \/ Crash \/ WriteFails
         \/ \E k \in 1..Len(commits) : \E m \in k..Len(commits) : RestoreCopy(k, m)

Next == \/ Work
        \/ \E b \in Block : AddBlock(b)
        \/ \E n \in 1..(MaxHeight + 1) : Rewind(n)
        \/ Fault

Spec == Init /\ [][Next]_vars

\* A running process takes its next step, and a stopped node is started again.
\* A peer on the highest chain answers every sync_chain with the blocks of that
\* chain the node has not filed, and chain.Lock is handed to every waiter.
Fairness == WF_vars(Work) /\ \A b \in Offered : SF_vars(AddBlock(b))

FairSpec == Spec /\ Fairness

(***************************************************************************)
(* Properties.                                                             *)
(***************************************************************************)

TypeOK ==
    /\ file \in [Block -> Nat \cup {NoFile}]
    /\ commits \in Seq(Commit)
    /\ topo \in [Position -> Record]
    /\ mode \in {"off", "genesis", "check", "up"}
    /\ tips \subseteq Block \cup {NoBlock}
    /\ reload \in BOOLEAN
    /\ pc \in {"idle", "store", "execute", "delete", "restore", "fix", "tips", "clean"}
    /\ cur \in Block /\ fix \in Block
    /\ grown \in BOOLEAN
    /\ version \in Nat
    /\ cut \in Int /\ floor \in Int
    /\ rewinds \in Nat /\ crashes \in Nat

\* The part of the chain at or below height h as the topo file tells it.
LinkedUpTo(h) == \A i \in 1..h : /\ topo[i].block # NoBlock
                                 /\ topo[i - 1].block = Parent[topo[i].block]

\* Whenever the lock is free, the topo file is one chain: every record below
\* the top names the tip of the block above it, down to the genesis block.
\* The loop in Add_Complete_Block writes the records of a longer chain from
\* the top down, one durable write each, over the records of the old chain.
TopoIsOneChain ==
    pc = "idle" /\ Count # 0 => /\ topo[0].block = Genesis
                                /\ LinkedUpTo(Count - 1)

\* Every record below the top names a block of its height and a snapshot of that
\* very block, executed on a snapshot of its tip.  The version a side block was
\* stored under is read back, possibly after it was executed again, when a
\* longer chain makes the side chain the main one.
RecordsNameTheirState ==
    \A i \in Position :
        topo[i].block # NoBlock =>
            /\ Height[topo[i].block] = i
            /\ SnapshotLoads(topo[i].version)
            /\ commits[topo[i].version].block = topo[i].block

\* Every snapshot was made by executing a block on a snapshot of its tip.
SnapshotsFollowTips ==
    \A v \in 1..Len(commits) :
        LET c == commits[v]
        IN  c.block # Genesis => /\ c.base \in 1..(v - 1)
                                 /\ commits[c.base].block = Parent[c.block]

\* A file that names a snapshot names one of its block.
FilesNameTheirState ==
    \A b \in Block : file[b] >= 1 => SnapshotLoads(file[b]) /\ commits[file[b]].block = b

\* When nobody holds the lock and no reload is owed, the node's tips are
\* blocks of the top height, the top itself among them, and each of them can
\* be built on: its snapshot can be loaded.  The tips are recomputed from the
\* old ones, which a rewind that has just unlocked has not corrected yet.
TipsAreTheTop ==
    mode = "up" /\ pc = "idle" /\ ~ reload =>
        /\ Top \in tips
        /\ \A t \in tips : /\ Height[t] = Get_Height
                           /\ SnapshotVersionKnown(t) /\ SnapshotLoads(file[t])

\* A crash never costs a node a block it had filed: what the topo file names as
\* the top was executed, committed and stored under its version before the
\* record was written, so a start finds it readable and rewinds nothing.
TopSurvivesCrash == mode = "check" /\ Count # 0 => TopReadable

\* A node that is up can always extend its top, whatever was lost: Blockchain_Start
\* rewinds until the top is readable, and an addition files only what it has stored.
TopCanBeExtended == mode = "up" /\ pc = "idle" => TopReadable

\* The node is a longest-chain node: what it has executed and what it follows
\* change as in LongestChain, although the decision that a block makes the
\* chain higher is taken three writes before the topo file is changed, and
\* the change itself is spread over one write per record.
Abstract == INSTANCE LongestChain WITH
                known <- {commits[v].block : v \in 1..Len(commits)},
                best  <- Top
FollowsLongestChain == Abstract!Spec

\* A call that has taken the lock gives it back: the loop that fixes the topo
\* file comes to its end.
LockReleased == pc # "idle" ~> pc = "idle"

\* A node that is started comes up.
NodeComesUp == <>(mode = "up")

\* A start from a damaged copy comes to an end: as long as the records that
\* Rewind_Chain never cleans are readable, Blockchain_Start rewinds down to a
\* readable block instead of trying the same one for ever.
BottomReadable == /\ Count # 0
                  /\ \A i \in Position :
                        i <= 1 /\ topo[i].block # NoBlock
                            => SnapshotVersionKnown(topo[i].block) /\ SnapshotLoads(file[topo[i].block])
StartEnds == mode = "check" /\ BottomReadable ~> mode = "up"

\* A node that has its genesis block ends up as high as the chain that is offered
\* to it, whatever other branch it followed before and wherever it crashed.
ReachesOfferedHeight ==
    Count # 0 ~> mode = "up" /\ \A b \in Offered : Height[b] <= Get_Height
=============================================================================
