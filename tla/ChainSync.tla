----------------------------- MODULE ChainSync -----------------------------
(***************************************************************************)
(* A node catches up with a peer: trigger_sync, sync_chain, the peer's     *)
(* answer Chain, process_object_response, and the relay of new blocks in   *)
(* chunks, which may come in any order, be lost, or come before the block  *)
(* they build on.                                                          *)
(*                                                                         *)
(* The node describes its chain by a locator: its last RUN blocks, then    *)
(* blocks at growing distances, then the genesis block.  The peer answers  *)
(* with the highest of them it has, and its chain from there on.  A node   *)
(* whose own chain goes more than STABLE_LIMIT blocks beyond that gives    *)
(* up, unless the peer was named with --sync-node: then it rewinds.        *)
(*                                                                         *)
(* None of this holds the chain's lock: blocks arrive and the console pops *)
(* blocks between any two steps, also between two reads for the locator.   *)
(* An addition is one step here, and a rewind any number of LongestChain's *)
(* Retreats; the peer's answer is read from one state of its chain.        *)
(***************************************************************************)
EXTENDS LongestChain, Integers

CONSTANTS
    Past,                     \* Past[b]: a block and all the blocks under it
    STABLE_LIMIT,
    RUN, STRIDE,              \* 20 and 5: entries of the locator per distance, and the second distance
    MAX_BLOCKS,               \* a peer answers with one hash more than this at most
    Relayed                   \* bound: the blocks that are also relayed in chunks

ASSUME SyncAssumption ==
    /\ \A b \in Block : b # Genesis => WellPlaced(b)
    /\ Past \in [Block -> SUBSET Block]
    /\ \A b \in Block \ {Genesis} : Past[b] = Past[Parent[b]] \cup {b}
    /\ \A b \in Block : /\ b \in Past[b] /\ Genesis \in Past[b]
                        /\ \A c \in Past[b] : Height[c] <= Height[b] /\ Past[c] \subseteq Past[b]
                        /\ \A c, d \in Past[b] : Height[c] = Height[d] => c = d
                        /\ \A h \in 0..Height[b] : \E c \in Past[b] : Height[c] = h
    /\ NoBlock \notin Block
    /\ STABLE_LIMIT \in Nat /\ RUN \in Nat /\ STRIDE \in Nat \ {0} /\ MAX_BLOCKS \in Nat
    /\ RUN > STABLE_LIMIT
    /\ Relayed \subseteq Block \ {Genesis}

VARIABLES
    SyncNode,    \* connection.SyncNode
    peer,        \* the top of the peer's chain
    claimed,     \* connection.Height: the height the peer told last
    stage,       \* how far sync_chain is
    start_point, \* the height the locator starts from
    i,           \* how far below it the next entry is
    len,         \* entries of the locator
    locator,     \* request.Block_list, without the genesis block at its end
    common,      \* the block of response.Start_height
    theirs,      \* the top of the peer's chain when it answered
    next,        \* the height of the next block in response.Block_list
    pop_count,
    chunks,      \* chunk_map: per block "none", "open" or "processed"
    moved        \* the top has moved since start_point was read; read by properties only

request  == <<start_point, i, len, locator>>
response == <<common, theirs, next, pop_count>>
sync     == <<SyncNode, stage, request, response>>
others   == <<peer, claimed, SyncNode, chunks>>
svars    == <<known, best, moved, others, stage, request, response>>

-----------------------------------------------------------------------------
At(b, h) == CHOOSE c \in Past[b] : Height[c] = h

(***************************************************************************)
(* The node's chain.                                                       *)
(***************************************************************************)

\* Slip: its tip is not looked for.
AddableAnywhere(b) ==
    /\ b \notin Past[best]
    /\ Height[b] <= Height[best] + 2
    /\ Height[b] > STABLE_LIMIT => /\ Height[best] >= STABLE_LIMIT
                                  /\ Height[b] >= Height[best] - STABLE_LIMIT

\* Add_Complete_Block: the block is not on the chain, its tip is there, and its height
\* is near the top's.  Heights are compared as uint64, where the stable height of a
\* chain shorter than STABLE_LIMIT is above every block.
Addable(b) ==
    /\ b \notin Past[best]
    /\ Parent[b] \in known
    /\ Height[b] <= Height[best] + 2
    /\ Height[b] > STABLE_LIMIT => /\ Height[best] >= STABLE_LIMIT
                                  /\ Height[b] >= Height[best] - STABLE_LIMIT

\* It is stored, and if it is higher it is the new top.
Add_Complete_Block(b) ==
    IF Addable(b)
      THEN /\ known' = known \cup {b}
           /\ best' = IF Height[b] > Height[best] THEN b ELSE best
           /\ moved' = (moved \/ best' # best)
      ELSE UNCHANGED <<known, best, moved>>

\* Rewind_Chain: without records enough nothing happens; the block of height 1 stays.
Rewind_Chain(count) ==
    /\ best' = IF count <= Height[best] /\ Height[best] > 1
                 THEN At(best, IF count = Height[best] THEN 1 ELSE Height[best] - count)
                 ELSE best
    /\ moved' = (moved \/ best' # best)
    /\ UNCHANGED known

\* At the console.
PopBlock == /\ Height[best] > 1 /\ Rewind_Chain(1)
            /\ UNCHANGED <<peer, claimed, sync, chunks>>

(***************************************************************************)
(* trigger_sync and sync_chain.                                            *)
(***************************************************************************)

Idle == /\ stage' = "idle"
        /\ start_point' = 0 /\ i' = 0 /\ len' = 0 /\ locator' = {}
        /\ common' = Genesis /\ theirs' = Genesis /\ next' = 0 /\ pop_count' = 0

\* try_again: the locator is begun anew.
TryAgain == /\ stage' = "locate"
            /\ start_point' = Height[best] /\ i' = 0 /\ len' = 0 /\ locator' = {}
            /\ common' = Genesis /\ theirs' = Genesis /\ next' = 0 /\ pop_count' = 0
            /\ moved' = FALSE

\* Slip: a node that is only one block behind does not sync.
islaggingByTwo == Height[best] + 1 < claimed \/ (SyncNode /\ Height[best] > claimed + 2)

\* The peer is higher; a node that trusts it follows it down, too.
islagging == Height[best] < claimed \/ (SyncNode /\ Height[best] > claimed + 2)

\* Once a second, and one at a time.
trigger_sync ==
    /\ stage = "idle" /\ islagging
    /\ TryAgain
    /\ UNCHANGED <<known, best, others>>

\* Slip: the distance grows one entry too early.
AdvanceEarly(n) ==
    IF n + 1 < RUN THEN i + 1
    ELSE IF n < 2 * RUN THEN i + STRIDE
    ELSE IF n < 3 * RUN THEN i + 10 * STRIDE
    ELSE IF n < 4 * RUN THEN i + 100 * STRIDE
    ELSE 2 * i

\* Where the entry after the n-th is.
Advance(n) ==
    IF n < RUN THEN i + 1
    ELSE IF n < 2 * RUN THEN i + STRIDE
    ELSE IF n < 3 * RUN THEN i + 10 * STRIDE
    ELSE IF n < 4 * RUN THEN i + 100 * STRIDE
    ELSE 2 * i

\* One entry is read; a record that has been cleaned meanwhile ends the locator.
Locate ==
    /\ stage = "locate"
    /\ IF i < start_point /\ start_point - i <= Height[best]
         THEN /\ locator' = locator \cup {At(best, start_point - i)}
              /\ len' = len + 1
              /\ i' = Advance(len + 1)
              /\ stage' = stage
         ELSE stage' = "answer" /\ UNCHANGED <<locator, len, i>>
    /\ UNCHANGED <<known, best, moved, others, start_point, response>>

\* The peer's Chain: the highest block of the list on its chain.  The request is used
\* up.
Chain ==
    /\ stage = "answer"
    /\ LET shared == (locator \cup {Genesis}) \cap Past[peer]
       IN  common' = CHOOSE c \in shared : \A d \in shared : Height[d] <= Height[c]
    /\ theirs' = peer
    /\ stage' = "decide"
    /\ start_point' = 0 /\ i' = 0 /\ len' = 0 /\ locator' = {}
    /\ UNCHANGED <<known, best, moved, others, next, pop_count>>

TooFar == Height[best] - Height[common] > STABLE_LIMIT

\* A peer that is not trusted has deviated too much.
GiveUp ==
    /\ stage = "decide" /\ TooFar /\ ~ SyncNode
    /\ Idle
    /\ UNCHANGED <<known, best, moved, others>>

\* Slip: the first block to go is not counted.
CountBlocksShort ==
    /\ stage = "decide" /\ TooFar /\ SyncNode
    /\ pop_count' = Height[best] - Height[common] - 1
    /\ stage' = "rewind"
    /\ UNCHANGED <<known, best, moved, others, request, common, theirs, next>>

\* A trusted one is followed back to the common block.
CountBlocks ==
    /\ stage = "decide" /\ TooFar /\ SyncNode
    /\ pop_count' = Height[best] - Height[common]
    /\ stage' = "rewind"
    /\ UNCHANGED <<known, best, moved, others, request, common, theirs, next>>

\* The blocks are popped, if they are still there; that it may refuse is not looked at.
PopBlocks ==
    /\ stage = "rewind"
    /\ Rewind_Chain(pop_count)
    /\ stage' = "again" /\ pop_count' = 0 /\ common' = Genesis /\ theirs' = Genesis
    /\ UNCHANGED <<others, request, next>>

AskAgain ==
    /\ stage = "again"
    /\ TryAgain
    /\ UNCHANGED <<known, best, others>>

BeginFetch ==
    /\ stage = "decide" /\ ~ TooFar
    /\ stage' = "fetch" /\ next' = Height[common]
    /\ UNCHANGED <<known, best, moved, others, request, common, theirs, pop_count>>

Listed == next <= Height[theirs] /\ next <= Height[common] + MAX_BLOCKS

\* The next block of the list is asked for and processed, unless it is on the chain.
\* Whatever is wrong with a block, the one after it is tried.
GetObject ==
    /\ stage = "fetch" /\ Listed
    /\ LET b == At(theirs, next)
       IN  IF b \in Past[best] \/ Height[b] > Height[best] + 4
             THEN UNCHANGED <<known, best, moved>>
             ELSE Add_Complete_Block(b)
    /\ next' = next + 1
    /\ UNCHANGED <<others, stage, request, common, theirs, pop_count>>

SyncDone ==
    /\ stage = "fetch" /\ ~ Listed
    /\ Idle
    /\ UNCHANGED <<known, best, moved, others>>

\* A call fails: the connection times out or the peer refuses.
CallFails ==
    /\ stage \in {"answer", "fetch"}
    /\ Idle
    /\ UNCHANGED <<known, best, moved, others>>

(***************************************************************************)
(* The peer, and the relay.                                                *)
(***************************************************************************)

\* The peer follows a longest chain of its own.
PeerAdopts(b) ==
    /\ Height[b] > Height[peer]
    /\ peer' = b
    /\ UNCHANGED <<known, best, claimed, sync, chunks, moved>>

\* update: a message of the peer's has its height.
HearHeight ==
    /\ claimed # Height[peer]
    /\ claimed' = Height[peer]
    /\ UNCHANGED <<known, best, peer, sync, chunks, moved>>

\* A block from elsewhere: mined here, or sent whole by another peer.
OtherBlock(b) ==
    /\ Addable(b) /\ Add_Complete_Block(b)
    /\ UNCHANGED <<peer, claimed, sync, chunks>>

\* feed_chunk: the first chunk of a block near the top.
FirstChunk(b) ==
    /\ chunks[b] = "none"
    /\ Height[b] \in (Height[best] - 3)..(Height[best] + 3)
    /\ chunks' = [chunks EXCEPT ![b] = "open"]
    /\ UNCHANGED <<known, best, peer, claimed, sync, moved>>

\* feed_chunk: enough chunks.  The set counts as processed before the block is tried,
\* and chunks of a processed set are ignored.
LastChunk(b) ==
    /\ chunks[b] = "open"
    /\ chunks' = [chunks EXCEPT ![b] = "processed"]
    /\ Add_Complete_Block(b)
    /\ UNCHANGED <<peer, claimed, sync>>

\* chunks_clean_up, 180 seconds later.
CleanUp(b) ==
    /\ chunks[b] # "none"
    /\ chunks' = [chunks EXCEPT ![b] = "none"]
    /\ UNCHANGED <<known, best, peer, claimed, sync, moved>>

-----------------------------------------------------------------------------
\* Any chain that could have been downloaded, and any other that the peer has.
SyncInit ==
    /\ best \in Block /\ known = Past[best]
    /\ peer \in Block /\ claimed = 0 /\ SyncNode \in BOOLEAN
    /\ stage = "idle"
    /\ start_point = 0 /\ i = 0 /\ len = 0 /\ locator = {}
    /\ common = Genesis /\ theirs = Genesis /\ next = 0 /\ pop_count = 0
    /\ chunks = [b \in Relayed |-> "none"]
    /\ moved = FALSE

SyncStep == \/ Locate \/ Chain \/ GiveUp \/ CountBlocks \/ PopBlocks \/ AskAgain
            \/ BeginFetch \/ GetObject \/ SyncDone

\* What keeps a node from getting anywhere if it never ends.  Blocks of the peer's are
\* among it: if many come while sync_chain waits for an answer, the common block looks
\* too far away.
Disturbance == \/ PopBlock \/ CallFails
               \/ \E b \in Block : PeerAdopts(b) \/ OtherBlock(b)
               \/ \E b \in Relayed : LastChunk(b)

ChunkStep == \E b \in Relayed : FirstChunk(b) \/ CleanUp(b)

SyncNext == trigger_sync \/ SyncStep \/ HearHeight \/ Disturbance \/ ChunkStep

\* The job runs every second, peers keep telling their height, and calls return.
SyncSpec == /\ SyncInit /\ [][SyncNext]_svars
            /\ WF_svars(trigger_sync) /\ WF_svars(SyncStep) /\ WF_svars(HearHeight)

-----------------------------------------------------------------------------
(***************************************************************************)
(* Properties.                                                             *)
(***************************************************************************)

\* Types.
SyncTypeOK ==
    /\ known \subseteq Block /\ best \in known /\ Past[best] \subseteq known
    /\ SyncNode \in BOOLEAN /\ peer \in Block /\ claimed \in Position
    /\ stage \in {"idle", "locate", "answer", "decide", "rewind", "again", "fetch"}
    /\ start_point \in Position /\ i \in Nat /\ len \in Nat /\ locator \subseteq Block
    /\ common \in Block /\ theirs \in Block /\ next \in Nat /\ pop_count \in Position
    /\ chunks \in [Relayed -> {"none", "open", "processed"}]
    /\ moved \in BOOLEAN

\* However sparse the locator is: a node gives up a peer, or counts blocks to rewind, only
\* if its chain really has left the peer's more than STABLE_LIMIT blocks ago, unless its
\* top has moved since the locator was begun.
OnlyDeepForksAreTooFar ==
    stage = "decide" /\ ~ moved /\ TooFar
        => \A c \in Past[best] \cap Past[theirs] : Height[best] - Height[c] > STABLE_LIMIT

\* A rewind that nothing disturbs ends on the peer's chain, or at the first block.
RewindsToTheirChain ==
    [][PopBlocks /\ ~ moved => best' \in Past[theirs] \/ Height[best'] = 1]_svars

\* A node that is left alone catches up, whatever was lost, disturbed or processed too
\* early before: it reaches the height of the peer again and again, unless it does not
\* trust the peer and their chains have parted too long ago.
CatchesUp ==
    <>[][~ Disturbance]_svars
        => []<>(\/ Height[best] >= Height[peer]
                \/ ~ SyncNode /\ \A c \in Past[best] \cap Past[peer] : Height[best] - Height[c] > STABLE_LIMIT)
=============================================================================
