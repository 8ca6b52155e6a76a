------------------------------- MODULE Mining -------------------------------
(***************************************************************************)
(* How a node's own blocks come about: templates, the miniblocks that vote *)
(* for the tip of the next block, and the blocks miners hand in.           *)
(*                                                                         *)
(* A template (Create_new_miner_block) is made without the chain's lock.   *)
(* It reads the accounts of the top first, then the votes and the tips,    *)
(* then the pools and the votes again, while Add_Complete_Block, which     *)
(* writes the top before the tips, rewinds, the pools and other nodes'     *)
(* miniblocks go on.  Miners work on a template for as long as they like.  *)
(*                                                                         *)
(* What may wait in the pools is TxPool's; here any transaction may whose  *)
(* nonce or address is not marked, and a deletion unmarks it in the same   *)
(* step, but two deletions of one transaction at a time, which can take a  *)
(* mark from a transaction that waits, are kept.  Of the proofs and the    *)
(* balances, which are Ledger's, only the nonce heights are kept: who has  *)
(* got a nonce between the referred block and the tip.  In a block the     *)
(* registrations come first, as templates put them.  The proof of work,    *)
(* the size limits and the registration of miners are left out.            *)
(***************************************************************************)
EXTENDS LongestChain, Integers, FiniteSets

CONSTANTS
    Own,                      \* the blocks this node's templates become, at most one on each tip
    Transfer, Registration,   \* hashes of the transactions wallets make
    Address,                  \* Address[r]: what a registration registers
    Pooled,                   \* those that reach this node's pools
    Ref, Sender, Half,        \* of a transfer: the block it refers to, who spends, and the ring members who get a nonce
    NetBody,                  \* NetBody[b]: the transactions of a block of another node
    Past,                     \* Past[b]: a block and all the blocks under it
    STABLE_LIMIT, TX_VALIDITY_HEIGHT,
    Quorum,                   \* BLOCK_TIME - MINIBLOCK_HIGHDIFF: miniblocks in a block before the final one
    Recent,                   \* how many blocks down the chain ExpandMiniBlockTip looks
    Young                     \* up to this height miniblocks of all heights are taken

Tx      == Transfer \cup Registration
Network == Block \ (Own \cup {Genesis})

ASSUME MiningAssumption ==
    /\ Own \subseteq Block \ {Genesis}
    /\ \A b, c \in Own : Parent[b] = Parent[c] => b = c
    /\ \A b \in Block : b # Genesis => WellPlaced(b)
    /\ Transfer \cap Registration = {} /\ Pooled \subseteq Tx
    /\ DOMAIN Address = Registration
    /\ Ref \in [Transfer -> Block]
    /\ \A t \in Transfer : Sender[t] \in Half[t]
    /\ NetBody \in [Network \cup {Genesis} -> SUBSET Tx]
    /\ Past[Genesis] = {Genesis}
    /\ \A b \in Block \ {Genesis} : Past[b] = Past[Parent[b]] \cup {b}
    /\ NoBlock \notin Block
    /\ STABLE_LIMIT \in Nat /\ TX_VALIDITY_HEIGHT \in Nat
    /\ Quorum \in Nat \ {0} /\ Recent \in Nat \ {0} /\ Young \in Nat

VARIABLES
    tips,        \* chain.Tips
    adding,      \* the block Add_Complete_Block has stored and not yet entered, or NoBlock
    body,        \* body[b]: the transactions of an own block
    pool,        \* what the mempool and the regpool hold
    marked,      \* mempool.nonces and regpool.address_map
    late,        \* the mark a second Delete_TX of its transaction has still to take, if any
    raced,       \* the marks it took from a transaction in the pool; read by properties only
    votes,       \* votes[t]: chain.MiniBlocks under the key of tip t and the height above it, up to Quorum
    stage,       \* how far the template in the making is: "idle", "top" or "tip"
    seen,        \* the block whose balance_tree it has read
    tip,         \* bl.Tips[0]
    job,         \* the template miners work on: [tip, txs, full], or NoJob
    duplicate    \* duplicate_height_check

pools    == <<pool, marked, late, raced>>
template == <<stage, seen, tip, job>>
mvars    == <<known, best, tips, adding, body, pools, votes, template, duplicate>>

NoJob == [tip |-> NoBlock, txs |-> {}, full |-> FALSE]

-----------------------------------------------------------------------------
TxsOf(b) == IF b \in Own THEN body[b] ELSE NetBody[b]

Registered(a, b) == \E c \in Past[b] : \E r \in TxsOf(c) \cap Registration : Address[r] = a

\* Verify_Transaction_NonCoinbase_CheckNonce_Tips: nobody in the sender's half of the
\* ring has got a nonce since the referred block, unless a registration of his address
\* has taken it away again.
CheckNonce(t, b) ==
    \A c \in Past[b] \ Past[Ref[t]] : \A u \in TxsOf(c) \cap Transfer : \A a \in Half[u] \cap Half[t] :
        \E d \in Past[b] : /\ Height[d] > Height[c]
                          /\ \E r \in TxsOf(d) \cap Registration : Address[r] = a

\* The transfer refers to a recent block of the branch.
Referable(t, b) == Ref[t] \in Past[b] /\ Height[b] + 1 - Height[Ref[t]] < TX_VALIDITY_HEIGHT

\* cbl_verify: a key may be in the halves of two transfers only if they are of one height.
Compatible(t, u) == Half[t] \cap Half[u] # {} => Height[Ref[t]] = Height[Ref[u]]

\* What the pools mark: the nonce of a transfer, made of the sender's secret and the
\* block referred to, or the address of a registration.
Mark(t) == IF t \in Transfer THEN <<Sender[t], Ref[t]>> ELSE Address[t]

\* The checks of Add_Complete_Block on the transactions of a block on tip b, one by one
\* and against each other; nobody asks whether a registration's address has an account.
Valid(txs, b) ==
    \A t \in txs \cap Transfer : /\ Referable(t, b) /\ CheckNonce(t, b)
                               /\ \A u \in txs \cap Transfer : Compatible(t, u)

\* And no nonce and no address is in the block twice.
Acceptable(txs, b) == Valid(txs, b) /\ \A t, u \in txs : t # u => Mark(t) # Mark(u)

\* Its checks on where the block would go.  Heights are uint64: under a chain that is
\* not STABLE_LIMIT high, STABLE_LIMIT under the top is more than any height.
Addable(b) ==
    /\ b \notin tips /\ b \notin Past[best]
    /\ Parent[b] \in known
    /\ Height[b] <= Height[best] + 2
    /\ Height[b] > STABLE_LIMIT => /\ Height[best] >= STABLE_LIMIT
                                  /\ Height[b] >= Height[best] - STABLE_LIMIT

(***************************************************************************)
(* Add_Complete_Block and Rewind_Chain, under the chain's lock.            *)
(***************************************************************************)

\* The block is executed and stored.
Store(b) ==
    /\ adding = NoBlock /\ Addable(b)
    /\ Accept(b)
    /\ adding' = b

\* A block from another node.
NetworkBlock(b) ==
    /\ Store(b)
    /\ Acceptable(NetBody[b], Parent[b])
    /\ UNCHANGED <<tips, body, pools, votes, template, duplicate>>

\* The topo records: a higher block is the new top.
MoveTop ==
    /\ adding # NoBlock /\ Adopt(adding)
    /\ UNCHANGED <<tips, adding, body, pools, votes, template, duplicate>>

\* Slip: the votes for the next block go with the old ones.
PurgeHeightAll(h) == [t \in Block |-> IF h >= 0 THEN 0 ELSE votes[t]]

\* PurgeHeight: the votes for the blocks up to this height are dropped.
PurgeHeight(h) == [t \in Block |-> IF h >= 0 /\ Height[t] + 1 <= h THEN 0 ELSE votes[t]]

\* The new tips: without the block's own tip, and only those as high as the top.
EnterTips ==
    /\ adding # NoBlock /\ Height[adding] <= Height[best]
    /\ tips' = {t \in (tips \ {Parent[adding]}) \cup {adding} : Height[t] = Height[best]}
    /\ votes' = PurgeHeight(Height[best] - STABLE_LIMIT)
    /\ adding' = NoBlock
    /\ UNCHANGED <<known, best, body, pools, template, duplicate>>

\* Rewind_Chain, a block at a time: all votes are dropped, the tips are read anew (which
\* the code does after it has let the lock go: Blockchain has these steps apart).  The
\* block of height 1 stays, the votes go even so.
Rewind ==
    /\ adding = NoBlock
    /\ Retreat \/ (Height[best] <= 1 /\ UNCHANGED <<known, best>>)
    /\ tips' = {best'} /\ votes' = [t \in Block |-> 0]
    /\ UNCHANGED <<adding, body, pools, template, duplicate>>

(***************************************************************************)
(* The pools and the votes.                                                *)
(***************************************************************************)

\* Slip: the marks are not looked at.
AddTxUnchecked(t) ==
    /\ t \in Pooled \ pool
    /\ pool' = pool \cup {t} /\ marked' = marked \cup {Mark(t)}
    /\ UNCHANGED <<known, best, tips, adding, body, late, raced, votes, template, duplicate>>

\* Mempool_Add_TX and Regpool_Add_TX turn away what has the mark of another.
AddTx(t) ==
    /\ t \in Pooled \ pool /\ Mark(t) \notin marked
    /\ pool' = pool \cup {t} /\ marked' = marked \cup {Mark(t)}
    /\ UNCHANGED <<known, best, tips, adding, body, late, raced, votes, template, duplicate>>

\* Housekeeping or the console takes it out and unmarks it; if both have looked it up,
\* one of them does, and the other is still to unmark it.
DropTx(t) ==
    /\ t \in pool
    /\ pool' = pool \ {t} /\ marked' = marked \ {Mark(t)}
    /\ late' = late \/ (late = {} /\ late' = {Mark(t)})
    /\ UNCHANGED <<known, best, tips, adding, body, raced, votes, template, duplicate>>

\* It does so, whoever has the mark by now.
UnmarkLate ==
    /\ late # {}
    /\ marked' = marked \ late /\ late' = {}
    /\ raced' = raced \cup {Mark(t) : t \in {u \in pool : Mark(u) \in late}}
    /\ UNCHANGED <<known, best, tips, adding, body, pool, votes, template, duplicate>>

\* ExpandMiniBlockTip finds the tip of a miniblock among the tips and the last blocks.
Expandable(t) == t \in tips \/ (t \in Past[best] /\ Height[t] > Height[best] - Recent)

\* Slip: a miniblock that is there already is inserted again.
InsertMiniBlockAgain(t) ==
    /\ Height[t] < MaxHeight
    /\ votes' = [votes EXCEPT ![t] = @ + 1]
    /\ UNCHANGED <<known, best, tips, adding, body, pools, template, duplicate>>

\* There are Quorum miniblocks on a tip; those that are there are refused.
InsertMiniBlock(t) ==
    /\ votes[t] < Quorum /\ Height[t] < MaxHeight
    /\ votes' = [votes EXCEPT ![t] = @ + 1]
    /\ UNCHANGED <<known, best, tips, adding, body, pools, template, duplicate>>

\* A miniblock from another node for the block above t.
NotifyMiniBlock(t) ==
    /\ Height[best] > Young => Height[t] + 1 \in (Height[best] - 2)..(Height[best] + 1)
    /\ Expandable(t)
    /\ InsertMiniBlock(t)

(***************************************************************************)
(* Create_new_miner_block.                                                 *)
(***************************************************************************)

\* Slip: the template is made anew for a new height only, not as time passes.
ReadTopOnNewHeight ==
    /\ stage = "idle" /\ Height[best] < MaxHeight
    /\ job # NoJob => Height[job.tip] # Height[best]
    /\ stage' = "top" /\ seen' = best
    /\ UNCHANGED <<known, best, tips, adding, body, pools, votes, tip, job, duplicate>>

\* The balance_tree of the top is read.  The cached template is never too young for
\* this: it is used for 100 milliseconds, and only while the height is the same.
ReadTop ==
    /\ stage = "idle" /\ Height[best] < MaxHeight
    /\ stage' = "top" /\ seen' = best
    /\ UNCHANGED <<known, best, tips, adding, body, pools, votes, tip, job, duplicate>>

\* The voted tips at the height of the top, as far as they can be expanded.
Voted == {t \in Block : votes[t] > 0 /\ Height[t] = Height[best] /\ Expandable(t)}

\* The tip with most votes; without votes one of the tips, by hash.
PickTip ==
    /\ stage = "top" /\ Height[best] < MaxHeight
    /\ tip' \in IF Voted = {} THEN tips
                ELSE {t \in Voted : \A u \in Voted : votes[u] <= votes[t]}
    /\ stage' = "tip"
    /\ UNCHANGED <<known, best, tips, adding, body, pools, votes, seen, job, duplicate>>

\* Registrations of addresses without an account in the balance_tree read.
TakeRegistrations == {r \in pool \cap Registration : ~ Registered(Address[r], seen)}

\* Slip: the nonces are checked against the top that was read.
CandidatesAtTop ==
    {t \in pool \cap Transfer : /\ \A c \in Past[tip] : t \notin TxsOf(c)
                                /\ Referable(t, tip)
                                /\ CheckNonce(t, seen)}

\* Transfers that are not mined on the branch and pass the block's checks on the tip.
Candidates ==
    {t \in pool \cap Transfer : /\ \A c \in Past[tip] : t \notin TxsOf(c)
                                /\ Referable(t, tip)
                                /\ CheckNonce(t, tip)}

\* pre_check turns away what does not go with the ones before, in the order of fees.
Selections ==
    LET fits(t, s) == \A u \in s \ {t} : Compatible(t, u)
    IN  {s \in SUBSET Candidates : /\ \A t \in s : fits(t, s)
                                   /\ \A t \in Candidates \ s : ~ fits(t, s)}

\* The transactions and the votes are put in; miners get the result.
Assemble ==
    /\ stage = "tip"
    /\ \E s \in Selections :
          job' = [tip |-> tip, txs |-> TakeRegistrations \cup s, full |-> votes[tip] = Quorum]
    /\ stage' = "idle" /\ seen' = Genesis /\ tip' = Genesis
    /\ UNCHANGED <<known, best, tips, adding, body, pools, votes, duplicate>>

(***************************************************************************)
(* Accept_new_block.                                                       *)
(***************************************************************************)

\* A miner's miniblock for a job that is not full is a vote for the job's tip.
AcceptVote == job # NoJob /\ ~ job.full /\ InsertMiniBlock(job.tip)

\* A transaction is looked for in the pools, then among the stored ones.
Found(t) == t \in pool \/ \E b \in known : t \in TxsOf(b)

\* The final miniblock of a full job makes it a block, if its height has had none.
AcceptFinal(b) ==
    /\ job.full /\ Parent[b] = job.tip
    /\ Height[b] \notin duplicate
    /\ \A t \in job.txs : Found(t)
    /\ Acceptable(job.txs, job.tip)
    /\ Store(b)
    /\ body' = [body EXCEPT ![b] = job.txs]
    /\ duplicate' = duplicate \cup {Height[b]}
    /\ UNCHANGED <<tips, pools, votes, template>>

-----------------------------------------------------------------------------
MiningInit ==
    /\ known = {Genesis} /\ best = Genesis /\ tips = {Genesis} /\ adding = NoBlock
    /\ body = [b \in Own |-> {}]
    /\ pool = {} /\ marked = {} /\ late = {} /\ raced = {} /\ votes = [t \in Block |-> 0]
    /\ stage = "idle" /\ seen = Genesis /\ tip = Genesis /\ job = NoJob
    /\ duplicate = {}

ChainStep    == Rewind \/ \E b \in Network : NetworkBlock(b)
AddStep      == MoveTop \/ EnterTips
PoolStep     == UnmarkLate \/ \E t \in Tx : AddTx(t) \/ DropTx(t)
TemplateStep == ReadTop \/ PickTip \/ Assemble
Submit       == \E b \in Own : AcceptFinal(b)

MiningNext == \/ ChainStep \/ AddStep \/ PoolStep \/ TemplateStep
              \/ AcceptVote \/ Submit
              \/ \E t \in Block : NotifyMiniBlock(t)

\* Miners keep asking for jobs and keep finding miniblocks; goroutines go on; a final
\* miniblock is found in the end if full jobs are given out again and again.
MiningSpec ==
    /\ MiningInit /\ [][MiningNext]_mvars
    /\ WF_mvars(AddStep) /\ WF_mvars(TemplateStep) /\ WF_mvars(AcceptVote) /\ SF_mvars(Submit)

-----------------------------------------------------------------------------
(***************************************************************************)
(* Properties.                                                             *)
(***************************************************************************)

\* Types.
MiningTypeOK ==
    /\ known \subseteq Block /\ best \in Block /\ tips \subseteq Block /\ adding \in Block \cup {NoBlock}
    /\ body \in [Own -> SUBSET Tx]
    /\ pool \subseteq Tx /\ marked \cup late \cup raced \subseteq {Mark(t) : t \in Tx}
    /\ votes \in [Block -> 0..Quorum]
    /\ stage \in {"idle", "top", "tip"} /\ seen \in Block /\ tip \in Block
    /\ job \in [tip : Block, txs : SUBSET Tx, full : BOOLEAN] \cup {NoJob}
    /\ duplicate \subseteq 1..MaxHeight

\* A template is stitched together from reads of many moments, and outlives them all.
\* Still no job is in vain for its transactions: Add_Complete_Block accepts them on the
\* job's tip, whatever was added, rewound, dropped or voted for since the first read;
\* unless two of them share a nonce, which nobody asks when a template is made, and a
\* late deletion had taken the mark of that nonce from a pooled transfer.
TemplatesAreAcceptable ==
    job # NoJob =>
        /\ job.tip \in known /\ Valid(job.txs, job.tip)
        /\ \A t, u \in job.txs : t # u /\ Mark(t) = Mark(u) => Mark(t) \in raced

\* "address needs registration" (miner_block.go:215): a block of the node's own registers
\* an address only if its branch has not.
RegistersNewAccounts ==
    \A b \in known \cap Own : \A r \in body[b] \cap Registration : ~ Registered(Address[r], Parent[b])

\* But for Rewind_Chain, votes for a block above the top are never lost, whatever is
\* added to the chain, and of whatever branch the blocks are.
VotesSurvive ==
    [][~ Rewind => \A t \in Block : Height[t] >= Height[best'] => votes'[t] >= votes[t]]_mvars

\* Two transactions of one nonce or address wait.
Doubled == \E t, u \in pool : t # u /\ Mark(t) = Mark(u)

\* If the chain is not rewound forever, mining goes on until the node has had a block of
\* its own at the next height, whoever else mines and whatever the votes are split on;
\* unless again and again the pool holds two transactions that no block may hold.
MiningStallsOnlyAtOwnHeights ==
    <>[][~ Rewind]_mvars
        => []<>(Height[best] = MaxHeight \/ Height[best] + 1 \in duplicate \/ Doubled)
=============================================================================
