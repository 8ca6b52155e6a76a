# Verification of the DERO HE (catfish) node

TLA+ models of the node in this repository, their TLC configurations, and
proofs that TLAPS checks. Paths below are relative to `src/`.

## 1. The system

A node keeps a chain of blocks. Each block names one earlier block (its *tip*);
the proof of work is spread over ten *miniblocks* that vote for the same tip.
Account balances are homomorphic ciphertexts held in a versioned tree store
(graviton): executing a block loads the snapshot of its tip, applies the
block's transactions and commits the next version.

| Part | State | Operations | Where |
|---|---|---|---|
| Chain | block files (the snapshot version is part of the file's name), balance snapshots, `topo.map` (a record per height), the tips in memory | `Add_Complete_Block`, `Rewind_Chain`, `Initialise_Chain_From_DB`, `Blockchain_Start` | `blockchain/blockchain.go`, `store*.go` |
| Index search, pruning | `topo.map`, `pruned_till` | binary search by height, pruning of old snapshots | `storetopo.go`, `prune_history.go` |
| Verification | none | header, miniblock, transaction and proof checks | `block_verify.go`, `transaction_verify.go`, `miniblocks_consensus.go` |
| Execution | a balance tree in memory | coinbase, transfers, registrations, contracts | `transaction_execute.go`, `dvm/` |
| Pools | transactions and the nonces they use; registrations by address | add, delete, flush, housekeeping, relay lists | `blockchain/mempool`, `blockchain/regpool` |
| Mining | miniblocks by (height, tip), the cached template, accepted heights | new template, expand a share, accept a block | `miner_block.go`, `block/miniblockdag.go` |
| Synchronisation | none of its own; a request/response per peer | locator, common block, rewind, fetch objects | `p2p/chain_sync.go`, `p2p/rpc_chain_request.go` |
| Propagation | sets of chunks, the notifications sent per peer | notify, request and feed chunks, miniblocks, transactions | `p2p/rpc_notifications.go`, `p2p/chunk_server.go` |
| Connections | connection map, bans, peer lists | dial, accept, handshake, ban, expire | `p2p/controller.go`, `connection_pool.go`, `bans.go`, `peer_pool.go` |
| RPC, getwork | sessions of miners, share counters | broadcast jobs, accept shares, queries | `cmd/derod/rpc` |
| Wallet | balances and history per asset | sync, build transactions | `walletapi` |

How the parts meet:

* Everything that changes the chain goes through `Add_Complete_Block` and
  `Rewind_Chain`, which hold `chain.Lock`. The callers are sync, the chunk
  server, the getwork server (through `Accept_new_block`), the console and the
  start-up code.
* `Add_Complete_Block` purges miniblocks of stable heights, `Rewind_Chain` all of
  them. The pools are cleaned by a timer, not by the addition.
* Templates and miniblock checks read the tips, the pools and the miniblocks
  *without* `chain.Lock`.
* The sync code may rewind the chain (`--sync-node`), and asks again afterwards.

What is hard here: nothing a block addition writes is atomic (two versions of a
block file, a commit, one index record per block of a reorganisation); a side
block is executed when it arrives, long before it may be followed; the tips in
memory are recomputed from the previous tips; after a crash or from a copied
directory the node must find a top it can build on; code outside the lock reads
state that is changing. `PROJECT.json` lists these as hazards, each at its line.

What makes each part correct:

* Verification and execution: whatever old state a transfer was made against, its
  sender can pay when a block executes it; nothing is spent twice on a branch; a
  block makes exactly its reward; what passes the checks executes.
* Chain: the index is one chain, and it is the longest the node knows; what it
  follows was executed on the state of its tip; the tips are usable tops; a start
  ends, and ends on a usable top; the lock is given back.
* Index search: the binary search finds exactly the records of a height, also in a
  file that a rewind has cleaned from the end.
* Pools: a nonce is marked exactly while its transaction is pooled; what is outdated
  leaves.
* Mining: a template, put together from reads of different moments, is a block the node
  itself would accept; it registers addresses that have no account; votes for the next block are
  not lost; mining goes on.
* Synchronisation: the common block is found however sparse the locator is; a rewind ends
  on the peer's chain; a lower node reaches the peer's height.
* Propagation: a block whose chunks are lost, tried too early or expired is fetched by sync.
* Connections: a connection is in the map exactly while it is open.

## 2. The modules

| Part | Model | Instance | Proofs |
|---|---|---|---|
| Chain | `BlockTree` (the data), `Blockchain`, the abstract `LongestChain` | `MCBlockchain` | `BlockchainProofs`, `OneChainProofs` |
| Index search | `TopoSearch`, on `Blockchain` | `MCTopoSearch` | `TopoSearchProofs` |
| Accounts: checks and execution | `Ledger`, on `BlockTree` | `MCLedger` | `LedgerProofs` |
| Pools | `TxPool`, on `LongestChain` | `MCTxPool` | `TxPoolProofs` |
| Mining | `Mining`, on `LongestChain` | `MCMining` | `MiningProofs` |
| Synchronisation, chunks | `ChainSync`, on `LongestChain` | `MCChainSync` | `ChainSyncProofs` |

`Arithmetic` holds the lemmas on numbers and sums that the proofs share.

`LongestChain` is what the others see of the chain. `Blockchain` is shown to implement it
(without faults), so `TxPool` and `Mining` use its actions `Accept`, `Adopt` and `Retreat` as
their chain, and `ChainSync` its variables, with an addition in one step and a rewind in one.
`TxPool` and `Mining` meet in the pool: what `TxPool` lets in and out step by step is
`AddTx` and `DropTx` there, with the marks, and with the case in which a deletion takes a mark
that is no longer its own. `Mining` and `Ledger` meet in the block: what `Ledger` checks of one is
what a template must satisfy in `Mining`, and neither assumes more of a block than that it passed.

Not modelled are the parts section 10 lists, each with the reason.

## 3. The chain's model

`BlockTree` is the data every module shares: the blocks that exist anywhere, each
with its parent (`bl.Tips[0]`) and the height its header claims, which need not be
honest. `Blockchain` is one node.

| Model | Code |
|---|---|
| `file[b]` | the file of block `b` in `bltx_store/`; its name ends in the snapshot version: `NoFile`, 0 (stored, not executed) or a version |
| `commits` | the versions of the graviton store; version `v` is reduced to the block whose execution it holds and the version that started from |
| `topo[i]` | record `i` of `topo.map` (block, version); `Clean` is the all-zero record |
| `tips`, `reload` | `chain.Tips`; the deferred `Initialise_Chain_From_DB` of a rewind that has already unlocked |
| `mode` | off, the two stages of `Blockchain_Start` (add the genesis block; look for a readable top), up |
| `pc` and the locals | where the holder of `chain.Lock` is, with its local variables under their names in the code |

A step is one durable write. An addition is `BeginAdd` (all checks, and the first
`StoreBlock` deleting the old file), `StoreBlock`, `Execute` (load the tip's
snapshot, execute, commit), `DeleteUnversioned` and `StoreVersioned` (the second
`StoreBlock`), `FixTopo`/`FixDone` for each record when the chain grew, and
`UpdateTips`. A panic between (`ExecutePanics`, `FixPanics`, `WriteFails`) releases the
lock, as the recovered panic does. A rewind is `Rewind`, `CleanRecord` for each
record and `RewindUnlocks`, after which others may take the lock before
`Initialise_Chain_From_DB` does. `Start`, `AddGenesis`, `GenesisAdded`, `BootRewind`
and `Booted` are `Blockchain_Start`.

The faults are chosen by `Faults`: `Crash` at any step, a block file that cannot be
written, and `RestoreCopy`: the node starts from a copy made while it was running,
`balances/` first, `topo.map` last (the situation the comment at
`blockchain/blockchain.go:214` describes).

Abstracted: the checks of a block that are not about its place in the tree
(timestamps, miniblocks, size, transactions) may reject any block, which is the
choice not to take `BeginAdd`; a snapshot is the block it executed; a pruned node
(`pruned_till`) and the simulator are left out. A topo record repeats the block's
height, which is the record's position here as it is in the code.

`TopoSearch` adds how the code finds a block in the index. `Blockchain` looks at the records
directly; the code searches them by height (`binarySearchHeight`), reading records that a rewind
has cleaned as height 0. `SearchFindsTheChain` compares the two in every state the node reaches, so
the direct look is no simplification. The width of the search window and the number of records
scanned are parameters.

`LongestChain` says what this amounts to for an observer: a growing set of executed
blocks, and a top that changes only to a strictly higher executed block or, in a
rewind, to its own parent.

## 4. The accounts' model

`Ledger` is the part of `Add_Complete_Block` that `Blockchain` leaves open: which
transactions a block may carry, and what executing them on its tip's snapshot leaves.

| Model | Code |
|---|---|
| `state[b][asset][account]` | the leaf of an account (a `NonceBalance`) in the balance tree of an asset, in the snapshot of block `b`; `NotFound` is graviton's `ErrNotFound` |
| `past[b]` | the blocks `get_ordered_past` finds below `b` |
| `body[b]`, `miners[b]` | the transactions of `b`; its `Miner_TX` and miniblocks |
| `trees` | `balance_tree` and `sc_change_cache` of the block being executed |
| `txs`, `done`, `fees` | the block's transactions, how many were executed, `fees_collected` |

`Begin` is the checks: `Referable` (the history check), `CheckNonce`,
`Verify_Transaction_NonCoinbase` (the proof, against the snapshot of `BLID`),
`Compatible` (the duplicate checks and `cbl_verify`), `VotersKnown` (the miniblocks'
miners are looked up in an old state of the chain the node follows, which may be any
block's) and `Verify_MiniBlocks` (how many miniblocks there are, and how many of them final).
`ExecuteTx` is `process_transaction` for the next one, with the reload of the
token trees before it, `Commit` is `process_miner_transaction` and the commit, `Panic` the
case that a miner has no account.

A ring member's ciphertext is a number and a proof is the fact it proves: that the
sender's balance in the referred state covers amount, fee and burn. Of a ring only what
execution and the checks read is kept: the ring, the half the sender is in (the parity
bit tells it to everybody) and the receiver, who is in the other half. Sizes of
rings, which the code wants to be powers of two, do not matter to any property. A
transfer has one payload per asset, although the code allows several.

`Begin` takes any block that passes these checks, whoever made it. In particular nothing refuses a
registration of an address that has an account on the branch: the checks look for an
address twice in the block only (`blockchain/blockchain.go:669`), and `process_transaction`
writes the new account over the old one (`blockchain/transaction_execute.go:198`). That replaces
the balance and sets the nonce back, after which proofs made before pass again. The properties say
what remains true then:

* `NoOverdraft`: in the tree of the coin no balance is negative, until a block of the branch has
  registered the account again (`RegisteredAgain`); in the trees of tokens none ever is.
* `SpendsSeeEarlierSpends`: a transfer was made against a state that has its sender's earlier
  transfers of the branch, unless a registration of the sender is in between (`RegisteredSince`).
* `SupplyIsConserved`: what a registration replaces is destroyed, and counted (`Burns`), to the
  unit.

Before the soft fork several miniblocks of a block may be final. The reward is divided by the
number of all, and all final ones are skipped, so the shares of the surplus ones go to nobody.
`SupplyIsConserved` counts them (`Unpaid`) and says that from `SoftFork` on there are none.

Contracts (`process_transaction_sc`), the premine and the genesis block's own
transactions are left out: `RootState` is any state after them.

## 5. The pools' model

| Model | Code |
|---|---|
| `txs`, `marked` | `mempool.txs` and `regpool.txs`; `mempool.nonces` and `regpool.address_map` |
| `checked` | calls of `Add_TX_To_Pool` that have made their checks and not yet taken a pool's lock |
| `adding`, `unstored` | the addition under a pool's lock, and the nonces (or the address) it has yet to store |
| `pass`, `doomed` | per goroutine, the pool it is deleting from and the list it made |
| `victim`, `undeleted` | per goroutine, the transaction its `Delete_TX` has loaded and the keys it has yet to delete |
| `raced` | transactions two deletions had loaded at one time; only properties read it |

Additions take the pool's lock; deletions do not, in the code it is commented out. So an
addition is `Add_TX_To_Pool` (the checks, against the chain of that moment), `BeginAdd`, one
`StoreKey` for each nonce and `StoreTx`, and a deletion `DeleteLoad`, `DeleteTx` and a `DeleteKey` for
each, in any interleaving. Deletions come from the cron job, which does the mempool and then the
regpool (`HouseKeeping`, `HouseKeepingRegpool`, `HouseKept`), and from the console (`Flush`,
`ConsoleDelete`). The chain accepts, adopts and retreats at any moment; `latest` is the block
whose state was committed last, which a registration is checked against, on whatever branch it is.

The verifier the regpool is given returns whether an address has *no* account, and a
registration is deleted when it returns false (`Verifier`). A height is a `uint64` in the mempool:
on a chain shorter than `STABLE_LIMIT` the stable height is negative and dooms every transfer
(`Outdated`).

## 6. The model of mining

| Model | Code |
|---|---|
| `known`, `best`, `tips`, `adding` | the chain: `Add_Complete_Block` writes the records (`MoveTop`) before the tips (`EnterTips`) |
| `votes[t]` | the miniblocks under the key of tip `t` and the height above it, in `chain.MiniBlocks` |
| `stage`, `seen`, `tip` | how far `Create_new_miner_block` is, whose `balance_tree` it read, the tip it picked |
| `job` | the cached template miners work on |
| `duplicate` | `duplicate_height_check`: heights at which a block was accepted from a miner |
| `body[b]` | the transactions of the node's own block `b` |
| `pool`, `marked` | what the mempool and the regpool hold; `mempool.nonces` and `regpool.address_map` |
| `late` | the mark that a second deletion of one transaction has still to take |
| `raced` | the marks taken in this way from a transaction that waits; only properties read it |

A template is three groups of reads without the chain's lock: the top and its accounts
(`ReadTop`), votes and tips (`PickTip`), the pools and the votes again (`Assemble`). Between them
blocks are added and rewound, transactions come and go, other nodes' miniblocks arrive
(`NotifyMiniBlock`). Miners answer with a vote (`AcceptVote`) or, when the template has all its
miniblocks, with the final one (`AcceptFinal`). The ten miniblocks of a block are `Quorum`
votes and the final one; which miner found them is left out, as is the proof of work. Of
transfers only the ring members' nonces are kept, which is what the checks of a block on its tip
and among its transactions read; balances are `Ledger`'s.

Two transfers of one sender against one block have the same nonce. Every block with both is refused
(`blockchain/blockchain.go:704`), but nobody asks for nonces when a template is made: `cbl_verify`
compares the heights that two transfers of a key refer to (`Compatible`), and those are equal here.
What keeps the pair apart is that the pool refuses a transfer whose nonce is marked (`AddTx`), so
the marks are part of the model, and so is the way they are lost that `TxPool` shows: two
deletions have loaded one transaction, the first deletes it and its mark, the transaction comes
again, and the second takes the new mark (`DropTx` with `late`, `UnmarkLate`). Then a
second transfer of the nonce is let in, both get into a template, and the finished block is
refused. `TemplatesAreAcceptable` and `MiningStallsOnlyAtOwnHeights` except exactly this:
a job's transactions share a mark only if it is `raced`, and mining stalls only
while the pool holds such a pair (`Doubled`).

A registration is looked up in the accounts that were read first. If the tip picked later is
another block, the address may have an account there: the run `mining_accounts` shows it. Blocks of
other nodes register what they like.

## 7. The model of synchronisation

| Model | Code |
|---|---|
| `stage` and the locals | where `sync_chain` is, with its variables under their names |
| `locator`, `i`, `len`, `start_point` | the request's `Block_list` while it is being made |
| `common`, `theirs`, `next` | the response: the block of `Start_height`, the peer's top when it answered, the block asked for next |
| `peer`, `claimed` | the peer's chain, and the height it told last |
| `SyncNode` | the peer was named with `--sync-node` |
| `chunks[b]` | the chunk set of a relayed block: none, open or processed |
| `moved` | the top has moved since the locator was begun; only properties read it |

`trigger_sync` begins a round; `Locate` reads one record for the locator, at growing distances
(`Advance`); `Chain` is the peer's handler; then `GiveUp`, or `CountBlocks`, `PopBlocks` and
`AskAgain`, or `BeginFetch` and one `GetObject` for each block listed, until `SyncDone`. None of it
holds the chain's lock: blocks arrive (`OtherBlock`, `LastChunk`), the console pops blocks
(`PopBlock`), the peer's chain grows or switches (`PeerAdopts`) and calls fail (`CallFails`)
between any two steps. A set of chunks counts as processed before its block is tried, so a block
that came before its tip is lost until the set expires or sync fetches it.

Left out: the peer's bootstrap data and pruned peers; the second way to rewind, behind
`pop_count >= 1`, which no path of the code reaches; the Reed-Solomon code of the chunks.

## 8. What the runs check

For the chain, the instance is a genesis block with branches a1-a2-a3 and b1-b2-b3 and a block x2
on b1 that claims a height it does not have (`MCBlockchain` draws it). Two branches
of three blocks give a tie at every height, reorganisations of every depth up to
the whole chain in both directions, side blocks that are executed before and after
their branch is followed, and rewinds that stop at height 1. `STABLE_LIMIT` is 2
instead of 8, so that the height window excludes blocks of this small tree, and
`Word` is 64 instead of 2^64: larger than any height, so a negative stable height
still wraps to a large number.

The run `chain` has another tree (`MCTopoSearch` draws it): a branch of two blocks and one of six,
so that the index has up to seven records. The search ends only at a record of the very height
(`WINDOW` 0) and scans three records in either direction (`SCAN` 3; in the code 16 and 100), so
that it has to search. The six blocks are there for one case. After a rewind, a block two heights
above the top can be one whose tip is stored, and then the loop writes the new top's record before
the one below it. While that one is missing, a search that reads it goes the wrong way: with
`SCAN` 1 TLC finds `SearchFindsTheChain` violated on this tree, and not on one of five records.
Section 9 proves that a scan of three records is enough.

| Run | Faults | Checks |
|---|---|---|
| `chain` | none, one rewind | the index is one chain (`TopoIsOneChain`), the tips are its usable top (`TipsAreTheTop`), the search finds exactly what the index has (`SearchFindsTheChain`), the node refines `LongestChain` (`FollowsLongestChain`) |
| `chain_faults` | two crashes or failed writes | types, `RecordsNameTheirState`, `SnapshotsFollowTips`, `TopSurvivesCrash`; the lock is released (`LockReleased`); the node, on the lower branch, reaches the height of the branch peers offer (`ReachesOfferedHeight`) |
| `chain_copy` | a start from a copy, no rewinds | `TopCanBeExtended`; the start ends (`StartEnds`) |
| `chain_torn` | one crash | **violated**: a crash inside the fix loop leaves an index of two branches |
| `chain_genesis` | one crash | **violated**: a node that crashed while adding its genesis block never comes up |
| `chain_foreign` | a start from a copy | **violated**: a block is executed on another block's snapshot |
| `ledger` | an account registered again, a miner without one, surplus final miniblocks | types, `NoOverdraft`, `SpendsSeeEarlierSpends`, `SupplyIsConserved`, `RingIsThere` |
| `ledger_token` | none | **violated**: of two transfers of a token in one block, the first one's effect on the token is lost |
| `pool` | deletions that race, rewinds | types, `PooledKeysAreMarked`, `NoMarkIsLeftBehind`, `OutdatedTransfersLeave`, `RegisteredLeave` |
| `mining` | rewinds, dropped transactions, lost marks | types, `TemplatesAreAcceptable`, `VotesSurvive`, `MiningStallsOnlyAtOwnHeights` |
| `mining_accounts` | the chain moves between two reads of a template | **violated**: a block of the node's own registers an address that its branch has registered |
| `sync` | failing calls, popped blocks, lost and early chunks | types, `OnlyDeepForksAreTooFar`, `RewindsToTheirChain`, `CatchesUp` |

Bounds: `MaxRewinds`, `MaxCrashes` bound the faults; `MaxCommits` bounds how often a
block that does not raise the chain may be executed again (a side block whose record
is missing is accepted, executed and committed anew each time it is offered, in the
code as here), and never stops an addition that raises the chain. Deadlock is not
checked: a node that has filed every block of the tree stops.

`chain_copy` has no rewinds while the node is up: with them `TopCanBeExtended` fails, which
section 9 explains.

The instance of `ledger` is a branch b1-b2-b3 and a block f1 beside b1, three people of
whom one, carol, has no account at first, and eight transactions: payments back and forth, most
taking more than half of a balance, made against different blocks of both branches, with
rings whose half has one member or two; token transfers to an account the token's tree does not
have, and back; a registration of carol, and one of bob, who has an account. A block has at
most two of them (`MaxTxs`), in every order, and one of two coinbases; `MiniBlocks` is 2 and
`SoftFork` is 2, so that the blocks of height 1 may have a surplus final miniblock and the
others may not. That is enough for a transfer to be made before, between and after the
others of its sender, in one block or on the branch or beside it, for bob to be registered again
before and after his transfers, in one block with them or in another, and for every check to
refuse something. `TX_VALIDITY_HEIGHT` is 3, so that b3 may refer to b1 and not to the genesis
block. About 1,015,000 states. Deadlock is not checked: when every block is executed, it is over.

The instance of `pool` is a chain g-b1-b2-b3, a transfer with two nonces, made against g and
mined in b2, and two registrations of one address, one of them mined in b1. Two nonces are
enough for a deletion or an addition to be interrupted between them; two registrations compete
for an address. `STABLE_LIMIT` is 1, so that the transfer becomes outdated while the chain still
moves, and `MaxCalls` allows one call at a time between its checks and the lock, any number of
steps of everything else coming between. About 485,000 states.

The instance of `mining` has on g a block n1 of another node, which registers carol and spends
for alice, and an own block o1; above them the own blocks no and oo. So a template can be made on
either tip of a tie, on a top that loses, and from a tip whose block is stored and not yet
entered, and mining has to go on from each. Alice has three transfers against g, with one nonce, of which one
reaches only the other node: so any two of them exclude each other in a block, and the other two
can wait together once a mark is lost. In `mining_accounts` the registration of carol waits, too. `Quorum` is 2 instead of
nine votes, `STABLE_LIMIT` and `Recent` are 1 and `Young` is 0, so that the height checks on votes
count. The bounds are the tree (no votes above `MaxHeight`), one cached template, and that a vote
that is already there (`Quorum` of them) is refused. About 759,000 states.

The instance of `sync` is a block c1 with branches a2-a3 and p2-p3-p4 on it; node and peer start on
any block of the tree. `STABLE_LIMIT` is 1, so both near and deep forks occur; `RUN` and `STRIDE`
are 2, so that the locator leaves blocks out; the peer answers with two hashes at a time
(`MAX_BLOCKS` 1), so that a round ends before the top is reached. One block is also relayed in
chunks. About 315,000 states.

Fairness: a process that is running takes its next step (`WF` of `Work`: the steps of
a call under the lock, of the start, of the deferred reload; a stopped node is
started again). `SF` of `AddBlock(b)` for the blocks peers offer: sync asks every peer
for the next blocks periodically and again after a failure, and Go's `RWMutex` does
not starve a writer. Crashes and rewinds have no fairness. `StartEnds` assumes that
the records a rewind never cleans (heights 0 and 1) are readable: where they are not,
`Blockchain_Start` tries the same block for ever.

In `TxPool` the cron job goes on and its deletions take their steps; additions, the console and
the chain have no fairness. In `Mining` an addition that has begun ends, templates are made again
(miners ask for jobs all the time, and a cached one lives for 100 milliseconds), miners find
miniblocks for the job there is, and a final one in the end if full jobs are given out again and
again (`SF` of `Submit`); nothing is assumed of other nodes, the pools or the console. In
`ChainSync` the job that starts rounds runs every second, a round takes its next step, and the
peer goes on telling its height. `CatchesUp` is about a node whose disturbances end: blocks that
arrive through a relay are among them (section 10).

The violated runs are disagreements between the code and its comments; each
quotes the comment in `PROJECT.json`. In short: a crash during a reorganisation is
not repaired at start; the
genesis block is not added again when its state was committed and its record was not
written; after an interrupted copy, versions are reused while old block files still
name them; the token trees of a block are read anew before each transaction; a template that reads
the accounts of one block and is put on another registers an address again.

## 9. What is proved

`BlockchainProofs`, for every block tree, every `STABLE_LIMIT` and every bound:

* `TypeCorrect`: `Spec => []TypeOK`, under all faults. `TypeOK` is inductive. The
  step that is not immediate is the rewind: the count of records to clean is the
  first index at which the loop stops, which exists because the loop stops at the
  latest after the number it was asked for (`RewindableCounts`, which needs the
  least element of a set of naturals, from `Arithmetic`).
* `VersionsNameStates` and `BlocksAreExecutedOnTheirTips`: unless the node was started from a
  copy, `RecordsNameTheirState`, `FilesNameTheirState` and `SnapshotsFollowTips` hold in every
  state, with crashes and failed writes anywhere. The inductive invariant `StatesInv` adds what
  the holder of the lock has in hand: from the commit to the last record, `version` names a
  snapshot of `fix` (or of `cur` while the file is rewritten). Without it a record could be
  written under a version nobody has checked. The assumption that no copy was restored is
  needed: `chain_foreign` shows the violation.
* What stays true of the index under all faults is `IndexInv`: a record is at the height of
  its block (`AtHeight`), the record of the genesis block is the first to be written and never
  cleaned (`Grounded`, `GenesisFirst`), and the first record that the loop writes makes its
  block the top, the others are below it (`Raised`).
* `StartsFindTheTop` (`TopSurvivesCrash`): unless the node was started from a copy, every start
  finds the top readable. A record is written after its block's file, and the only file that
  is ever removed is that of the block being added, which has no record (`Filed`).
* `TopStaysExtendable` (`TopCanBeExtended`): without copies this follows from `Filed`. With
  copies records without files exist, and what holds is only that a node comes up on a
  readable top and keeps its file (`TopKept`); a rewind may then uncover a record whose file is
  missing. So the theorem is for nodes that are either not started from a copy or not rewound
  while they are up; with `Faults = {"copy"}` and two rewinds TLC finds the violation.

`OneChainProofs`, without faults:

* `TopoStaysOneChain` (`TopoIsOneChain`). The inductive invariant `OneChainInv` says what a half-written reorganisation looks like:
  every used record is linked to the one below, except that the record above the one
  the loop writes next was written for a child of `fix` (`Links`); stored blocks have
  stored tips, so neither `Execute` nor the loop can panic halfway (`Stored`,
  `Adding`); a rewind cleans from the top (`Cleaned`). That linked records have no gap is
  an argument by the greatest gap, not an induction (`LinkedRecordsAreOneChain`).
  `chain_torn` shows that the assumption is needed. `Get_Height` is -1 where the file of the top is
  missing, so the steps that read it need that the file is there (`StoredTopIsThere`, from `Stored`;
  under faults `TopThere`, from `Filed` or `TopKept`).
* `TipsStayAtTheTop` (`TipsAreTheTop`). Between the deferred reload of a rewind and the steps
  that others take before it, the tips may be wrong; `TipsOfTheChain` says when they are right:
  up to the first write to `topo.map`, and after an addition that does not raise the chain.
  That an addition raises the chain is decided before the file is changed; `Raised` connects
  the two. With faults it does not hold: a panic in the loop leaves a new top with old tips.
* `ImplementsLongestChain`: `Spec` implements `LongestChain`. Executing a block maps to `Accept` (or a stutter, when it is executed
  again), the first record the loop writes to `Adopt`, a cleaned record to `Retreat`,
  everything else to a stutter; the mapping needs that the first record written is the
  new top (`Rising`), that the genesis record is there as soon as anything is executed
  (`Rooted`) and that a rewind keeps the record of height 1 (`Falling`).
* `KnownStaysATree`: what `LongestChain` follows is executed all the way down.

`TopoSearchProofs`, without faults, for every window and every scan that is longer than the
window and than two records:

* `SearchFindsWhatIsRecorded` (`SearchFindsTheChain`). The inductive invariant is `Dense`: no record
  is missing below one that is used, but for the one that the loop writes next if that is
  right below the new top. It needs `Ahead`, the height check of an addition kept until the first
  write: the block is at most two above the top. The search itself is a recursive function on
  intervals. That it has a value (`SearchExists`) and where it ends (`SearchEndsNear`) are
  arguments by the smallest interval without that property: the part that is searched next still
  contains the record, or the record that was read is the missing one. In the second case the search
  ends at that position, which is two from the record at most, or at the next one if that is in
  the window (`SearchBesideTheGap`). After a crash in the loop the gap stays, and other records
  may be added above it: then nothing is claimed.

`LedgerProofs`, for every tree of blocks, all accounts, assets and transactions and
every validity height:

* `LedgerTypeCorrect`: `Spec => []TypeOK`.
* `NothingIsMintedOrLost` (`SupplyIsConserved`), for every finite set of accounts and every list of
  miners. While a block is executed, the balances and the fees collected add up to the supply at the
  tip less what was destroyed so far (`Balanced`). A registration destroys what it
  replaces, which the property reads off the transactions before it; so `Tracked` says that an
  account the block has not registered holds just what these transfers left it. The supply is a
  sum over the accounts, `SumFunction` of the community modules; `Arithmetic` proves that
  this recursion has a value, that the order makes no difference, and what one changed
  account does to the sum, each by a smallest counterexample.
* `NoAccountOwes` (`NoOverdraft`), `NothingIsSpentTwice` (`SpendsSeeEarlierSpends`) and
  `RingsAreThere` (`RingIsThere`), from one inductive invariant, `LedgerInv`. The difficulty
  is that a proof is about a state of the past. `Follows(e, f)` says what a later entry `f` can have
  done to an earlier `e`: the nonce did not fall, and if it stayed, neither did the balance.
  For accounts that no block of the branch has registered again (`Original`; all of them in
  the trees of tokens) this holds from a block to every block above it (`Carried`) and from the tip
  to the trees being executed (`Sound`), which also says that who has not spent in this block
  has at least what it had at the tip (`Unspent`). `CheckNonce` then pins the sender's nonce, so
  what the proof found is there at the tip; `SendersDiffer` (two transfers of a block with one sender
  would refer to two blocks of a branch at one height) makes it last until the transfer's
  turn. An account that the block itself registers leaves the claim when that transaction
  is executed (`Renewed`, `Again`). `Marked` says what a spend left: the nonce is the spending
  block's height at least, unless the sender was registered since; that a registration since then stays
  one in every block above is `SinceStays`. `Paths` says what a branch is. Assumed is only
  `LedgerAssumption`: the accounts after the genesis block are in order.

`TxPoolProofs`, for every chain, all transfers, registrations and bounds:

* `PoolTypeCorrect`: `PoolSpec => []PoolTypeOK`.
* `MarksFollowTransactions` (`PooledKeysAreMarked`). The inductive invariant says of the
  transaction being added that every key it has stored is marked and no other transaction has it,
  and of a deletion past `DeleteTx` that no pooled transaction has the keys it will delete, unless
  two deletions had loaded the same one. That exception is the code's: the second of two
  deletions may unmark a nonce that was marked anew in between.
* `MarksAreAnsweredFor` (`NoMarkIsLeftBehind`), which holds even then.

`MiningProofs`, for every tree, all pools, votes and transactions:

* `MiningTypeCorrect`: `MiningSpec => []MiningTypeOK`.
* `TemplatesStayAcceptable` (`TemplatesAreAcceptable`). The inductive invariant `MiningInv` says that
  what a template or a job asks about the blocks under its tip never changes: these blocks are
  stored, and the body of an own block is written only in the step that stores it (`EnteredOwn`).
  So the checks on each transaction, and those on pairs that `pre_check` makes, stay passed
  (`ValidKept`). That no nonce and no address is in a template twice comes from the pool:
  what waits is marked or its mark was raced away, and two that wait share a mark only if it was
  (`MarksKept`). Without that exception it is false, which is the hazard at
  `blockchain/miner_block.go:276`.
* `VotesAreKept` (`VotesSurvive`).

`ChainSyncProofs`, for every tree, every run length greater than `STABLE_LIMIT`, every stride:

* `SyncTypeCorrect`: `SyncSpec => []SyncTypeOK`.
* `FarIsReallyFar` (`OnlyDeepForksAreTooFar`): while the top has not moved, the locator holds every
  block of the last `RUN` below it that it has passed (`SyncInvariant`); so the highest shared block is
  among the entries if it is within `STABLE_LIMIT`. With a shorter run it would be false;
  the code has 20 and 8.
* `RewindsEndOnTheirChain` (`RewindsToTheirChain`): the count is the distance to a block of both chains
  for as long as the top has not moved.

The inductive invariants were checked by TLC on the instances above before they were
proved. Every invariant and action property that a passing run checks is a theorem, under the
assumptions on `Faults` named above. The liveness properties are model-checked only
(`StartEnds`, `LockReleased`, `ReachesOfferedHeight`, `OutdatedTransfersLeave`, `RegisteredLeave`,
`MiningStallsOnlyAtOwnHeights`, `CatchesUp`): liveness under fairness and `ENABLED` are out of the
prover's reach.

## 10. What is not modelled

`PROJECT.json` lists every part with its status and the reason. In short:

* No state TLC could explore: the cryptography (bn256, range and sigma proofs, AstroBWT), the
  difficulty (floating point over timestamps), serialisation, NTP offsets.
* State that does not reach the modelled parts: connections, bans and peer lists are maps with
  expiry times, and what a lost connection does to a call is in `ChainSync`; hole punching is
  below the messages; RPC sessions and counters. The RPC calls that change the node are actions
  of `Mining` and `TxPool`.
* Graviton: pruning rewrites the balance store before the node starts, the bootstrap from a
  peer's state fills it. Both need a model of its trees and hashes.
* Contracts: the DVM is a sequential interpreter with its own parser; the balances it moves are the
  part of execution that `Ledger` leaves out.
* Clients: wallet, miner, explorer, simulator, desktop and web wallet.

What was noticed on the way and no run shows, because nothing in the repository promises
otherwise, or because it is in an assumption above:

* Housekeeping of the mempool deletes transfers at the stable height, eight blocks under the top,
  as ones that "can no longer be mined" (`blockchain/mempool/mempool.go:100`); a block takes them
  while they are less than `TX_VALIDITY_HEIGHT`, eleven, blocks old. On a chain shorter than `STABLE_LIMIT` it deletes all.
* An address that is registered again loses its balance, and its old proofs pass again (section 4).
  No text says that a block may not have such a registration.
* Two transfers with one nonce get into a template once a raced deletion has unmarked the nonce
  (section 6). As long as both wait, the node's own blocks are refused when they are finished.
* Before the soft fork a block with several final miniblocks pays less than its reward.
* A registration has no height, but the filter on the age of relayed transactions
  (`p2p/chain_sync.go:393`) reads one: above height 11 it ignores all
  registrations that arrive this way.
* Heights in `duplicate_height_check` are never forgotten: a node whose own block lost, or was
  rewound, accepts no miner's block for that height again. `MiningStallsOnlyAtOwnHeights` has it as its
  exception.
* `sync_chain` judges the peer's answer by the top of that moment, not by the one the locator was
  made of. If more than `STABLE_LIMIT` blocks arrive in between, the common block looks too far
  away: an ordinary peer is given up for this round, a `--sync-node` peer rewinds the node. If the top is popped
  while the locator is made, only the genesis block is left in it. `moved` excludes both.
* A chunk set is marked processed before its block is tried. Chunks that arrive again are
  ignored for three minutes. Sync fetches the block; `CatchesUp` holds without chunks, so it says
  nothing of them.
* A pruned node refuses to rewind below its history, and `sync_chain`, which does not look at the
  result, asks and rewinds again without end. There are no pruned nodes in the model.
* A transaction of a block that a reorganisation removed is not put back into the pool and is refused
  when it is sent again; the code notes it as open (`blockchain/blockchain.go:1099`).
