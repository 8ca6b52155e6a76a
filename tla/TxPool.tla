------------------------------- MODULE TxPool -------------------------------
(***************************************************************************)
(* The transactions that wait for a block: the transfers of the mempool,   *)
(* with the nonces they would use up, and the registrations of the         *)
(* regpool, with the addresses they would register.                        *)
(*                                                                         *)
(* Each pool is two concurrent maps and a lock.  Only additions take the   *)
(* lock: Mempool_Delete_TX and Regpool_Delete_TX run without it, from the  *)
(* cron job and from the console, and have it commented out.  A transfer   *)
(* is checked before the lock is taken, against a chain that moves on.     *)
(*                                                                         *)
(* The chain is what Blockchain has been shown to implement: LongestChain, *)
(* from the moment the node is up.  The nonces of a transaction are added  *)
(* and removed in the order of its payloads in the code, in any order      *)
(* here.  What waits is lost when the node stops.                          *)
(***************************************************************************)
EXTENDS LongestChain, Integers, FiniteSets

CONSTANTS
    Transfer, Registration,   \* hashes of the transactions wallets make
    NoTx,                     \* none of them
    Keys,                     \* Keys[t]: the nonces of a transfer's payloads, or the address a registration registers
    Ref,                      \* Ref[t]: the block (BLID) a transfer was made against
    Sender,                   \* Sender[t]: the account that spends in it
    Body,                     \* Body[b]: the transactions of a block
    Past,                     \* Past[b]: a block and all the blocks under it
    STABLE_LIMIT,             \* how far under the top the chain is called stable
    TX_VALIDITY_HEIGHT,       \* a block takes transfers that are less than this many heights old
    MaxCalls                  \* bound: the calls of Add_TX_To_Pool between their checks and the pool

Tx        == Transfer \cup Registration
Key       == UNION {Keys[t] : t \in Tx}
Goroutine == {"cron", "console"}
Pool      == {"mempool", "regpool"}

ASSUME TxPoolAssumption ==
    /\ Transfer \cap Registration = {} /\ NoTx \notin Tx
    /\ Keys \in [Tx -> (SUBSET Key) \ {{}}]
    /\ \A t \in Transfer, r \in Registration : Keys[t] \cap Keys[r] = {}
    /\ Ref \in [Transfer -> Block]
    /\ DOMAIN Sender = Transfer
    /\ Body \in [Block -> SUBSET Tx]
    /\ Past \in [Block -> SUBSET Block]
    /\ Past[Genesis] = {Genesis}
    /\ \A b \in Block \ {Genesis} : Past[b] = Past[Parent[b]] \cup {b}
    /\ MaxCalls \in Nat
    /\ STABLE_LIMIT \in Nat /\ TX_VALIDITY_HEIGHT \in Nat

VARIABLES
    latest,      \* the block whose state was committed last
    txs,         \* mempool.txs and regpool.txs
    marked,      \* mempool.nonces and regpool.address_map
    checked,     \* the calls of Add_TX_To_Pool that have made their checks
    adding,      \* per pool, the transaction being added under its lock, or NoTx
    unstored,    \* per pool, the keys that addition still has to store
    pass,        \* per goroutine, the pool it deletes from, or "idle"
    doomed,      \* per goroutine, the hashes it has yet to delete
    victim,      \* per goroutine, the transaction its Delete_TX has loaded, or NoTx
    undeleted,   \* per goroutine, the keys its Delete_TX still has to delete
    raced        \* the transactions two deletions had loaded at one time; read by properties only

pools == <<txs, marked, checked, adding, unstored>>
jobs  == <<pass, doomed, victim, undeleted, raced>>
chain == <<known, best, latest>>
tpvars == <<chain, pools, jobs>>

-----------------------------------------------------------------------------
(***************************************************************************)
(* What is asked of the chain.                                             *)
(***************************************************************************)

PoolOf(t) == IF t \in Registration THEN "regpool" ELSE "mempool"

Get_Stable_Height == Height[best] - STABLE_LIMIT

\* ReadTX: the transactions of every block that was ever stored can be read.
Mined(t) == \E b \in known : t \in Body[b]

Registered(a, b) == \E c \in Past[b] : \E r \in Body[c] \cap Registration : a \in Keys[r]

\* Verify_Transaction_NonCoinbase_CheckNonce_Tips: the sender has spent since the
\* referred block.
Spent(t, b) == \E c \in Past[b] \ Past[Ref[t]] : \E u \in Body[c] \cap Transfer : Sender[u] = Sender[t]

\* The topo record at the transfer's height is its BLID.
OnChain(b) == b \in Past[best]

(***************************************************************************)
(* Additions.                                                              *)
(***************************************************************************)

\* Add_TX_To_Pool up to the pool: of a transfer, that it is new and that its block and
\* nonces are good for the chain of this moment; of a registration, that the address
\* has no account in the state committed last, on whatever branch.
Add_TX_To_Pool(t) ==
    /\ t \notin checked /\ Cardinality(checked) < MaxCalls
    /\ IF t \in Registration
         THEN \A a \in Keys[t] : ~ Registered(a, latest)
         ELSE /\ t \notin txs /\ ~ Mined(t)
              /\ OnChain(Ref[t]) /\ ~ Spent(t, best)
    /\ checked' = checked \cup {t}
    /\ UNCHANGED <<chain, txs, marked, adding, unstored, jobs>>

\* Mempool_Add_TX and Regpool_Add_TX take the lock, and turn away what is there or
\* shares a key with what is.  Deletions only take keys away meanwhile, so the keys
\* found free one by one are free together.
BeginAdd(t) ==
    /\ t \in checked /\ adding[PoolOf(t)] = NoTx
    /\ checked' = checked \ {t}
    /\ IF Keys[t] \cap marked = {} /\ t \notin txs
         THEN /\ adding' = [adding EXCEPT ![PoolOf(t)] = t]
              /\ unstored' = [unstored EXCEPT ![PoolOf(t)] = Keys[t]]
         ELSE UNCHANGED <<adding, unstored>>
    /\ UNCHANGED <<chain, txs, marked, jobs>>

StoreKey(p) ==
    \E k \in unstored[p] :
        /\ marked' = marked \cup {k}
        /\ unstored' = [unstored EXCEPT ![p] = @ \ {k}]
        /\ UNCHANGED <<chain, txs, checked, adding, jobs>>

\* Slip: it is stored whether or not it passed.
StoreTxAlways(p) ==
    /\ unstored[p] = {}
    /\ txs' = txs \cup {adding[p]}
    /\ adding' = [adding EXCEPT ![p] = NoTx]
    /\ UNCHANGED <<chain, marked, checked, unstored, jobs>>

\* The transaction itself is stored last; the lock is released.
StoreTx(p) ==
    /\ adding[p] # NoTx /\ unstored[p] = {}
    /\ txs' = txs \cup {adding[p]}
    /\ adding' = [adding EXCEPT ![p] = NoTx]
    /\ UNCHANGED <<chain, marked, checked, unstored, jobs>>

(***************************************************************************)
(* Deletions.                                                              *)
(***************************************************************************)

\* Delete_TX looks the hash up: without a transaction there is nothing to do.
DeleteLoad(g) ==
    \E t \in doomed[g] :
        /\ victim[g] = NoTx
        /\ doomed' = [doomed EXCEPT ![g] = @ \ {t}]
        /\ IF t \in txs
             THEN /\ victim' = [victim EXCEPT ![g] = t]
                  /\ raced' = raced \cup {u \in {t} : \E h \in Goroutine : victim[h] = u}
             ELSE UNCHANGED <<victim, raced>>
        /\ UNCHANGED <<chain, pools, pass, undeleted>>

\* Slip: the keys go first, the transaction after them.
DeleteTxLast(g) ==
    /\ victim[g] # NoTx /\ undeleted[g] = {}
    /\ \E k \in Keys[victim[g]] :
          IF k \in marked
            THEN marked' = marked \ {k} /\ UNCHANGED <<txs, victim>>
            ELSE /\ txs' = txs \ {victim[g]} /\ UNCHANGED marked
                 /\ victim' = [victim EXCEPT ![g] = NoTx]
    /\ UNCHANGED <<chain, checked, adding, unstored, pass, doomed, undeleted, raced>>

\* The transaction is taken out, if another deletion has not taken it.
DeleteTx(g) ==
    /\ victim[g] # NoTx /\ undeleted[g] = {}
    /\ txs' = txs \ {victim[g]}
    /\ undeleted' = [undeleted EXCEPT ![g] = Keys[victim[g]]]
    /\ UNCHANGED <<chain, marked, checked, adding, unstored, pass, doomed, victim, raced>>

\* Slip: only the first payload's nonce is deleted.
DeleteOneKey(g) ==
    \E k \in undeleted[g] :
        /\ marked' = marked \ {k}
        /\ undeleted' = [undeleted EXCEPT ![g] = {}]
        /\ victim' = [victim EXCEPT ![g] = NoTx]
        /\ UNCHANGED <<chain, txs, checked, adding, unstored, pass, doomed, raced>>

\* One key of the transaction; after the last one Delete_TX returns.
DeleteKey(g) ==
    \E k \in undeleted[g] :
        /\ marked' = marked \ {k}
        /\ undeleted' = [undeleted EXCEPT ![g] = @ \ {k}]
        /\ victim' = IF undeleted[g] = {k} THEN [victim EXCEPT ![g] = NoTx] ELSE victim
        /\ UNCHANGED <<chain, txs, checked, adding, unstored, pass, doomed, raced>>

Done(g) == doomed[g] = {} /\ victim[g] = NoTx

Delete(g, p, list) ==
    /\ pass' = [pass EXCEPT ![g] = p]
    /\ doomed' = [doomed EXCEPT ![g] = list]
    /\ UNCHANGED <<chain, pools, victim, undeleted, raced>>

\* Slip: the age is compared with a limit no transfer reaches.
OutdatedNever(t) == Height[best] - Height[Ref[t]] > MaxHeight

\* HouseKeeping of the mempool: transfers at or under the stable height.  A height is
\* a uint64 there, and on a chain that is not yet STABLE_LIMIT high the stable height
\* is negative, which makes it greater than all of them.
Outdated(t) == Get_Stable_Height < 0 \/ Get_Stable_Height >= Height[Ref[t]]

HouseKeeping ==
    /\ pass["cron"] = "idle"
    /\ Delete("cron", "mempool", {t \in txs \cap Transfer : Outdated(t)})

\* The block whose state decides about the registrations: two under the top.
Decided(b) == b \in Past[best] /\ Height[b] = Height[best] - 2

\* Slip: what the comments say, an error for an address that has an account.
VerifierInverted(r) == \E b \in known : Decided(b) /\ \A a \in Keys[r] : Registered(a, b)

\* A registration may stay as long as its address has no account there.
Verifier(r) == \E b \in known : Decided(b) /\ \A a \in Keys[r] : ~ Registered(a, b)

\* HouseKeeping of the regpool follows in the same job, on a chain of two blocks or more.
HouseKeepingRegpool ==
    /\ pass["cron"] = "mempool" /\ Done("cron")
    /\ IF Height[best] < 2
         THEN Delete("cron", "idle", {})
         ELSE Delete("cron", "regpool", {r \in txs \cap Registration : ~ Verifier(r)})

HouseKept == pass["cron"] = "regpool" /\ Done("cron") /\ Delete("cron", "idle", {})

\* mempool_flush and regpool_flush at the console.
Flush(p) == pass["console"] = "idle" /\ Delete("console", p, {t \in txs : PoolOf(t) = p})

\* mempool_delete_tx and regpool_delete_tx.
ConsoleDelete(t) == pass["console"] = "idle" /\ Delete("console", PoolOf(t), {t})

ConsoleDone == pass["console"] # "idle" /\ Done("console") /\ Delete("console", "idle", {})

(***************************************************************************)
(* The chain moves.                                                        *)
(***************************************************************************)

ChainAccepts(b) == b # Genesis /\ b \notin known /\ Accept(b) /\ latest' = b /\ UNCHANGED <<pools, jobs>>
ChainAdopts(b)  == Adopt(b) /\ UNCHANGED <<latest, pools, jobs>>
ChainRetreats   == Retreat /\ UNCHANGED <<latest, pools, jobs>>

-----------------------------------------------------------------------------
PoolInit ==
    /\ known = {Genesis} /\ best = Genesis /\ latest = Genesis
    /\ txs = {} /\ marked = {} /\ checked = {}
    /\ adding = [p \in Pool |-> NoTx] /\ unstored = [p \in Pool |-> {}]
    /\ pass = [g \in Goroutine |-> "idle"] /\ doomed = [g \in Goroutine |-> {}]
    /\ victim = [g \in Goroutine |-> NoTx] /\ undeleted = [g \in Goroutine |-> {}]
    /\ raced = {}

AddStep == \/ \E t \in Tx : Add_TX_To_Pool(t) \/ BeginAdd(t)
           \/ \E p \in Pool : StoreKey(p) \/ StoreTx(p)

DeleteStep(g) == DeleteLoad(g) \/ DeleteTx(g) \/ DeleteKey(g)

CronStep == HouseKeeping \/ HouseKeepingRegpool \/ HouseKept

ConsoleStep == ConsoleDone \/ (\E p \in Pool : Flush(p)) \/ (\E t \in Tx : ConsoleDelete(t))

ChainStep == ChainRetreats \/ \E b \in Block : ChainAccepts(b) \/ ChainAdopts(b)

PoolNext == AddStep \/ CronStep \/ ConsoleStep \/ ChainStep \/ \E g \in Goroutine : DeleteStep(g)

\* The job runs every minute, and a goroutine is never stopped for good.
PoolSpec == PoolInit /\ [][PoolNext]_tpvars /\ WF_tpvars(CronStep) /\ WF_tpvars(DeleteStep("cron"))

-----------------------------------------------------------------------------
(***************************************************************************)
(* Properties.                                                             *)
(***************************************************************************)

\* Types.
PoolTypeOK ==
    /\ known \subseteq Block /\ best \in Block /\ latest \in Block
    /\ txs \subseteq Tx /\ marked \subseteq Key /\ checked \subseteq Tx
    /\ adding \in [Pool -> Tx \cup {NoTx}] /\ unstored \in [Pool -> SUBSET Key]
    /\ pass \in [Goroutine -> Pool \cup {"idle"}] /\ doomed \in [Goroutine -> SUBSET Tx]
    /\ victim \in [Goroutine -> Tx \cup {NoTx}] /\ undeleted \in [Goroutine -> SUBSET Key]
    /\ raced \subseteq Tx

\* Keys that two deletions at one time may have unmarked under a transaction added
\* in between.
RacedKeys == UNION {Keys[t] : t \in raced}

\* "contains key images of all txs" (mempool.go:51): every key of a pooled transaction
\* is marked, however additions and deletions interleave, unless two deletions had
\* loaded the same transaction; so no two pooled transfers share a nonce and no two
\* registrations an address.
PooledKeysAreMarked ==
    /\ \A t \in txs : Keys[t] \subseteq marked \cup RacedKeys
    /\ \A t, u \in txs : t # u => Keys[t] \cap Keys[u] \subseteq RacedKeys

\* Who answers for a mark: a pooled transaction, one being added, or a deletion that
\* will come to it.
Answered(k) ==
    \/ \E t \in txs : k \in Keys[t]
    \/ \E p \in Pool : adding[p] # NoTx /\ k \in Keys[adding[p]] \ unstored[p]
    \/ \E g \in Goroutine : k \in undeleted[g]

\* No mark is left behind, even by deletions that race: a nonce or an address is
\* refused only while a transaction that has it waits, so a sender whose transfer
\* was deleted can send again.
NoMarkIsLeftBehind == \A k \in marked : Answered(k)

\* A transfer that stays under the stable height is out of the pool again and again,
\* whatever flushes it, adds it anew or deletes it at the same time.
OutdatedTransfersLeave ==
    \A t \in Transfer : <>[](Get_Stable_Height >= Height[Ref[t]]) => []<>(t \notin txs)

\* A registration of an address that has an account, two blocks under the top, is out
\* of the pool again and again (regpool.go:167, "a registered user tries to register
\* again").
RegisteredLeave ==
    \A r \in Registration :
        <>[](\E b \in known : Decided(b) /\ \A a \in Keys[r] : Registered(a, b)) => []<>(r \notin txs)
=============================================================================
