------------------------------- MODULE Ledger -------------------------------
(***************************************************************************)
(* What a block does to the accounts: the checks Add_Complete_Block makes  *)
(* on the transactions of a block, and their execution on the snapshot of  *)
(* the block's tip.                                                        *)
(*                                                                         *)
(* A transfer is a proof against an old state: its ring is read, and its   *)
(* sender's balance is proved sufficient, in the snapshot of the block it  *)
(* refers to (BLID), up to TX_VALIDITY_HEIGHT blocks before the block that *)
(* executes it.  Nobody can see which ring member spends.  That no balance *)
(* is spent twice in between is left to NonceHeight, which execution sets  *)
(* for the half of the ring the sender is in, and which a block's checks   *)
(* compare between the two states.  A registration, which no check refuses *)
(* because the address has an account, takes that height away again.       *)
(*                                                                         *)
(* Ciphertexts are numbers here, and the zero-knowledge proof is the fact  *)
(* it proves.  chain.Lock is held from Begin to Commit or Panic.  Where    *)
(* the states are stored, and crashes, is Blockchain's.                    *)
(***************************************************************************)
EXTENDS BlockTree, Integers, Sequences, FiniteSets, Functions

CONSTANTS
    Account,                  \* public keys
    Asset, Base,              \* the balance trees: SCIDs, and Base for the zero SCID, the balance tree
    Tx,                       \* the registrations and the transfers wallets and contract users make
    Coinbase,                 \* what blocks have of miners: an integrator, the miners of the miniblocks, the final miniblocks
    MiniBlocks,               \* BLOCK_TIME - MINIBLOCK_HIGHDIFF + 1: the miniblocks of a block
    SoftFork,                 \* from this height on only one miniblock of a block is final
    RootState,                \* the accounts after Genesis
    TX_VALIDITY_HEIGHT,
    BaseReward, RewardReductionInterval,
    RegistrationBalance,      \* what a new account starts with; it depends on the network and the height
    MaxTxs                    \* bound on the transactions of a block

\* A leaf of a balance tree.  Absent is the error ErrNotFound: such a key counts
\* as a zero balance in a token's tree, and as not registered in the tree of Base.
NotFound == -1
Entry  == [balance : Int, nonce : NotFound..MaxHeight]
Absent == [balance |-> 0, nonce |-> NotFound]
State  == [Asset -> [Account -> Entry]]

\* One asset's part of a transfer.  Of the ring's two halves by parity of the
\* position, "half" is the one Proof.Parity selects, which the sender is in.
Payload == [sender : Account, receiver : Account, ring : SUBSET Account,
            half : SUBSET Account, amount : Nat, fee : Nat, burn : Nat]

Registration == [address : Account]

\* A transfer is a NORMAL, BURN_TX or SC_TX transaction, and ref its BLID.
IsRegistration(tx) == "address" \in DOMAIN tx
Payloads(tx)       == IF IsRegistration(tx) THEN {} ELSE DOMAIN tx.payloads

WellFormed(p) == /\ p.sender \in p.half /\ p.half \subseteq p.ring
                 /\ p.receiver \in p.ring \ p.half

ASSUME LedgerAssumption ==
    /\ Base \in Asset /\ IsFiniteSet(Account)
    /\ RootState \in State
    /\ \A s \in Asset, a \in Account :
          LET e == RootState[s][a]
          IN  e.nonce <= 0 /\ e.balance >= 0 /\ (e.nonce = NotFound => e = Absent)
    /\ \A tx \in Tx : IF IsRegistration(tx) THEN tx \in Registration
                      ELSE /\ tx.ref \in Block /\ Base \in Payloads(tx)
                           /\ \A s \in Payloads(tx) : /\ s \in Asset
                                                      /\ tx.payloads[s] \in Payload
                                                      /\ WellFormed(tx.payloads[s])
    /\ Coinbase # {} /\ Coinbase \subseteq [integrator : Account, voters : Seq(Account), finals : Nat]
    /\ MiniBlocks \in Nat \ {0} /\ SoftFork \in Nat
    /\ TX_VALIDITY_HEIGHT \in Nat
    /\ BaseReward \in Nat /\ RewardReductionInterval \in Nat \ {0}
    /\ RegistrationBalance \in Nat /\ MaxTxs \in Nat

VARIABLES
    executed,   \* the blocks that have a snapshot
    state,      \* state[b]: the balance trees in the snapshot of b
    past,       \* past[b]: b and the blocks below it, what get_ordered_past walks over
    body,       \* body[b]: the transactions of b, in the order of Tx_hashes
    miners,     \* miners[b]: the Miner_TX and miniblocks of b
    \* the call of Add_Complete_Block that holds the lock, and its local variables
    pc,         \* "idle" or "execute"
    cur,        \* the block being added
    coinbase,   \* its Miner_TX and miniblocks
    txs,        \* its transactions
    done,       \* how many of them have been executed
    trees,      \* balance_tree, and sc_change_cache over the snapshot of the tip
    fees        \* fees_collected

chain  == <<executed, state, past, body, miners>>
locals == <<cur, coinbase, txs, done, trees, fees>>
vars   == <<chain, pc, locals>>

NoCoinbase == CHOOSE c \in Coinbase : TRUE

Registered(s, a) == s[Base][a].nonce # NotFound
Tip(b)           == Parent[b]

\* What a payload adds to the ciphertext of a ring member.
Change(p, a) == (IF a = p.receiver THEN p.amount ELSE 0)
                - (IF a = p.sender THEN p.amount + p.fee + p.burn ELSE 0)

(***************************************************************************)
(* The checks on a block's transactions.                                   *)
(***************************************************************************)

\* A key that no two payloads may share: it is derived from the sender's secret,
\* the state of the referred block and the asset.
Nonce(tx, s) == <<tx.payloads[s].sender, tx.ref, s>>

\* Verify_Transaction_NonCoinbase: the ring is there in the referred state, the
\* sender can pay there and then.  A registration is only signed.
Verify_Transaction_NonCoinbase(tx) ==
    \A s \in Payloads(tx) : LET p == tx.payloads[s]
                            IN  /\ \A a \in p.ring : Registered(state[tx.ref], a)
                                /\ state[tx.ref][s][p.sender].balance + Change(p, p.sender) >= 0

\* Slip: a nonce of the block before counts as unspent.
CheckNonceLate(tx, tip) ==
    \A s \in Payloads(tx) : \A a \in tx.payloads[s].half :
        LET then == state[tx.ref][s][a].nonce
        IN  then # NotFound => state[tip][s][a].nonce <= then + 1

\* Verify_Transaction_NonCoinbase_CheckNonce_Tips: nobody in the sender's half has
\* spent between the referred block and the tip.  Members that the referred
\* state of a token does not have are skipped.
CheckNonce(tx, tip) ==
    \A s \in Payloads(tx) : \A a \in tx.payloads[s].half :
        LET then == state[tx.ref][s][a].nonce
        IN  then # NotFound => state[tip][s][a].nonce <= then

\* Slip: the distance is checked, that the block is on this branch is not.
ReferableByHeight(tx, b) ==
    Payloads(tx) # {} => /\ tx.ref \in executed
                         /\ Height[tx.ref] < Height[b]
                         /\ Height[b] - Height[tx.ref] < TX_VALIDITY_HEIGHT

\* The transfer refers to a recent block of the branch.
Referable(tx, b) ==
    Payloads(tx) # {} => /\ tx.ref \in past[Tip(b)]
                         /\ Height[b] - Height[tx.ref] < TX_VALIDITY_HEIGHT

\* What two transactions of one block must not share: their hash, an address they
\* both register, a nonce, or (cbl_verify) a key of their halves if they refer to
\* different heights.
Compatible(t, u) ==
    /\ t # u
    /\ IsRegistration(t) /\ IsRegistration(u) => t.address # u.address
    /\ \A s \in Payloads(t) \cap Payloads(u) :
          /\ Nonce(t, s) # Nonce(u, s)
          /\ t.payloads[s].half \cap u.payloads[s].half # {} => Height[t.ref] = Height[u.ref]

\* IsAddressHashValidAtTips looks the miners up in an old state of the chain the node
\* follows, which the block need not be on.
VotersKnown(coin) ==
    \E b \in executed : \A i \in 1..Len(coin.voters) : Registered(state[b], coin.voters[i])

\* Verify_MiniBlocks: before the soft fork several miniblocks may be final.
Verify_MiniBlocks(b, coin) ==
    /\ coin.finals >= 1 /\ Len(coin.voters) + coin.finals = MiniBlocks
    /\ Height[b] >= SoftFork => Len(coin.voters) = MiniBlocks - 1

\* Nobody asks whether an address that is registered has an account already.
Acceptable(b, transactions) ==
    \A i \in 1..Len(transactions) :
        /\ Referable(transactions[i], b)
        /\ CheckNonce(transactions[i], Tip(b))
        /\ Verify_Transaction_NonCoinbase(transactions[i])
        /\ \A j \in 1..(i - 1) : Compatible(transactions[j], transactions[i])

(***************************************************************************)
(* Execution.                                                              *)
(***************************************************************************)

Begin(b, transactions, coin) ==
    /\ pc = "idle" /\ b \notin executed /\ b # Genesis
    /\ Tip(b) \in executed /\ WellPlaced(b)
    /\ Verify_MiniBlocks(b, coin) /\ VotersKnown(coin)
    /\ Acceptable(b, transactions)
    /\ pc' = "execute"
    /\ cur' = b /\ txs' = transactions /\ coinbase' = coin
    /\ done' = 0 /\ fees' = 0
    /\ trees' = state[Tip(b)]
    /\ UNCHANGED chain

\* Slip: the other half of the ring gets the height.
ProcessPayloadOtherHalf(tree, p, h) ==
    [a \in Account |-> IF a \notin p.ring THEN tree[a]
                       ELSE [balance |-> tree[a].balance + Change(p, a),
                             nonce   |-> IF a \notin p.half THEN h
                                         ELSE IF tree[a].nonce = NotFound THEN 0 ELSE tree[a].nonce]]

\* Slip: the height is the next block's.
ProcessPayloadNextHeight(tree, p, h) ==
    [a \in Account |-> IF a \notin p.ring THEN tree[a]
                       ELSE [balance |-> tree[a].balance + Change(p, a),
                             nonce   |-> IF a \in p.half THEN h + 1
                                         ELSE IF tree[a].nonce = NotFound THEN 0 ELSE tree[a].nonce]]

\* Every ring member's entry is written; a member a token's tree did not have
\* is in it from now on.
ProcessPayload(tree, p, h) ==
    [a \in Account |-> IF a \notin p.ring THEN tree[a]
                       ELSE [balance |-> tree[a].balance + Change(p, a),
                             nonce   |-> IF a \in p.half THEN h
                                         ELSE IF tree[a].nonce = NotFound THEN 0 ELSE tree[a].nonce]]

\* An account that is there is replaced, its balance and its nonce with it.
ExecuteRegistration(tx) ==
    /\ trees' = [trees EXCEPT ![Base][tx.address] = [balance |-> RegistrationBalance, nonce |-> 0]]
    /\ UNCHANGED fees

\* The tree of every token in the transfer is read again from the snapshot of the tip
\* before the payloads are processed; balance_tree is not.
Reloaded(s) == IF s = Base THEN trees[s] ELSE state[Tip(cur)][s]

ExecuteTransfer(tx) ==
    /\ trees' = [s \in Asset |-> IF s \in Payloads(tx)
                                   THEN ProcessPayload(Reloaded(s), tx.payloads[s], Height[cur])
                                   ELSE trees[s]]
    /\ fees' = fees + tx.payloads[Base].fee

\* process_transaction for the next transaction.
ExecuteTx ==
    /\ pc = "execute" /\ done < Len(txs)
    /\ LET tx == txs[done + 1]
       IN  IF IsRegistration(tx) THEN ExecuteRegistration(tx) ELSE ExecuteTransfer(tx)
    /\ done' = done + 1
    /\ UNCHANGED <<chain, pc, cur, coinbase, txs>>

CalcBlockReward(h) == BaseReward \div 2^((h + RewardReductionInterval) \div RewardReductionInterval)

ASSUME RewardAssumption == \A h \in Position : CalcBlockReward(h) \in Nat

Share(full, coin) == full \div (Len(coin.voters) + coin.finals)

\* Slip: nobody gets what the division leaves.
RewardWithoutLeftover(a) ==
    LET share == Share(CalcBlockReward(Height[cur]) + fees, coinbase)
    IN  (IF a = coinbase.integrator THEN share ELSE 0)
        + share * Cardinality({i \in 1..Len(coinbase.voters) : coinbase.voters[i] = a})

\* process_miner_transaction: every miniblock earns its miner a share of the reward and
\* the fees; the integrator gets one and what the division leaves.  All final
\* miniblocks are skipped, as if there were only the integrator's.
Reward(a) ==
    LET full  == CalcBlockReward(Height[cur]) + fees
        share == Share(full, coinbase)
    IN  (IF a = coinbase.integrator THEN full - share * (Len(coinbase.voters) + coinbase.finals - 1) ELSE 0)
        + share * Cardinality({i \in 1..Len(coinbase.voters) : coinbase.voters[i] = a})

Rewarded == [trees EXCEPT ![Base] =
                [a \in Account |-> [trees[Base][a] EXCEPT !.balance = @ + Reward(a)]]]

Executed == pc = "execute" /\ done = Len(txs)

MinersThere == /\ Registered(trees, coinbase.integrator)
               /\ \A i \in 1..Len(coinbase.voters) : Registered(trees, coinbase.voters[i])

\* The lock is released; the locals of the call that held it are gone.
Unlock == /\ pc' = "idle"
          /\ cur' = Genesis /\ coinbase' = NoCoinbase /\ txs' = <<>>
          /\ done' = 0 /\ trees' = RootState /\ fees' = 0

Commit ==
    /\ Executed /\ MinersThere
    /\ executed' = executed \cup {cur}
    /\ state' = [state EXCEPT ![cur] = Rewarded]
    /\ past' = [past EXCEPT ![cur] = past[Tip(cur)] \cup {cur}]
    /\ body' = [body EXCEPT ![cur] = txs] /\ miners' = [miners EXCEPT ![cur] = coinbase]
    /\ Unlock

\* A miner who has no account in the state, which is asked nowhere before of the
\* integrator: a panic, recovered as ErrPanic.
Panic ==
    /\ Executed /\ ~ MinersThere
    /\ Unlock
    /\ UNCHANGED chain

-----------------------------------------------------------------------------
Init ==
    /\ executed = {Genesis}
    /\ state = [b \in Block |-> RootState]
    /\ past = [b \in Block |-> {Genesis}]
    /\ body = [b \in Block |-> <<>>] /\ miners = [b \in Block |-> NoCoinbase]
    /\ pc = "idle"
    /\ cur = Genesis /\ coinbase = NoCoinbase /\ txs = <<>>
    /\ done = 0 /\ trees = RootState /\ fees = 0

Bodies == UNION {[1..n -> Tx] : n \in 0..MaxTxs}

Next == \/ pc = "idle" /\ \E b \in Block, t \in Bodies, c \in Coinbase : Begin(b, t, c)
        \/ ExecuteTx \/ Commit \/ Panic

Spec == Init /\ [][Next]_vars

-----------------------------------------------------------------------------
(***************************************************************************)
(* Properties.                                                             *)
(***************************************************************************)

\* Types.
TypeOK ==
    /\ executed \subseteq Block
    /\ state \in [Block -> State]
    /\ past \in [Block -> SUBSET Block]
    /\ body \in [Block -> Seq(Tx)] /\ miners \in [Block -> Coinbase]
    /\ pc \in {"idle", "execute"}
    /\ cur \in Block /\ coinbase \in Coinbase
    /\ txs \in Seq(Tx) /\ done \in 0..Len(txs)
    /\ trees \in State /\ fees \in Nat

\* The addresses a block registers, and those that had an account when a block of the
\* branch registered them: "address needs registration" (transaction_execute.go:178) is
\* not checked.
RegisteredBy(b)    == {body[b][i].address : i \in {j \in 1..Len(body[b]) : IsRegistration(body[b][j])}}
RegisteredAgain(b) == {a \in Account : \E c \in past[b] : a \in RegisteredBy(c) /\ Registered(state[Tip(c)], a)}

\* No account owes: whatever transfers are in flight against whatever old states, on
\* every branch, a sender has what it sends when the block executes it (a proof is
\* about the referred state only; the nonces carry it forward).  Of the coin this
\* is so until a block of the branch registers the account again, which sets its
\* nonce back; of tokens it is so even then.
NoOverdraft ==
    \A b \in executed, s \in Asset, a \in Account :
        (s = Base => a \notin RegisteredAgain(b)) => state[b][s][a].balance >= 0

Sender(tx)  == tx.payloads[Base].sender
Spenders(b) == {Sender(body[b][i]) : i \in {j \in 1..Len(body[b]) : ~ IsRegistration(body[b][j])}}

\* Whoever had spent in c has been registered again since, in a block above it or in c
\* itself.
RegisteredSince(a, c, b) == \E d \in past[b] : c \in past[d] /\ a \in RegisteredBy(d)

\* A block executes at most one transfer of a sender, and a later one on the same
\* branch was made against a state that has the earlier one, unless the sender was
\* registered again in between; so a transfer is executed twice on a branch only
\* across a registration of its sender.
SpendsSeeEarlierSpends ==
    \A b \in executed : \A i \in 1..Len(body[b]) :
        LET t == body[b][i]
        IN  ~ IsRegistration(t) =>
              /\ \A j \in 1..Len(body[b]) :
                    i # j /\ ~ IsRegistration(body[b][j]) => Sender(body[b][j]) # Sender(t)
              /\ \A c \in past[b] \ {b} :
                    Sender(t) \in Spenders(c) => \/ c \in past[t.ref]
                                                \/ RegisteredSince(Sender(t), c, Tip(b))

Holdings(tree) == SumFunction([a \in Account |-> tree[a].balance])
Supply(b)      == Holdings(state[b][Base])

\* What a's account holds after n transactions of the list that do not register it: what
\* it holds in the tree they start from, and what they pay to it and out of it.
Paid(tx, a)           == IF IsRegistration(tx) THEN 0 ELSE Change(tx.payloads[Base], a)
Held(tree, list, n, a) == tree[a].balance + SumFunction([i \in 1..n |-> Paid(list[i], a)])

\* What the n-th transaction takes out of the supply: a transfer what it burns; a
\* registration what it replaces, less what it adds.
Burns(tree, list, n) == IF IsRegistration(list[n])
                          THEN Held(tree, list, n - 1, list[n].address) - RegistrationBalance
                          ELSE list[n].payloads[Base].burn
Burnt(b) == SumFunction([i \in 1..Len(body[b]) |-> Burns(state[Tip(b)][Base], body[b], i)])

\* The shares of the final miniblocks beyond the first, which nobody is paid.
Fee(tx)   == IF IsRegistration(tx) THEN 0 ELSE tx.payloads[Base].fee
Fees(b)   == SumFunction([i \in 1..Len(body[b]) |-> Fee(body[b][i])])
Unpaid(b) == Share(CalcBlockReward(Height[b]) + Fees(b), miners[b]) * (miners[b].finals - 1)

\* A block makes exactly its reward and the balances of the accounts it registers, and
\* destroys exactly what its transfers burn, the balances its registrations replace
\* and, before the soft fork only, the shares of surplus final miniblocks: fees and
\* rewards are shared out to the last unit, and no transfer of the block is lost or
\* applied twice.
SupplyIsConserved ==
    \A b \in executed \ {Genesis} :
        /\ Supply(b) + Burnt(b) + Unpaid(b) = Supply(Tip(b)) + CalcBlockReward(Height[b])
        /\ Height[b] >= SoftFork => Unpaid(b) = 0

\* A block that passed the checks executes: every ring member of its transfers, read
\* in an old state, is there in the state they are executed on (process_transaction
\* panics otherwise, with the block already stored).
RingIsThere ==
    pc = "execute" => \A i \in 1..Len(txs) : \A s \in Payloads(txs[i]) :
                         \A a \in txs[i].payloads[s].ring : Registered(trees, a)

\* "cache entire changes for entire block" (blockchain.go:933): the state after a block
\* has every token transfer of the block, so the half of each of its rings has spent
\* in it.
TransfersAreKept ==
    \A b \in executed : \A i \in 1..Len(body[b]) : \A s \in Payloads(body[b][i]) \ {Base} :
        \A a \in body[b][i].payloads[s].half : state[b][s][a].nonce = Height[b]
=============================================================================
