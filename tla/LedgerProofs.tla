---------------------------- MODULE LedgerProofs ----------------------------
(***************************************************************************)
(* What holds of Ledger for every tree of blocks, all accounts and assets, *)
(* and whatever transfers there are.                                       *)
(***************************************************************************)
EXTENDS Ledger, Arithmetic, SequenceTheorems

USE DEF NotFound

-----------------------------------------------------------------------------
\* Transactions and entries.

LEMMA RegistrationFacts ==
    ASSUME NEW tx \in Tx, IsRegistration(tx)
    PROVE  tx.address \in Account /\ Payloads(tx) = {}
BY LedgerAssumption DEF Registration, Payloads

LEMMA TransferFacts ==
    ASSUME NEW tx \in Tx, ~ IsRegistration(tx)
    PROVE  tx.ref \in Block /\ Base \in Payloads(tx)
BY LedgerAssumption

LEMMA PayloadFacts ==
    ASSUME NEW tx \in Tx, NEW s \in Payloads(tx)
    PROVE  /\ ~ IsRegistration(tx) /\ s \in Asset
           /\ tx.payloads[s] \in Payload /\ WellFormed(tx.payloads[s])
<1>1. ~ IsRegistration(tx)
  BY DEF Payloads
<1> QED
  BY <1>1, LedgerAssumption

\* What a payload does to the entry of a ring member: the sender pays and is in
\* the half, nobody else loses anything.
LEMMA ChangeFacts ==
    ASSUME NEW p \in Payload, WellFormed(p), NEW a \in Account
    PROVE  /\ Change(p, a) \in Int
           /\ a # p.sender => Change(p, a) >= 0
           /\ p.sender \in p.half /\ p.half \subseteq p.ring /\ p.ring \subseteq Account
BY DEF Payload, WellFormed, Change

\* The sender is in the half, the half in the ring.
LEMMA RingFacts ==
    ASSUME NEW tx \in Tx, NEW s \in Payloads(tx)
    PROVE  /\ tx.payloads[s].sender \in tx.payloads[s].half
           /\ tx.payloads[s].half \subseteq tx.payloads[s].ring
           /\ tx.payloads[s].ring \subseteq Account
BY PayloadFacts DEF Payload, WellFormed

LEMMA BodiesAreSequences == Bodies \subseteq Seq(Tx)
<1> SUFFICES ASSUME NEW n \in 0..MaxTxs, NEW t \in [1..n -> Tx]
             PROVE  t \in Seq(Tx)
  BY DEF Bodies
<1>1. n \in Nat
  BY LedgerAssumption
<1> QED
  BY <1>1, Z3

\* The block being executed has miniblocks to share the reward among.
Shared == pc = "execute" => Verify_MiniBlocks(cur, coinbase)

LEMMA DivisionLeaves ==
    ASSUME NEW full \in Nat, NEW k \in Nat \ {0}
    PROVE  full \div k \in Nat /\ full - (full \div k) * (k - 1) \in Nat
<1>1. full \div k \in Nat /\ (full \div k) * k <= full
  OBVIOUS
<1> QED
  BY <1>1

LEMMA ShareFacts ==
    ASSUME TypeOK, Shared, pc = "execute"
    PROVE  LET full == CalcBlockReward(Height[cur]) + fees
               n    == Len(coinbase.voters)
               m    == coinbase.finals
           IN  /\ full \in Nat /\ n \in Nat /\ m \in Nat /\ m >= 1
               /\ Share(full, coinbase) \in Nat
               /\ full - Share(full, coinbase) * (n + m - 1) \in Nat
               /\ Height[cur] >= SoftFork => m = 1
<1> DEFINE full == CalcBlockReward(Height[cur]) + fees
           n    == Len(coinbase.voters)
           m    == coinbase.finals
<1>1. full \in Nat
  <2>1. Height[cur] \in Position
    BY BlockTreeAssumption DEF TypeOK, Position
  <2> QED
    BY <2>1, RewardAssumption DEF TypeOK
<1>2. n \in Nat /\ m \in Nat
  BY LedgerAssumption DEF TypeOK
<1>3. m >= 1 /\ n + m = MiniBlocks /\ (Height[cur] >= SoftFork => n = MiniBlocks - 1)
  BY DEF Shared, Verify_MiniBlocks
<1>4. Share(full, coinbase) = full \div (n + m)
  BY DEF Share
<1> HIDE DEF full, n, m
<1>5. full \div (n + m) \in Nat /\ full - (full \div (n + m)) * (n + m - 1) \in Nat
  <2>1. (n + m) \in Nat \ {0}
    BY <1>2, <1>3
  <2>2. full \div (n + m) \in Nat /\ full - (full \div (n + m)) * ((n + m) - 1) \in Nat
    <3> DEFINE k == n + m
    <3>1. k \in Nat \ {0}
      BY <2>1
    <3> HIDE DEF k
    <3>2. full \div k \in Nat /\ full - (full \div k) * (k - 1) \in Nat
      BY <1>1, <3>1, DivisionLeaves
    <3> QED
      BY <3>2 DEF k
  <2>3. (n + m) - 1 = n + m - 1
    BY <1>2
  <2> QED
    BY <2>2, <2>3
<1>6. Height[cur] >= SoftFork => m = 1
  BY <1>2, <1>3
<1> QED
  BY <1>1, <1>2, <1>3, <1>4, <1>5, <1>6 DEF full, n, m

\* The reward of an account: never negative.
LEMMA RewardFacts ==
    ASSUME TypeOK, Shared, pc = "execute", NEW a \in Account
    PROVE  Reward(a) \in Nat
<1> DEFINE full  == CalcBlockReward(Height[cur]) + fees
           n     == Len(coinbase.voters)
           share == Share(full, coinbase)
           own   == full - share * (n + coinbase.finals - 1)
           won   == {i \in 1..n : coinbase.voters[i] = a}
<1>1. n \in Nat /\ share \in Nat /\ own \in Nat
  BY ShareFacts
<1>2. Cardinality(won) \in Nat
  <2>1. IsFiniteSet(1..n)
    <3> HIDE DEF n
    <3> QED
      BY <1>1, FS_Interval
  <2>2. IsFiniteSet(won)
    BY <2>1, FS_Subset
  <2> QED
    BY <2>2, FS_CardinalityType
<1>3. share * Cardinality(won) \in Nat
  <2> HIDE DEF share, won
  <2> QED
    BY <1>1, <1>2
<1>4. Reward(a) = (IF a = coinbase.integrator THEN own ELSE 0) + share * Cardinality(won)
  BY DEF Reward
<1> HIDE DEF full, n, share, own, won
<1> QED
  BY <1>1, <1>3, <1>4

-----------------------------------------------------------------------------
\* Types.

LEMMA ProcessPayloadType ==
    ASSUME NEW tree \in [Account -> Entry], NEW p \in Payload, WellFormed(p), NEW h \in Position
    PROVE  ProcessPayload(tree, p, h) \in [Account -> Entry]
<1> USE BlockTreeAssumption DEF Position, Entry
<1>1. ASSUME NEW a \in Account
      PROVE  [balance |-> tree[a].balance + Change(p, a),
              nonce |-> IF a \in p.half THEN h ELSE IF tree[a].nonce = NotFound THEN 0 ELSE tree[a].nonce]
                \in Entry
  BY ChangeFacts
<1> HIDE DEF Entry
<1> QED
  BY <1>1 DEF ProcessPayload

LEMMA UpdatedEntryType ==
    ASSUME NEW tr \in State, NEW a \in Account, NEW e \in Entry
    PROVE  [tr EXCEPT ![Base][a] = e] \in State
BY LedgerAssumption DEF State

LEMMA InitTypes == Init => TypeOK
<1> SUFFICES ASSUME Init PROVE TypeOK
  OBVIOUS
<1>1. NoCoinbase \in Coinbase
  BY LedgerAssumption DEF NoCoinbase
<1> QED
  BY <1>1, BlockTreeAssumption, LedgerAssumption DEF Init, TypeOK

LEMMA BeginTypes ==
    ASSUME TypeOK, NEW b \in Block, NEW t \in Bodies, NEW c \in Coinbase, Begin(b, t, c)
    PROVE  TypeOK'
<1>1. t \in Seq(Tx)
  BY BodiesAreSequences
<1>2. Tip(b) \in Block
  BY BlockTreeAssumption DEF Tip
<1> QED
  BY <1>1, <1>2 DEF TypeOK, Begin, chain

LEMMA ExecuteTxTypes == TypeOK /\ ExecuteTx => TypeOK'
<1> SUFFICES ASSUME TypeOK, ExecuteTx PROVE TypeOK'
  OBVIOUS
<1> DEFINE tx == txs[done + 1]
<1>1. tx \in Tx /\ (done + 1) \in 0..Len(txs)
  BY DEF TypeOK, ExecuteTx
<1>2. CASE IsRegistration(tx)
  <2>1. [balance |-> RegistrationBalance, nonce |-> 0] \in Entry
    BY LedgerAssumption, BlockTreeAssumption DEF Entry
  <2>2. trees' \in State
    <3>1. trees' = [trees EXCEPT ![Base][tx.address] = [balance |-> RegistrationBalance, nonce |-> 0]]
      BY <1>2 DEF ExecuteTx, ExecuteRegistration
    <3>2. trees \in State /\ tx.address \in Account
      BY <1>1, <1>2, RegistrationFacts DEF TypeOK
    <3> HIDE DEF tx
    <3> QED
      BY <2>1, <3>1, <3>2, UpdatedEntryType
  <2> QED
    BY <1>1, <1>2, <2>2 DEF TypeOK, ExecuteTx, ExecuteRegistration, chain
<1>3. CASE ~ IsRegistration(tx)
  <2>1. ASSUME NEW s \in Payloads(tx)
        PROVE  ProcessPayload(Reloaded(s), tx.payloads[s], Height[cur]) \in [Account -> Entry]
    <3>1. Height[cur] \in Position /\ Tip(cur) \in Block
      BY BlockTreeAssumption DEF TypeOK, Position, Tip
    <3>2. Reloaded(s) \in [Account -> Entry]
      BY <1>1, <3>1, PayloadFacts DEF TypeOK, State, Reloaded
    <3> QED
      BY <1>1, <3>1, <3>2, PayloadFacts, ProcessPayloadType
  <2>2. trees' \in State
    <3>1. trees' = [s \in Asset |-> IF s \in Payloads(tx)
                                       THEN ProcessPayload(Reloaded(s), tx.payloads[s], Height[cur])
                                       ELSE trees[s]]
      BY <1>3 DEF ExecuteTx, ExecuteTransfer
    <3>2. trees \in State
      BY DEF TypeOK
    <3> HIDE DEF tx
    <3> QED
      BY <2>1, <3>1, <3>2 DEF State
  <2>3. fees' \in Nat
    <3>1. tx.payloads[Base].fee \in Nat
      BY <1>1, <1>3, TransferFacts, PayloadFacts DEF Payload
    <3> QED
      BY <1>3, <3>1 DEF TypeOK, ExecuteTx, ExecuteTransfer
  <2> QED
    BY <1>1, <1>3, <2>2, <2>3 DEF TypeOK, ExecuteTx, chain
<1> QED
  BY <1>2, <1>3

LEMMA UnlockTypes ==
    ASSUME Unlock
    PROVE  /\ pc' = "idle" /\ cur' \in Block /\ coinbase' \in Coinbase /\ txs' \in Seq(Tx)
           /\ done' \in 0..Len(txs') /\ trees' \in State /\ fees' \in Nat
<1>1. NoCoinbase \in Coinbase
  BY LedgerAssumption DEF NoCoinbase
<1> QED
  BY <1>1, LedgerAssumption, BlockTreeAssumption DEF Unlock

LEMMA RewardedType ==
    ASSUME TypeOK, Shared, pc = "execute"
    PROVE  Rewarded \in State
<1>1. ASSUME NEW a \in Account
      PROVE  [trees[Base][a] EXCEPT !.balance = @ + Reward(a)] \in Entry
  <2>1. trees[Base][a] \in Entry
    BY LedgerAssumption DEF TypeOK, State
  <2>2. Reward(a) \in Nat
    BY RewardFacts
  <2> QED
    BY <2>1, <2>2 DEF Entry
<1> QED
  BY <1>1, LedgerAssumption DEF Rewarded, TypeOK, State

LEMMA CommitTypes == TypeOK /\ Shared /\ Commit => TypeOK'
<1> SUFFICES ASSUME TypeOK, Shared, Commit PROVE TypeOK'
  OBVIOUS
<1>1. Tip(cur) \in Block
  BY BlockTreeAssumption DEF TypeOK, Tip
<1>2. pc = "execute"
  BY DEF Commit, Executed
<1> QED
  BY <1>1, <1>2, RewardedType, UnlockTypes DEF TypeOK, Commit

LEMMA PanicTypes == TypeOK /\ Panic => TypeOK'
BY UnlockTypes DEF TypeOK, Panic, chain

LEMMA NextTypes == TypeOK /\ Shared /\ [Next]_vars => TypeOK' /\ Shared'
<1> SUFFICES ASSUME TypeOK, Shared, [Next]_vars PROVE TypeOK' /\ Shared'
  OBVIOUS
<1>1. TypeOK'
  <2>1. CASE UNCHANGED vars
    BY <2>1 DEF TypeOK, vars, chain, locals
  <2> QED
    BY <2>1, BeginTypes, ExecuteTxTypes, CommitTypes, PanicTypes DEF Next
<1>2. Shared'
  <2>1. ASSUME NEW b \in Block, NEW t \in Bodies, NEW c \in Coinbase, Begin(b, t, c) PROVE Shared'
    BY <2>1 DEF Begin, Shared, Verify_MiniBlocks
  <2>2. CASE ExecuteTx
    BY <2>2 DEF ExecuteTx, Shared, Verify_MiniBlocks
  <2>3. CASE Commit \/ Panic
    BY <2>3 DEF Commit, Panic, Unlock, Shared
  <2>4. CASE UNCHANGED vars
    BY <2>4 DEF vars, locals, Shared, Verify_MiniBlocks
  <2> QED
    BY <2>1, <2>2, <2>3, <2>4 DEF Next
<1> QED
  BY <1>1, <1>2

\* Every variable keeps its type: in particular a nonce is the height of a block,
\* and fees never fall below zero.
THEOREM LedgerTypeCorrect == Spec => []TypeOK
<1>1. Init => Shared
  BY DEF Init, Shared
<1> QED
  BY <1>1, InitTypes, NextTypes, PTL DEF Spec

-----------------------------------------------------------------------------
(***************************************************************************)
(* The accounts.  A proof of a transfer is about the referred state; what  *)
(* carries it to the state it is executed on is that the nonce says of an  *)
(* entry whether its balance may have fallen (Follows), that this composes *)
(* along a branch (Carried) and through a block (Sound), and that the two  *)
(* checks on nonces leave each sender of a block untouched until its turn. *)
(* All of it ends for an account of the coin that is registered again,     *)
(* except that the account stays.                                          *)
(***************************************************************************)

\* What a later state may do to an entry: the nonce does not fall, and while it
\* stays the balance does not fall.
Follows(e, f) == e.nonce <= f.nonce /\ (e.nonce = f.nonce => e.balance <= f.balance)

\* An entry that is not there has no balance; one that is there stays.
Empty(e)    == e.nonce = NotFound => e.balance = 0
Stays(e, f) == e.nonce # NotFound => f.nonce # NotFound

\* past is the branch down to the genesis block, heights fall along it, and of two
\* blocks of a branch the lower one is below the other.
Paths ==
    /\ body[Genesis] = <<>>
    /\ \A b \in executed :
          /\ b \in past[b] /\ past[b] \subseteq executed
          /\ b = Genesis \/ Tip(b) \in executed
          /\ \A c \in past[b] : Height[c] < Height[b] \/ c = b
          /\ \A c, d \in past[b] : Height[c] <= Height[d] => c \in past[d]

\* The entries of tokens, and of accounts that were not registered again.
Original(s, a, again) == s = Base => a \notin again

Solvency ==
    \A b \in executed, s \in Asset, a \in Account :
        /\ Empty(state[b][s][a]) /\ state[b][s][a].nonce <= Height[b]
        /\ Original(s, a, RegisteredAgain(b)) => state[b][s][a].balance >= 0

Carried ==
    \A b \in executed : \A c \in past[b] : \A s \in Asset, a \in Account :
        /\ Stays(state[c][s][a], state[b][s][a])
        /\ Original(s, a, RegisteredAgain(b)) => Follows(state[c][s][a], state[b][s][a])

\* Whoever has spent on a branch has a nonce that says so, or was registered since.
Marked ==
    \A b \in executed : \A c \in past[b] : \A i \in 1..Len(body[c]) :
        ~ IsRegistration(body[c][i]) =>
            /\ body[c][i].ref \in past[c]
            /\ \/ state[b][Base][Sender(body[c][i])].nonce >= Height[c]
               \/ RegisteredSince(Sender(body[c][i]), c, b)

\* The block being executed passed the checks, against states that have not changed.
Checked ==
    /\ cur \notin executed /\ cur # Genesis
    /\ Tip(cur) \in executed /\ Height[cur] = Height[Tip(cur)] + 1
    /\ Acceptable(cur, txs)

\* None of the executed transactions spends a's balance of s.
Unspent(s, a) == \A i \in 1..done : s \in Payloads(txs[i]) => txs[i].payloads[s].sender # a

\* The addresses the first n transactions register, and those of them with an account.
Renewed(n) == {txs[i].address : i \in {j \in 1..n : IsRegistration(txs[j])}}
Again(n)   == {a \in Renewed(n) : Registered(state[Tip(cur)], a)}

\* An entry f of the trees the block is executed on, against the tip's entry e.
Sound(e, f, s, a) ==
    /\ Empty(f) /\ Stays(e, f) /\ f.nonce <= Height[cur]
    /\ Original(s, a, Again(done)) => Follows(e, f) /\ (Unspent(s, a) => e.balance <= f.balance)
    /\ Original(s, a, Again(done)) /\ Original(s, a, RegisteredAgain(Tip(cur))) => f.balance >= 0

Working ==
    pc = "execute" =>
        /\ Checked
        /\ \A s \in Asset, a \in Account : Sound(state[Tip(cur)][s][a], trees[s][a], s, a)
        /\ \A i \in 1..done : ~ IsRegistration(txs[i]) =>
              \/ trees[Base][Sender(txs[i])].nonce = Height[cur]
              \/ Sender(txs[i]) \in Renewed(done)

LedgerInv == TypeOK /\ Shared /\ Paths /\ Solvency /\ Carried /\ Marked /\ Working /\ SpendsSeeEarlierSpends

-----------------------------------------------------------------------------
\* Entries.

LEMMA FollowsTransitive ==
    ASSUME NEW e \in Entry, NEW f \in Entry, NEW g \in Entry, Follows(e, f), Follows(f, g)
    PROVE  Follows(e, g)
BY BlockTreeAssumption DEF Follows, Entry

LEMMA FollowsReflexive == ASSUME NEW e \in Entry PROVE Follows(e, e)
BY BlockTreeAssumption DEF Follows, Entry

LEMMA StateEntry ==
    ASSUME NEW tr \in State, NEW s \in Asset, NEW a \in Account
    PROVE  /\ tr[s][a] \in Entry
           /\ tr[s][a].balance \in Int /\ tr[s][a].nonce \in Int /\ tr[s][a].nonce >= NotFound
BY BlockTreeAssumption DEF State, Entry

LEMMA HeightIsNat == ASSUME NEW b \in Block PROVE Height[b] \in Nat
BY BlockTreeAssumption

-----------------------------------------------------------------------------
\* What the checks establish.

\* A ring member of an accepted transfer was registered in the referred state,
\* and is in the tip's; the referred block is on the branch.
LEMMA RefFacts ==
    ASSUME TypeOK, Paths, Carried, NEW b \in Block, Tip(b) \in executed,
           NEW tx \in Tx, NEW s \in Payloads(tx), NEW a \in tx.payloads[s].ring,
           Referable(tx, b), Verify_Transaction_NonCoinbase(tx)
    PROVE  /\ tx.ref \in past[Tip(b)] /\ tx.ref \in executed /\ a \in Account
           /\ Registered(state[tx.ref], a) /\ Registered(state[Tip(b)], a)
<1>1. tx.ref \in past[Tip(b)]
  BY DEF Referable
<1>2. tx.ref \in executed
  BY <1>1 DEF Paths
<1>3. a \in Account
  BY RingFacts
<1>4. Registered(state[tx.ref], a)
  BY DEF Verify_Transaction_NonCoinbase
<1>5. Registered(state[Tip(b)], a)
  <2>1. Base \in Asset /\ tx.ref \in Block /\ Tip(b) \in Block
    BY <1>2, LedgerAssumption DEF TypeOK
  <2>2. Stays(state[tx.ref][Base][a], state[Tip(b)][Base][a])
    BY <1>1, <1>3, <2>1 DEF Carried
  <2> QED
    BY <1>4, <2>2 DEF Registered, Stays
<1> QED
  BY <1>1, <1>2, <1>3, <1>4, <1>5

\* Two transfers of a block never spend from one account.
LEMMA SendersDiffer ==
    ASSUME TypeOK, Paths, NEW b \in Block, Tip(b) \in executed, NEW t \in Seq(Tx), Acceptable(b, t),
           NEW i \in 1..Len(t), NEW j \in 1..Len(t), i # j,
           NEW s \in Payloads(t[i]), s \in Payloads(t[j])
    PROVE  t[i].payloads[s].sender # t[j].payloads[s].sender
<1>1. ASSUME NEW k \in 1..Len(t), NEW l \in 1..Len(t), l < k, s \in Payloads(t[k]), s \in Payloads(t[l])
      PROVE  t[l].payloads[s].sender # t[k].payloads[s].sender
  <2> SUFFICES ASSUME t[l].payloads[s].sender = t[k].payloads[s].sender PROVE FALSE
    OBVIOUS
  <2>1. t[k] \in Tx /\ t[l] \in Tx
    OBVIOUS
  <2>2. Compatible(t[l], t[k])
    BY <1>1 DEF Acceptable
  <2>3. t[l].ref \in past[Tip(b)] /\ t[k].ref \in past[Tip(b)]
    BY <1>1 DEF Acceptable, Referable
  <2>4. t[k].payloads[s].sender \in t[l].payloads[s].half \cap t[k].payloads[s].half
    BY <1>1, <2>1, RingFacts
  <2>5. Height[t[l].ref] = Height[t[k].ref]
    BY <1>1, <2>2, <2>4 DEF Compatible
  <2>6. Nonce(t[l], s) # Nonce(t[k], s)
    BY <1>1, <2>2 DEF Compatible
  <2>7. t[l].ref # t[k].ref
    BY <2>6 DEF Nonce
  <2>8. t[l].ref \in Block /\ t[k].ref \in Block /\ past[Tip(b)] \subseteq executed /\ executed \subseteq Block
    BY <2>3 DEF Paths, TypeOK
  <2>9. Height[t[l].ref] \in Nat /\ Height[t[k].ref] \in Nat
    BY <2>8, HeightIsNat
  <2>10. t[l].ref \in past[t[k].ref]
    BY <2>3, <2>5, <2>9 DEF Paths
  <2>11. Height[t[l].ref] < Height[t[k].ref] \/ t[l].ref = t[k].ref
    BY <2>3, <2>8, <2>10 DEF Paths
  <2> QED
    BY <2>5, <2>7, <2>9, <2>11
<1>2. CASE i < j
  BY <1>1, <1>2
<1>3. CASE j < i
  BY <1>1, <1>3
<1> QED
  BY <1>2, <1>3

-----------------------------------------------------------------------------
\* Execution.

LEMMA WorkingFacts ==
    ASSUME TypeOK, Working, pc = "execute"
    PROVE  /\ cur \in Block /\ Tip(cur) \in Block /\ cur \notin executed /\ Tip(cur) \in executed
           /\ Height[cur] \in Nat /\ Height[Tip(cur)] \in Nat /\ Height[Tip(cur)] < Height[cur]
           /\ Height[cur] \in Position
           /\ txs \in Seq(Tx) /\ Acceptable(cur, txs)
BY BlockTreeAssumption DEF TypeOK, Working, Checked, Tip, Position

LEMMA ReloadedSound ==
    ASSUME TypeOK, Solvency, Working, pc = "execute", NEW s \in Asset, NEW a \in Account
    PROVE  /\ Reloaded(s) \in [Account -> Entry]
           /\ Sound(state[Tip(cur)][s][a], Reloaded(s)[a], s, a)
<1>1. CASE s = Base
  BY <1>1, LedgerAssumption DEF TypeOK, State, Working, Reloaded
<1>2. CASE s # Base
  <2> DEFINE e == state[Tip(cur)][s][a]
  <2>1. state[Tip(cur)] \in State
    BY WorkingFacts DEF TypeOK
  <2>2. Reloaded(s) \in [Account -> Entry] /\ Reloaded(s)[a] = e /\ e \in Entry
    BY <1>2, <2>1, StateEntry DEF Reloaded, State
  <2>3. Empty(e) /\ e.nonce <= Height[Tip(cur)] /\ (Original(s, a, RegisteredAgain(Tip(cur))) => e.balance >= 0)
    BY WorkingFacts DEF Solvency
  <2>4. e.nonce \in Int /\ e.balance \in Int
    BY <2>1, StateEntry
  <2> HIDE DEF e
  <2>5. Stays(e, e) /\ Follows(e, e) /\ e.nonce <= Height[cur] /\ e.balance <= e.balance
    BY <2>2, <2>3, <2>4, WorkingFacts, FollowsReflexive DEF Stays
  <2>6. Sound(e, e, s, a)
    BY <2>3, <2>5, Zenon DEF Sound
  <2> QED
    BY <2>2, <2>6 DEF e
<1> QED
  BY <1>1, <1>2

\* The next transfer's sender still has what the proof is about: by the check of
\* nonces it had it at the tip, and no transfer before took from it.
LEMMA SenderPays ==
    ASSUME TypeOK, Paths, Solvency, Carried, Working, pc = "execute", done < Len(txs),
           NEW s \in Payloads(txs[done + 1]),
           Original(s, txs[done + 1].payloads[s].sender, Again(done)),
           Original(s, txs[done + 1].payloads[s].sender, RegisteredAgain(Tip(cur)))
    PROVE  LET p == txs[done + 1].payloads[s]
           IN  Reloaded(s)[p.sender].balance + Change(p, p.sender) >= 0
<1> DEFINE tx == txs[done + 1]
           p  == tx.payloads[s]
           a  == p.sender
           r  == state[tx.ref][s][a]
           e  == state[Tip(cur)][s][a]
           f  == Reloaded(s)[a]
<1>1. (done + 1) \in 1..Len(txs) /\ tx \in Tx
  BY DEF TypeOK
<1>2. s \in Asset /\ p \in Payload /\ WellFormed(p) /\ a \in p.half /\ p.half \subseteq p.ring /\ a \in Account
  <2> HIDE DEF tx
  <2>1. s \in Payloads(tx)
    BY DEF tx
  <2> QED
    BY <1>1, <2>1, PayloadFacts, ChangeFacts, RingFacts
<1>3. Change(p, a) \in Int
  BY <1>2, ChangeFacts
<1>4. /\ Referable(tx, cur) /\ CheckNonce(tx, Tip(cur)) /\ Verify_Transaction_NonCoinbase(tx)
  BY <1>1, WorkingFacts DEF Acceptable
<1>5. tx.ref \in past[Tip(cur)] /\ tx.ref \in executed
  BY <1>4, WorkingFacts DEF Referable, Paths
<1>6. state[tx.ref] \in State /\ state[Tip(cur)] \in State
  BY <1>5, WorkingFacts DEF TypeOK
<1>7. r \in Entry /\ e \in Entry /\ f \in Entry /\ Sound(e, f, s, a)
  BY <1>2, <1>6, StateEntry, ReloadedSound
<1>8. Follows(r, e) /\ Empty(r) /\ e.balance >= 0
  BY <1>2, <1>5, WorkingFacts DEF Carried, Solvency
<1>9. r.nonce # NotFound => e.nonce <= r.nonce
  BY <1>2, <1>4 DEF CheckNonce
<1>10. r.balance + Change(p, a) >= 0
  BY <1>4 DEF Verify_Transaction_NonCoinbase
<1>11. Unspent(s, a)
  <2> SUFFICES ASSUME NEW i \in 1..done, s \in Payloads(txs[i]) PROVE txs[i].payloads[s].sender # a
    BY DEF Unspent
  <2>1. i \in 1..Len(txs) /\ i # done + 1
    BY DEF TypeOK
  <2> QED
    BY <1>1, <2>1, WorkingFacts, SendersDiffer
<1>12. e.balance <= f.balance
  <2>1. Original(s, a, Again(done))
    OBVIOUS
  <2> HIDE DEF a, e, f
  <2> QED
    BY <1>7, <1>11, <2>1, Zenon DEF Sound
<1> HIDE DEF a, r, e, f, p, tx
<1>13. r.balance <= e.balance
  BY <1>7, <1>8, <1>9 DEF Follows, Empty, Entry
<1>14. r.balance \in Int /\ e.balance \in Int /\ f.balance \in Int
  BY <1>7 DEF Entry
<1>15. f.balance + Change(p, a) >= 0
  BY <1>3, <1>10, <1>12, <1>13, <1>14
<1> QED
  BY <1>15 DEF a, f, p, tx

\* The entries a transfer leaves.
LEMMA TransferEntry ==
    ASSUME TypeOK, Paths, Solvency, Carried, Working, pc = "execute", done < Len(txs),
           NEW s \in Payloads(txs[done + 1]), NEW a \in Account
    PROVE  LET p == txs[done + 1].payloads[s]
               e == state[Tip(cur)][s][a]
               f == ProcessPayload(Reloaded(s), p, Height[cur])[a]
           IN  /\ Empty(f) /\ Stays(e, f) /\ f.nonce <= Height[cur]
               /\ Original(s, a, Again(done)) =>
                     Follows(e, f) /\ (Unspent(s, a) /\ a # p.sender => e.balance <= f.balance)
               /\ Original(s, a, Again(done)) /\ Original(s, a, RegisteredAgain(Tip(cur))) => f.balance >= 0
               /\ a \in p.half \/ Reloaded(s)[a].nonce = Height[cur] => f.nonce = Height[cur]
<1> DEFINE tx == txs[done + 1]
           p  == tx.payloads[s]
           e  == state[Tip(cur)][s][a]
           r  == Reloaded(s)[a]
           f  == ProcessPayload(Reloaded(s), p, Height[cur])[a]
           h  == Height[cur]
           ok == Original(s, a, Again(done))
           safe == Original(s, a, RegisteredAgain(Tip(cur)))
<1> SUFFICES /\ Empty(f) /\ Stays(e, f) /\ f.nonce <= h
             /\ ok => Follows(e, f) /\ (Unspent(s, a) /\ a # p.sender => e.balance <= f.balance)
             /\ ok /\ safe => f.balance >= 0
             /\ a \in p.half \/ r.nonce = h => f.nonce = h
  OBVIOUS
<1>1. tx \in Tx /\ s \in Payloads(tx)
  BY DEF TypeOK
<1>2. s \in Asset /\ p \in Payload /\ WellFormed(p) /\ p.sender \in p.half /\ p.half \subseteq p.ring
  <2> HIDE DEF tx
  <2> QED
    BY <1>1, PayloadFacts, RingFacts
<1>3. Change(p, a) \in Int /\ (a # p.sender => Change(p, a) >= 0)
  BY <1>2, ChangeFacts
<1>4. Sound(e, r, s, a) /\ e \in Entry /\ r \in Entry
  BY <1>2, WorkingFacts, ReloadedSound, StateEntry DEF TypeOK
<1>5. a = p.sender /\ ok /\ safe => r.balance + Change(p, a) >= 0
  BY SenderPays
<1>6. e.nonce < h /\ h \in Nat
  <2>1. e.nonce <= Height[Tip(cur)] /\ e.nonce \in Int
    BY <1>2, <1>4, WorkingFacts, StateEntry DEF Solvency, TypeOK
  <2> QED
    BY <2>1, WorkingFacts
<1>7. f = IF a \notin p.ring THEN r
          ELSE [balance |-> r.balance + Change(p, a),
                nonce   |-> IF a \in p.half THEN h ELSE IF r.nonce = NotFound THEN 0 ELSE r.nonce]
  BY DEF ProcessPayload
<1> HIDE DEF p, e, r, f, h, tx, ok, safe
<1>8. /\ e.balance \in Int /\ r.balance \in Int /\ e.nonce \in Int /\ r.nonce \in Int
      /\ e.nonce >= NotFound /\ r.nonce >= NotFound
  BY <1>4, BlockTreeAssumption DEF Entry
<1>9. /\ Empty(r) /\ Stays(e, r) /\ r.nonce <= h
      /\ ok => Follows(e, r) /\ (Unspent(s, a) => e.balance <= r.balance)
      /\ ok /\ safe => r.balance >= 0
  BY <1>4, Zenon DEF Sound, h, ok, safe
<1>10. CASE a \notin p.ring
  <2>1. f = r /\ a \notin p.half
    BY <1>2, <1>7, <1>10
  <2> QED
    BY <1>9, <2>1, Zenon
<1>11. CASE a \in p.half
  <2>1. f.balance = r.balance + Change(p, a) /\ f.nonce = h
    BY <1>2, <1>7, <1>11
  <2>2. Empty(f) /\ Stays(e, f) /\ f.nonce <= h /\ Follows(e, f)
    BY <1>6, <1>8, <2>1 DEF Empty, Stays, Follows
  <2>3. a # p.sender /\ e.balance <= r.balance => e.balance <= f.balance
    BY <1>3, <1>8, <2>1
  <2>4. r.balance >= 0 /\ (a = p.sender => r.balance + Change(p, a) >= 0) => f.balance >= 0
    BY <1>3, <1>8, <2>1
  <2> QED
    BY <1>5, <1>9, <2>1, <2>2, <2>3, <2>4, Zenon
<1>12. CASE a \in p.ring \ p.half
  <2>1. f.balance = r.balance + Change(p, a) /\ f.nonce = IF r.nonce = NotFound THEN 0 ELSE r.nonce
    BY <1>7, <1>12
  <2>2. a # p.sender
    BY <1>2, <1>12
  <2>3. Empty(f) /\ Stays(e, f) /\ f.nonce <= h
    BY <1>6, <1>8, <1>9, <2>1 DEF Empty, Stays
  <2>4. Follows(e, r) => Follows(e, f)
    BY <1>3, <1>8, <2>1, <2>2 DEF Follows
  <2>5. /\ e.balance <= r.balance => e.balance <= f.balance
        /\ r.balance >= 0 => f.balance >= 0
    BY <1>3, <1>8, <2>1, <2>2
  <2>6. r.nonce = h => f.nonce = h
    BY <1>6, <2>1
  <2>7. a \notin p.half
    BY <1>12
  <2> QED
    BY <1>9, <2>3, <2>4, <2>5, <2>6, <2>7, Zenon
<1>13. a \notin p.ring \/ a \in p.half \/ a \in p.ring \ p.half
  OBVIOUS
<1> QED
  BY <1>10, <1>11, <1>12, <1>13, Zenon

\* The entry a registration leaves, whatever was there.
LEMMA RegistrationEntry ==
    ASSUME TypeOK, Solvency, Working, pc = "execute", done < Len(txs), IsRegistration(txs[done + 1])
    PROVE  LET a == txs[done + 1].address
               e == state[Tip(cur)][Base][a]
               f == [balance |-> RegistrationBalance, nonce |-> 0]
           IN  /\ Empty(f) /\ Stays(e, f) /\ f.nonce <= Height[cur] /\ f.balance >= 0
               /\ a \notin Again(done + 1) => Follows(e, f) /\ e.balance <= f.balance
<1> DEFINE tx == txs[done + 1]
           a  == tx.address
           e  == state[Tip(cur)][Base][a]
           f  == [balance |-> RegistrationBalance, nonce |-> 0]
<1>1. (done + 1) \in 1..Len(txs) /\ tx \in Tx /\ done \in Nat
  BY DEF TypeOK
<1>2. a \in Account /\ Base \in Asset
  BY <1>1, RegistrationFacts, LedgerAssumption
<1>3. Empty(e)
  BY <1>2, WorkingFacts DEF Solvency
<1>4. RegistrationBalance \in Nat /\ Height[cur] \in Nat
  BY LedgerAssumption, WorkingFacts
<1>5. Empty(f) /\ Stays(e, f) /\ f.nonce <= Height[cur] /\ f.balance >= 0
  BY <1>4 DEF Empty, Stays
<1>6. ASSUME a \notin Again(done + 1) PROVE Follows(e, f) /\ e.balance <= f.balance
  <2>1. a \in Renewed(done + 1)
    BY <1>1 DEF Renewed
  <2>2. e.nonce = NotFound
    BY <1>6, <2>1 DEF Again, Registered
  <2>3. e.balance = 0
    BY <1>3, <2>2 DEF Empty
  <2> QED
    BY <1>4, <2>2, <2>3 DEF Follows
<1> QED
  BY <1>5, <1>6

\* More transactions executed, more addresses registered.
LEMMA RenewedGrows ==
    ASSUME NEW n \in Nat
    PROVE  /\ Renewed(n) \subseteq Renewed(n + 1) /\ Again(n) \subseteq Again(n + 1)
           /\ ~ IsRegistration(txs[n + 1]) => Renewed(n + 1) = Renewed(n) /\ Again(n + 1) = Again(n)
<1>1. Renewed(n) \subseteq Renewed(n + 1)
  BY DEF Renewed
<1>2. ASSUME ~ IsRegistration(txs[n + 1]) PROVE Renewed(n + 1) = Renewed(n)
  <2>1. \A i \in 1..(n + 1) : IsRegistration(txs[i]) => i \in 1..n
    <3>1. \A i \in 1..(n + 1) : i \in 1..n \/ i = n + 1
      OBVIOUS
    <3> QED
      BY <1>2, <3>1, Zenon
  <2>2. {j \in 1..(n + 1) : IsRegistration(txs[j])} = {j \in 1..n : IsRegistration(txs[j])}
    BY <2>1
  <2> QED
    BY <2>2 DEF Renewed
<1> QED
  BY <1>1, <1>2 DEF Again

LEMMA ExecuteTxSound ==
    ASSUME TypeOK, Paths, Solvency, Carried, Working, ExecuteTx, NEW s \in Asset, NEW a \in Account
    PROVE  Sound(state[Tip(cur)][s][a], trees[s][a], s, a)'
<1> DEFINE tx == txs[done + 1]
           e  == state[Tip(cur)][s][a]
           f  == trees[s][a]
<1>1. /\ pc = "execute" /\ done < Len(txs) /\ done' = done + 1 /\ txs' = txs
      /\ cur' = cur /\ state' = state /\ tx \in Tx /\ done \in Nat
  BY DEF ExecuteTx, TypeOK, chain
<1>2. /\ Unspent(s, a)' => Unspent(s, a)
      /\ Again(done)' = Again(done + 1) /\ Again(done) \subseteq Again(done + 1)
  BY <1>1, RenewedGrows DEF Unspent, Again, Renewed, Registered, Tip
<1>3. Sound(e, f, s, a)
  BY <1>1 DEF Working
<1> DEFINE ok   == Original(s, a, Again(done + 1))
           safe == Original(s, a, RegisteredAgain(Tip(cur)))
<1>4. /\ Empty(f') /\ Stays(e, f') /\ f'.nonce <= Height[cur]
      /\ ok => Follows(e, f') /\ (Unspent(s, a)' => e.balance <= f'.balance)
      /\ ok /\ safe => f'.balance >= 0
  <2>1. CASE f' = f
    <3>1. ok => Original(s, a, Again(done))
      BY <1>2 DEF Original
    <3>2. /\ Empty(f) /\ Stays(e, f) /\ f.nonce <= Height[cur]
          /\ Original(s, a, Again(done)) => Follows(e, f) /\ (Unspent(s, a) => e.balance <= f.balance)
          /\ Original(s, a, Again(done)) /\ safe => f.balance >= 0
      <4> HIDE DEF f, e
      <4> QED
        BY <1>3, Zenon DEF Sound
    <3> HIDE DEF f, e, ok, safe
    <3> QED
      BY <1>2, <2>1, <3>1, <3>2, Zenon
  <2>2. CASE IsRegistration(tx) /\ f' # f
    <3>1. s = Base /\ a = tx.address /\ f' = [balance |-> RegistrationBalance, nonce |-> 0]
      <4>1. trees' = [trees EXCEPT ![Base][tx.address] = [balance |-> RegistrationBalance, nonce |-> 0]]
        BY <2>2 DEF ExecuteTx, ExecuteRegistration
      <4>2. trees \in State
        BY DEF TypeOK
      <4> HIDE DEF tx
      <4> QED
        BY <2>2, <4>1, <4>2 DEF State
    <3>2. ok => a \notin Again(done + 1)
      BY <3>1 DEF Original
    <3>3. /\ Empty(f') /\ Stays(e, f') /\ f'.nonce <= Height[cur] /\ f'.balance >= 0
          /\ a \notin Again(done + 1) => Follows(e, f') /\ e.balance <= f'.balance
      BY <1>1, <2>2, <3>1, RegistrationEntry
    <3> HIDE DEF f, e, ok, safe, tx
    <3> QED
      BY <3>2, <3>3, Zenon
  <2>3. CASE ~ IsRegistration(tx) /\ f' # f
    <3>1. s \in Payloads(tx) /\ f' = ProcessPayload(Reloaded(s), tx.payloads[s], Height[cur])[a]
      <4>1. trees' = [q \in Asset |-> IF q \in Payloads(tx)
                                         THEN ProcessPayload(Reloaded(q), tx.payloads[q], Height[cur])
                                         ELSE trees[q]]
        BY <2>3 DEF ExecuteTx, ExecuteTransfer
      <4> HIDE DEF tx
      <4> QED
        BY <2>3, <4>1
    <3>2. ok => Original(s, a, Again(done))
      BY <1>2 DEF Original
    <3>3. /\ Empty(f') /\ Stays(e, f') /\ f'.nonce <= Height[cur]
          /\ Original(s, a, Again(done)) =>
                Follows(e, f') /\ (Unspent(s, a) /\ a # tx.payloads[s].sender => e.balance <= f'.balance)
          /\ Original(s, a, Again(done)) /\ safe => f'.balance >= 0
      BY <1>1, <3>1, TransferEntry, Zenon
    <3>4. Unspent(s, a)' => a # tx.payloads[s].sender
      BY <1>1, <3>1 DEF Unspent
    <3> HIDE DEF f, e, tx, ok, safe
    <3> QED
      BY <1>2, <3>2, <3>3, <3>4, Zenon
  <2> QED
    BY <2>1, <2>2, <2>3
<1>5. Tip(cur)' = Tip(cur) /\ Height[cur]' = Height[cur] /\ e' = e
  BY <1>1 DEF Tip
<1>6. RegisteredAgain(Tip(cur))' = RegisteredAgain(Tip(cur))
  BY <1>1 DEF ExecuteTx, chain, RegisteredAgain, RegisteredBy, Registered, Tip
<1>7. (Original(s, a, Again(done))' <=> ok) /\ (Original(s, a, RegisteredAgain(Tip(cur)))' <=> safe)
  BY <1>2, <1>6 DEF Original
<1> HIDE DEF ok, safe
<1> QED
  BY <1>4, <1>5, <1>7, Zenon DEF Sound

\* A sender whose transfer was executed has the block's height, and keeps it unless it
\* is registered.
LEMMA ExecuteTxMarks ==
    ASSUME TypeOK, Paths, Solvency, Carried, Working, ExecuteTx,
           NEW i \in 1..(done + 1), ~ IsRegistration(txs[i])
    PROVE  trees'[Base][Sender(txs[i])].nonce = Height[cur] \/ Sender(txs[i]) \in Renewed(done + 1)
<1> DEFINE tx == txs[done + 1]
           a  == Sender(txs[i])
<1>1. /\ pc = "execute" /\ done < Len(txs) /\ done \in Nat /\ tx \in Tx
      /\ i \in 1..Len(txs) /\ txs[i] \in Tx /\ Base \in Asset
  BY LedgerAssumption DEF ExecuteTx, TypeOK
<1>2. Base \in Payloads(txs[i]) /\ a \in Account /\ a \in txs[i].payloads[Base].half
  BY <1>1, TransferFacts, RingFacts DEF Sender
<1>3. i # done + 1 => trees[Base][a].nonce = Height[cur] \/ a \in Renewed(done + 1)
  BY <1>1, RenewedGrows DEF Working
<1> SUFFICES ASSUME a \notin Renewed(done + 1) PROVE trees'[Base][a].nonce = Height[cur]
  OBVIOUS
<1>4. CASE IsRegistration(tx)
  <2>1. trees' = [trees EXCEPT ![Base][tx.address] = [balance |-> RegistrationBalance, nonce |-> 0]]
    BY <1>4 DEF ExecuteTx, ExecuteRegistration
  <2>2. tx.address \in Renewed(done + 1)
    BY <1>1, <1>4 DEF Renewed
  <2>3. trees'[Base][a] = trees[Base][a]
    <3>1. trees \in State /\ a # tx.address
      BY <2>2 DEF TypeOK
    <3> HIDE DEF tx, a
    <3> QED
      BY <1>1, <1>2, <2>1, <3>1 DEF State
  <2>4. i # done + 1
    BY <1>4
  <2> QED
    BY <1>3, <2>3, <2>4
<1>5. CASE ~ IsRegistration(tx)
  <2>1. Base \in Payloads(tx)
    BY <1>1, <1>5, TransferFacts
  <2>2. trees'[Base][a] = ProcessPayload(Reloaded(Base), tx.payloads[Base], Height[cur])[a]
    <3>1. trees' = [q \in Asset |-> IF q \in Payloads(tx)
                                       THEN ProcessPayload(Reloaded(q), tx.payloads[q], Height[cur])
                                       ELSE trees[q]]
      BY <1>5 DEF ExecuteTx, ExecuteTransfer
    <3> HIDE DEF tx
    <3> QED
      BY <1>1, <2>1, <3>1
  <2>3. a \in tx.payloads[Base].half \/ Reloaded(Base)[a].nonce = Height[cur]
    BY <1>2, <1>3 DEF Reloaded
  <2> QED
    BY <1>1, <1>2, <2>1, <2>2, <2>3, TransferEntry
<1> QED
  BY <1>4, <1>5

LEMMA ExecuteTxWorking ==
    ASSUME TypeOK, Paths, Solvency, Carried, Working, ExecuteTx
    PROVE  Working'
<1>1. /\ pc = "execute" /\ done' = done + 1 /\ txs' = txs /\ cur' = cur /\ UNCHANGED chain
      /\ executed' = executed /\ Tip(cur)' = Tip(cur) /\ Height[cur]' = Height[cur]
  BY DEF ExecuteTx, chain, Tip
<1>2. Checked'
  <2>1. Checked
    BY <1>1 DEF Working
  <2>2. Acceptable(cur, txs)' <=> Acceptable(cur, txs)
    BY <1>1 DEF chain, Acceptable, Referable, CheckNonce, Verify_Transaction_NonCoinbase, Registered, Tip
  <2> QED
    BY <1>1, <2>1, <2>2 DEF Checked
<1>3. \A s \in Asset, a \in Account : Sound(state[Tip(cur)][s][a], trees[s][a], s, a)'
  BY ExecuteTxSound
<1>4. \A i \in 1..(done + 1) : ~ IsRegistration(txs[i]) =>
          trees'[Base][Sender(txs[i])].nonce = Height[cur] \/ Sender(txs[i]) \in Renewed(done)'
  BY <1>1, ExecuteTxMarks DEF Renewed
<1> QED
  BY <1>1, <1>2, <1>3, <1>4 DEF Working

LEMMA BeginWorking ==
    ASSUME TypeOK, Solvency, NEW b \in Block, NEW t \in Bodies, NEW c \in Coinbase, Begin(b, t, c)
    PROVE  Working'
<1>1. /\ UNCHANGED chain /\ state' = state /\ executed' = executed
      /\ cur' = b /\ txs' = t /\ done' = 0 /\ trees' = state[Tip(b)] /\ Tip(b) \in executed
      /\ Acceptable(b, t)
  BY DEF Begin, chain
<1>2. Checked'
  <2>1. b \notin executed /\ b # Genesis /\ Height[b] = Height[Tip(b)] + 1
    BY DEF Begin, WellPlaced, Tip
  <2>2. Acceptable(cur, txs)' <=> Acceptable(b, t)
    BY <1>1 DEF chain, Acceptable, Referable, CheckNonce, Verify_Transaction_NonCoinbase, Registered, Tip
  <2> QED
    BY <1>1, <2>1, <2>2 DEF Checked, Tip
<1>3. ASSUME NEW s \in Asset, NEW a \in Account
      PROVE  Sound(state[Tip(cur)][s][a], trees[s][a], s, a)'
  <2> DEFINE e == state[Tip(b)][s][a]
  <2>1. state[Tip(b)] \in State /\ Tip(b) \in Block
    BY <1>1 DEF TypeOK
  <2>2. e \in Entry /\ e.nonce \in Int /\ e.balance \in Int
    BY <2>1, StateEntry
  <2>3. Empty(e) /\ e.nonce <= Height[Tip(b)] /\ (Original(s, a, RegisteredAgain(Tip(b))) => e.balance >= 0)
    BY <1>1 DEF Solvency
  <2>4. Height[Tip(b)] <= Height[b] /\ Height[b] \in Nat /\ Height[Tip(b)] \in Nat
    BY <2>1, HeightIsNat DEF Begin, WellPlaced, Tip
  <2>5. Tip(cur)' = Tip(b) /\ Height[cur]' = Height[b] /\ state[Tip(cur)][s][a]' = e /\ trees[s][a]' = e
    BY <1>1 DEF Tip
  <2>6. RegisteredAgain(Tip(cur))' = RegisteredAgain(Tip(b))
    BY <1>1 DEF chain, RegisteredAgain, RegisteredBy, Registered, Tip
  <2>7. Original(s, a, RegisteredAgain(Tip(cur)))' <=> Original(s, a, RegisteredAgain(Tip(b)))
    BY <2>6 DEF Original
  <2> HIDE DEF e
  <2>8. Stays(e, e) /\ Follows(e, e) /\ e.nonce <= Height[b] /\ e.balance <= e.balance
    BY <2>2, <2>3, <2>4, FollowsReflexive DEF Stays
  <2> QED
    BY <2>3, <2>5, <2>7, <2>8, Zenon DEF Sound
<1> QED
  BY <1>1, <1>2, <1>3 DEF Working

-----------------------------------------------------------------------------
\* The new block.

LEMMA CommitFacts ==
    ASSUME TypeOK, Paths, Working, Commit
    PROVE  /\ pc = "execute" /\ done = Len(txs) /\ pc' = "idle"
           /\ executed' = executed \cup {cur} /\ cur \notin executed /\ cur # Genesis
           /\ state'[cur] = Rewarded /\ past'[cur] = past[Tip(cur)] \cup {cur}
           /\ body'[cur] = txs /\ miners'[cur] = coinbase
           /\ \A b \in executed : /\ state'[b] = state[b] /\ past'[b] = past[b]
                                  /\ body'[b] = body[b] /\ miners'[b] = miners[b]
                                  /\ past[b] \subseteq executed /\ b \in Block /\ b # cur
<1>1. pc = "execute"
  BY DEF Commit, Executed
<1> QED
  BY <1>1, WorkingFacts DEF Commit, Executed, Unlock, TypeOK, Paths, Working, Checked

\* What the new block registers; the blocks that were there are what they were.
LEMMA CommitRegistrations ==
    ASSUME TypeOK, Paths, Working, Commit
    PROVE  /\ \A b \in executed : RegisteredBy(b)' = RegisteredBy(b)
                                  /\ RegisteredAgain(b)' = RegisteredAgain(b)
           /\ \A b : b = cur => /\ RegisteredBy(b)' = Renewed(done)
                               /\ RegisteredAgain(b)' = RegisteredAgain(Tip(b)) \cup Again(done)
<1>1. /\ cur \in Block /\ Tip(cur) \in executed /\ done = Len(txs) /\ done \in Nat
      /\ body[Genesis] = <<>> /\ executed \subseteq Block
  BY CommitFacts, WorkingFacts DEF TypeOK, Paths
<1>2. \A b \in executed : RegisteredBy(b)' = RegisteredBy(b)
  BY CommitFacts DEF RegisteredBy
<1>3. ASSUME NEW c \in executed, NEW a \in Account, a \in RegisteredBy(c)
      PROVE  Registered(state[Tip(c)], a)' <=> Registered(state[Tip(c)], a)
  <2>1. c # Genesis
    BY <1>1, <1>3 DEF RegisteredBy
  <2>2. Tip(c) \in executed
    BY <2>1 DEF Paths
  <2> QED
    BY <2>2, CommitFacts DEF Registered, Tip
<1>4. ASSUME NEW b \in executed PROVE RegisteredAgain(b)' = RegisteredAgain(b)
  <2>1. past'[b] = past[b] /\ past[b] \subseteq executed
    BY CommitFacts
  <2> QED
    BY <1>2, <1>3, <2>1 DEF RegisteredAgain
<1>5. ASSUME NEW b, b = cur
      PROVE  /\ RegisteredBy(b)' = Renewed(done)
             /\ RegisteredAgain(b)' = RegisteredAgain(Tip(b)) \cup Again(done)
  <2>1. body'[b] = txs /\ past'[b] = past[Tip(b)] \cup {b} /\ Tip(b) \in executed
    BY <1>1, <1>5, CommitFacts
  <2>2. RegisteredBy(b)' = Renewed(done)
    BY <1>1, <2>1 DEF RegisteredBy, Renewed
  <2>3. \A a \in Account : Registered(state[Tip(b)], a)' <=> Registered(state[Tip(b)], a)
    BY <2>1, CommitFacts DEF Registered, Tip
  <2>4. Renewed(done) \subseteq Account
    <3>1. \A j \in 1..done : IsRegistration(txs[j]) => txs[j].address \in Account
      BY <1>1, RegistrationFacts DEF TypeOK
    <3> QED
      BY <3>1 DEF Renewed
  <2>5. ASSUME NEW a \in Account
        PROVE  a \in RegisteredAgain(b)' <=> a \in RegisteredAgain(Tip(b)) \/ a \in Again(done)
    <3>1. a \in RegisteredAgain(b)'
            <=> \E c \in past[Tip(b)] \cup {b} : a \in RegisteredBy(c)' /\ Registered(state[Tip(c)], a)'
      BY <2>1 DEF RegisteredAgain
    <3>2. a \in RegisteredAgain(Tip(b)) <=> \E c \in past[Tip(b)] : a \in RegisteredBy(c) /\ Registered(state[Tip(c)], a)
      BY DEF RegisteredAgain
    <3>3. \A c \in past[Tip(b)] : c \in executed
      BY <2>1, CommitFacts
    <3>4. \A c \in past[Tip(b)] : (a \in RegisteredBy(c)' /\ Registered(state[Tip(c)], a)')
                                  <=> (a \in RegisteredBy(c) /\ Registered(state[Tip(c)], a))
      BY <1>2, <1>3, <3>3
    <3>5. a \in RegisteredBy(b)' /\ Registered(state[Tip(b)], a)' <=> a \in Again(done)
      BY <1>5, <2>2, <2>3 DEF Again
    <3> QED
      BY <3>1, <3>2, <3>4, <3>5
  <2>6. RegisteredAgain(b)' \subseteq Account /\ RegisteredAgain(Tip(b)) \subseteq Account /\ Again(done) \subseteq Account
    BY <2>4 DEF RegisteredAgain, Again
  <2> QED
    BY <2>2, <2>5, <2>6
<1> QED
  BY <1>2, <1>4, <1>5

LEMMA CommitPaths ==
    ASSUME TypeOK, Paths, Working, Commit
    PROVE  Paths'
<1>1. cur \in Block /\ Tip(cur) \in executed /\ Height[Tip(cur)] < Height[cur]
  BY CommitFacts, WorkingFacts
<1>2. \A c \in executed \cup {cur} : Height[c] \in Nat
  BY <1>1, HeightIsNat DEF TypeOK
<1>3. \A c \in past[Tip(cur)] : c \in executed /\ Height[c] < Height[cur]
  BY <1>1, <1>2 DEF Paths
<1> SUFFICES ASSUME NEW b \in executed'
             PROVE  /\ b \in past'[b] /\ past'[b] \subseteq executed'
                    /\ b = Genesis \/ Tip(b) \in executed'
                    /\ \A c \in past'[b] : Height[c] < Height[b] \/ c = b
                    /\ \A c, d \in past'[b] : Height[c] <= Height[d] => c \in past'[d]
  <2>1. body'[Genesis] = <<>>
    BY DEF Paths, Commit, TypeOK, Working, Checked, Executed
  <2> QED
    BY <2>1 DEF Paths, Tip
<1>4. CASE b = cur
  <2>1. b \in past'[b] /\ past'[b] \subseteq executed' /\ Tip(b) \in executed'
    BY <1>1, <1>3, <1>4, CommitFacts
  <2>2. \A c \in past'[b] : Height[c] < Height[b] \/ c = b
    BY <1>3, <1>4, CommitFacts
  <2>3. ASSUME NEW c \in past'[b], NEW d \in past'[b], Height[c] <= Height[d]
        PROVE  c \in past'[d]
    <3>1. CASE d = cur
      BY <1>4, <3>1
    <3>2. CASE d # cur
      <4>1. d \in past[Tip(cur)] /\ d \in executed
        BY <1>3, <1>4, <3>2, CommitFacts
      <4>2. Height[d] < Height[cur] /\ c # cur
        BY <1>2, <1>3, <2>3, <4>1
      <4>3. c \in past[Tip(cur)]
        BY <1>4, <4>2, CommitFacts
      <4> QED
        BY <1>1, <2>3, <4>1, <4>3, CommitFacts DEF Paths
    <3> QED
      BY <3>1, <3>2
  <2> QED
    BY <2>1, <2>2, <2>3
<1>5. CASE b \in executed
  <2>1. past'[b] = past[b] /\ past[b] \subseteq executed /\ \A d \in past[b] : past'[d] = past[d]
    BY <1>5, CommitFacts
  <2> QED
    BY <1>5, <2>1, CommitFacts DEF Paths
<1> QED
  BY <1>4, <1>5, CommitFacts

\* Only miners who have an account are rewarded.
LEMMA UnregisteredEarnNothing ==
    ASSUME TypeOK, Shared, pc = "execute", MinersThere, NEW a \in Account, ~ Registered(trees, a)
    PROVE  Reward(a) = 0
<1> DEFINE full  == CalcBlockReward(Height[cur]) + fees
           n     == Len(coinbase.voters)
           share == Share(full, coinbase)
<1>1. a # coinbase.integrator /\ {i \in 1..n : coinbase.voters[i] = a} = {}
  BY DEF MinersThere
<1>2. Cardinality({i \in 1..n : coinbase.voters[i] = a}) = 0
  BY <1>1, FS_EmptySet
<1>3. share \in Int
  BY ShareFacts
<1>4. Reward(a) = 0 + share * Cardinality({i \in 1..n : coinbase.voters[i] = a})
  BY <1>1 DEF Reward
<1> HIDE DEF share
<1> QED
  BY <1>2, <1>3, <1>4

\* What the new state has of an entry: what execution left, and the rewards.
LEMMA RewardedFollows ==
    ASSUME TypeOK, Shared, Paths, Working, Commit, NEW s \in Asset, NEW a \in Account
    PROVE  LET e == state[Tip(cur)][s][a]
               f == Rewarded[s][a]
           IN  /\ e \in Entry /\ f \in Entry /\ f.nonce = trees[s][a].nonce
               /\ Empty(f) /\ Stays(e, f) /\ f.nonce <= Height[cur]
               /\ Original(s, a, Again(done)) => Follows(e, f)
               /\ Original(s, a, Again(done)) /\ Original(s, a, RegisteredAgain(Tip(cur))) => f.balance >= 0
<1> DEFINE e == state[Tip(cur)][s][a]
           f == Rewarded[s][a]
           t == trees[s][a]
           ok   == Original(s, a, Again(done))
           safe == Original(s, a, RegisteredAgain(Tip(cur)))
<1>1. pc = "execute"
  BY DEF Commit, Executed
<1>2. e \in Entry /\ f \in Entry /\ t \in Entry
  BY <1>1, WorkingFacts, RewardedType, StateEntry DEF TypeOK
<1>3. Sound(e, t, s, a)
  BY <1>1 DEF Working
<1>4. /\ Empty(t) /\ Stays(e, t) /\ t.nonce <= Height[cur]
      /\ ok => Follows(e, t)
      /\ ok /\ safe => t.balance >= 0
  <2> HIDE DEF e, t
  <2> QED
    BY <1>3, Zenon DEF Sound
<1>5. /\ f.nonce = t.nonce /\ f.balance >= t.balance
      /\ t.nonce = NotFound => f.balance = t.balance
  <2>1. Base \in Asset /\ trees \in State
    BY LedgerAssumption DEF TypeOK
  <2>2. CASE s # Base
    <3>1. f = t
      BY <2>1, <2>2 DEF Rewarded, State
    <3> HIDE DEF f, t
    <3> QED
      BY <1>2, <3>1 DEF Entry
  <2>3. CASE s = Base
    <3>1. f = [t EXCEPT !.balance = @ + Reward(a)]
      BY <2>1, <2>3 DEF Rewarded, State
    <3>2. Reward(a) \in Nat
      BY <1>1, RewardFacts
    <3>3. t.nonce = NotFound => Reward(a) = 0
      BY <1>1, <2>3, UnregisteredEarnNothing DEF Commit, Registered
    <3> HIDE DEF f, t
    <3> QED
      BY <1>2, <3>1, <3>2, <3>3 DEF Entry
  <2> QED
    BY <2>2, <2>3
<1> SUFFICES /\ e \in Entry /\ f \in Entry /\ f.nonce = t.nonce
             /\ Empty(f) /\ Stays(e, f) /\ f.nonce <= Height[cur]
             /\ ok => Follows(e, f)
             /\ ok /\ safe => f.balance >= 0
  OBVIOUS
<1> HIDE DEF e, f, t, ok, safe
<1>6. /\ e.balance \in Int /\ f.balance \in Int /\ t.balance \in Int
      /\ e.nonce \in Int /\ f.nonce \in Int /\ t.nonce \in Int
  BY <1>2, BlockTreeAssumption DEF Entry
<1>7. Empty(f) /\ Stays(e, f) /\ (Follows(e, t) => Follows(e, f)) /\ (t.balance >= 0 => f.balance >= 0)
  BY <1>4, <1>5, <1>6 DEF Empty, Stays, Follows
<1> QED
  BY <1>2, <1>4, <1>5, <1>7, Zenon

LEMMA CommitStates ==
    ASSUME TypeOK, Shared, Paths, Solvency, Carried, Working, Commit
    PROVE  Solvency' /\ Carried'
<1>1. cur \in Block /\ Tip(cur) \in executed
  BY CommitFacts, WorkingFacts
<1>2. ASSUME NEW b, b = cur, NEW s \in Asset, NEW a \in Account, Original(s, a, RegisteredAgain(b)')
      PROVE  Original(s, a, Again(done)) /\ Original(s, a, RegisteredAgain(Tip(b)))
  BY <1>2, CommitRegistrations DEF Original
<1>3. Solvency'
  <2> SUFFICES ASSUME NEW b \in executed', NEW s \in Asset, NEW a \in Account
               PROVE  /\ Empty(state'[b][s][a]) /\ state'[b][s][a].nonce <= Height[b]
                      /\ Original(s, a, RegisteredAgain(b)') => state'[b][s][a].balance >= 0
    BY DEF Solvency, Empty, Original
  <2>1. CASE b = cur
    BY <1>2, <2>1, CommitFacts, RewardedFollows
  <2>2. CASE b \in executed
    BY <2>2, CommitFacts, CommitRegistrations DEF Solvency
  <2> QED
    BY <2>1, <2>2, CommitFacts
<1>4. Carried'
  <2> SUFFICES ASSUME NEW b \in executed', NEW c \in past'[b], NEW s \in Asset, NEW a \in Account
               PROVE  /\ Stays(state'[c][s][a], state'[b][s][a])
                      /\ Original(s, a, RegisteredAgain(b)') => Follows(state'[c][s][a], state'[b][s][a])
    BY DEF Carried, Stays, Follows, Original
  <2>1. CASE b = cur /\ c = cur
    BY <2>1, CommitFacts, RewardedFollows, FollowsReflexive DEF Stays
  <2>2. CASE b = cur /\ c # cur
    <3>1. c \in past[Tip(cur)] /\ c \in executed /\ state'[c] = state[c] /\ state'[b] = Rewarded
      BY <1>1, <2>2, CommitFacts
    <3>2. /\ Stays(state[c][s][a], state[Tip(cur)][s][a])
          /\ Original(s, a, RegisteredAgain(Tip(cur))) => Follows(state[c][s][a], state[Tip(cur)][s][a])
      BY <1>1, <3>1 DEF Carried
    <3>3. state[c][s][a] \in Entry
      BY <3>1, CommitFacts, StateEntry DEF TypeOK
    <3>4. Stays(state[c][s][a], Rewarded[s][a])
      BY <3>2, RewardedFollows DEF Stays
    <3>5. ASSUME Original(s, a, RegisteredAgain(b)') PROVE Follows(state[c][s][a], Rewarded[s][a])
      BY <1>2, <2>2, <3>2, <3>3, <3>5, RewardedFollows, FollowsTransitive
    <3> QED
      BY <3>1, <3>4, <3>5
  <2>3. CASE b \in executed
    <3>1. c \in past[b] /\ c \in executed /\ state'[c] = state[c] /\ state'[b] = state[b]
      BY <2>3, CommitFacts
    <3>2. RegisteredAgain(b)' = RegisteredAgain(b)
      BY <2>3, CommitRegistrations
    <3> QED
      BY <2>3, <3>1, <3>2 DEF Carried
  <2> QED
    BY <2>1, <2>2, <2>3, CommitFacts
<1> QED
  BY <1>3, <1>4

\* A registration on a branch stays on it.
LEMMA SinceStays ==
    ASSUME TypeOK, Paths, Working, Commit, NEW a, NEW c \in executed
    PROVE  /\ \A b \in executed : RegisteredSince(a, c, b)' <=> RegisteredSince(a, c, b)
           /\ \A b : b = cur /\ c \in past[Tip(b)] /\ (RegisteredSince(a, c, Tip(b)) \/ a \in Renewed(done))
                     => RegisteredSince(a, c, b)'
<1>1. Tip(cur) \in executed
  BY CommitFacts, WorkingFacts
<1>2. ASSUME NEW b \in executed PROVE RegisteredSince(a, c, b)' <=> RegisteredSince(a, c, b)
  <2>1. past'[b] = past[b] /\ past[b] \subseteq executed
    BY CommitFacts
  <2>2. \A d \in past[b] : past'[d] = past[d] /\ RegisteredBy(d)' = RegisteredBy(d)
    BY <2>1, CommitFacts, CommitRegistrations
  <2> QED
    BY <2>1, <2>2 DEF RegisteredSince
<1>3. ASSUME NEW b, b = cur, c \in past[Tip(b)], RegisteredSince(a, c, Tip(b)) \/ a \in Renewed(done)
      PROVE  RegisteredSince(a, c, b)'
  <2>1. past'[b] = past[Tip(b)] \cup {b} /\ RegisteredBy(b)' = Renewed(done)
    BY <1>3, CommitFacts, CommitRegistrations
  <2>2. CASE a \in Renewed(done)
    BY <1>3, <2>1, <2>2 DEF RegisteredSince
  <2>3. CASE RegisteredSince(a, c, Tip(b))
    <3>1. PICK d \in past[Tip(b)] : c \in past[d] /\ a \in RegisteredBy(d)
      BY <2>3 DEF RegisteredSince
    <3>2. d \in executed /\ past'[d] = past[d] /\ RegisteredBy(d)' = RegisteredBy(d)
      BY <1>1, <1>3, <3>1, CommitFacts, CommitRegistrations
    <3> QED
      BY <2>1, <3>1, <3>2 DEF RegisteredSince
  <2> QED
    BY <1>3, <2>2, <2>3
<1> QED
  BY <1>2, <1>3

LEMMA CommitMarked ==
    ASSUME TypeOK, Shared, Paths, Solvency, Carried, Marked, Working, Commit
    PROVE  Marked'
<1>1. /\ pc = "execute" /\ done = Len(txs) /\ txs \in Seq(Tx) /\ Acceptable(cur, txs)
      /\ Tip(cur) \in executed /\ cur \in Block
  BY CommitFacts, WorkingFacts
<1> SUFFICES ASSUME NEW b \in executed', NEW c \in past'[b], NEW i \in 1..Len(body'[c]),
                    NEW tx, tx = body'[c][i], ~ IsRegistration(tx), NEW a, a = Sender(tx)
             PROVE  /\ tx.ref \in past'[c]
                    /\ state'[b][Base][a].nonce >= Height[c] \/ RegisteredSince(a, c, b)'
  BY DEF Marked, Sender, RegisteredSince
<1>2. CASE b = cur /\ c = cur
  <2>1. tx = txs[i] /\ i \in 1..Len(txs) /\ tx \in Tx
    BY <1>1, <1>2, CommitFacts
  <2>2. Base \in Payloads(tx) /\ Base \in Asset
    BY <2>1, TransferFacts, LedgerAssumption
  <2>3. a \in Account
    BY <2>1, <2>2, RingFacts DEF Sender
  <2>4. tx.ref \in past[Tip(cur)]
    BY <1>1, <2>1, <2>2 DEF Acceptable, Referable
  <2>5. trees[Base][a].nonce = Height[cur] \/ a \in Renewed(done)
    BY <1>1, <2>1 DEF Working
  <2>6. CASE trees[Base][a].nonce = Height[cur]
    <3>1. state'[b][Base][a].nonce = Height[cur]
      BY <1>2, <2>2, <2>3, <2>6, CommitFacts, RewardedFollows
    <3> QED
      BY <1>1, <1>2, <2>4, <3>1, CommitFacts, HeightIsNat
  <2>7. CASE a \in Renewed(done)
    <3>1. RegisteredSince(a, c, b)'
      BY <1>2, <2>7, CommitFacts, CommitRegistrations DEF RegisteredSince
    <3> QED
      BY <1>2, <2>4, <3>1, CommitFacts
  <2> QED
    BY <2>5, <2>6, <2>7
<1>3. CASE b = cur /\ c # cur
  <2>1. c \in past[Tip(cur)] /\ c \in executed /\ body'[c] = body[c] /\ past'[c] = past[c] /\ c \in Block
    BY <1>1, <1>3, CommitFacts
  <2>2. tx.ref \in past[c] /\ (state[Tip(cur)][Base][a].nonce >= Height[c] \/ RegisteredSince(a, c, Tip(cur)))
    BY <1>1, <2>1 DEF Marked
  <2>3. tx \in Tx /\ Base \in Payloads(tx) /\ a \in Account /\ Base \in Asset
    <3>1. tx \in Tx /\ ~ IsRegistration(tx)
      BY <2>1 DEF TypeOK
    <3>2. Base \in Payloads(tx)
      BY <3>1, TransferFacts
    <3> QED
      BY <3>1, <3>2, RingFacts, LedgerAssumption DEF Sender
  <2>4. RegisteredSince(a, c, Tip(cur)) \/ a \in Renewed(done) => RegisteredSince(a, c, b)'
    BY <1>3, <2>1, SinceStays
  <2> SUFFICES ASSUME a \notin Renewed(done), state[Tip(cur)][Base][a].nonce >= Height[c]
               PROVE  state'[b][Base][a].nonce >= Height[c]
    BY <2>1, <2>2, <2>4
  <2> DEFINE e == state[Tip(cur)][Base][a]
             f == Rewarded[Base][a]
  <2>5. Original(Base, a, Again(done))
    BY DEF Original, Again
  <2>6. e \in Entry /\ f \in Entry /\ Follows(e, f) /\ state'[b][Base][a] = f
    BY <1>3, <2>3, <2>5, CommitFacts, RewardedFollows
  <2>7. e.nonce \in Int /\ f.nonce \in Int /\ e.nonce <= f.nonce
    <3> HIDE DEF e, f
    <3> QED
      BY <2>6, BlockTreeAssumption DEF Entry, Follows
  <2>8. Height[c] \in Nat /\ e.nonce >= Height[c]
    BY <2>1, HeightIsNat
  <2>9. f.nonce >= Height[c]
    <3> HIDE DEF e, f
    <3> QED
      BY <2>7, <2>8
  <2> QED
    BY <2>6, <2>9
<1>4. CASE b \in executed
  <2>1. /\ c \in past[b] /\ c \in executed /\ body'[c] = body[c] /\ past'[c] = past[c]
        /\ state'[b] = state[b]
    BY <1>4, CommitFacts
  <2>2. RegisteredSince(a, c, b)' <=> RegisteredSince(a, c, b)
    BY <1>4, <2>1, SinceStays
  <2> QED
    BY <1>4, <2>1, <2>2 DEF Marked
<1> QED
  BY <1>2, <1>3, <1>4, CommitFacts

LEMMA CommitSpends ==
    ASSUME TypeOK, Shared, Paths, Solvency, Carried, Marked, SpendsSeeEarlierSpends, Working, Commit
    PROVE  SpendsSeeEarlierSpends'
<1>1. /\ pc = "execute" /\ txs \in Seq(Tx) /\ Acceptable(cur, txs)
      /\ Tip(cur) \in executed /\ Tip(cur) \in Block /\ cur \in Block
  BY CommitFacts, WorkingFacts
<1>2. \A c \in executed : Spenders(c)' = Spenders(c)
  BY CommitFacts DEF Spenders
<1> SUFFICES ASSUME NEW b \in executed', NEW i \in 1..Len(body'[b]),
                    NEW tx, tx = body'[b][i], ~ IsRegistration(tx), NEW a, a = Sender(tx)
             PROVE  /\ \A j \in 1..Len(body'[b]) :
                          i # j /\ ~ IsRegistration(body'[b][j]) => Sender(body'[b][j]) # a
                    /\ \A c \in past'[b] \ {b} :
                          a \in Spenders(c)' => c \in past'[tx.ref] \/ RegisteredSince(a, c, Tip(b))'
  BY DEF SpendsSeeEarlierSpends, Sender, RegisteredSince, Tip
<1>3. CASE b = cur
  <2>1. body'[b] = txs /\ tx = txs[i] /\ i \in 1..Len(txs) /\ tx \in Tx
    BY <1>1, <1>3, CommitFacts
  <2>2. Base \in Payloads(tx) /\ a \in tx.payloads[Base].half /\ a \in tx.payloads[Base].ring
        /\ a \in Account /\ Base \in Asset
    BY <2>1, TransferFacts, RingFacts, LedgerAssumption DEF Sender
  <2>3. ASSUME NEW j \in 1..Len(txs), i # j, ~ IsRegistration(txs[j])
        PROVE  Sender(txs[j]) # a
    <3>1. txs[j] \in Tx /\ Base \in Payloads(txs[j])
      BY <1>1, <2>3, TransferFacts
    <3> QED
      BY <1>1, <2>1, <2>2, <2>3, <3>1, SendersDiffer DEF Sender
  <2>4. ASSUME NEW c \in past'[b] \ {b}, a \in Spenders(c)'
        PROVE  c \in past'[tx.ref] \/ RegisteredSince(a, c, Tip(b))'
    <3>1. c \in past[Tip(cur)] /\ c \in executed
      BY <1>1, <1>3, CommitFacts
    <3>2. a \in Spenders(c)
      BY <1>2, <2>4, <3>1
    <3>3. PICK k \in 1..Len(body[c]) : ~ IsRegistration(body[c][k]) /\ a = Sender(body[c][k])
      BY <3>2 DEF Spenders
    <3>12. RegisteredSince(a, c, Tip(b))' <=> RegisteredSince(a, c, Tip(cur))
      BY <1>1, <1>3, <3>1, SinceStays
    <3> SUFFICES ASSUME ~ RegisteredSince(a, c, Tip(cur)) PROVE c \in past'[tx.ref]
      BY <3>12
    <3>4. state[Tip(cur)][Base][a].nonce >= Height[c]
      BY <1>1, <3>1, <3>3 DEF Marked
    <3>5. Referable(tx, cur) /\ CheckNonce(tx, Tip(cur)) /\ Verify_Transaction_NonCoinbase(tx)
      BY <1>1, <2>1 DEF Acceptable
    <3>6. tx.ref \in past[Tip(cur)] /\ tx.ref \in executed /\ Registered(state[tx.ref], a)
      BY <1>1, <2>1, <2>2, <3>5, RefFacts
    <3>7. state[Tip(cur)][Base][a].nonce <= state[tx.ref][Base][a].nonce
      BY <2>2, <3>5, <3>6 DEF CheckNonce, Registered
    <3>8. state[tx.ref][Base][a].nonce <= Height[tx.ref]
      BY <2>2, <3>6 DEF Solvency
    <3>9. /\ state[Tip(cur)][Base][a].nonce \in Int /\ state[tx.ref][Base][a].nonce \in Int
          /\ Height[c] \in Nat /\ Height[tx.ref] \in Nat
      BY <1>1, <2>2, <3>1, <3>6, StateEntry, HeightIsNat DEF TypeOK
    <3>10. Height[c] <= Height[tx.ref]
      <4> DEFINE m == state[Tip(cur)][Base][a].nonce
                 n == state[tx.ref][Base][a].nonce
                 h == Height[tx.ref]
                 l == Height[c]
      <4> SUFFICES l <= h
        OBVIOUS
      <4>1. m \in Int /\ n \in Int /\ h \in Nat /\ l \in Nat
        BY <3>9
      <4>2. m >= l /\ m <= n /\ n <= h
        BY <3>4, <3>7, <3>8
      <4> HIDE DEF m, n, h, l
      <4> QED
        BY <4>1, <4>2
    <3>11. c \in past[tx.ref]
      BY <1>1, <3>1, <3>6, <3>10 DEF Paths
    <3> QED
      BY <3>6, <3>11, CommitFacts
  <2> QED
    BY <2>1, <2>3, <2>4
<1>4. CASE b \in executed
  <2>1. body'[b] = body[b] /\ past'[b] = past[b] /\ past[b] \subseteq executed /\ b \in past[b]
    BY <1>4, CommitFacts DEF Paths
  <2>2. tx.ref \in past[b]
    BY <1>4, <2>1 DEF Marked
  <2>3. past'[tx.ref] = past[tx.ref]
    BY <2>1, <2>2, CommitFacts
  <2>4. \A c \in past[b] : Spenders(c)' = Spenders(c)
    BY <1>2, <2>1
  <2>5. \A c \in past[b] \ {b} : RegisteredSince(a, c, Tip(b))' <=> RegisteredSince(a, c, Tip(b))
    <3> SUFFICES ASSUME NEW c \in past[b] \ {b} PROVE RegisteredSince(a, c, Tip(b))' <=> RegisteredSince(a, c, Tip(b))
      OBVIOUS
    <3>1. CASE Tip(b) \in executed
      BY <2>1, <3>1, SinceStays
    <3>2. CASE b = Genesis
      BY <2>1, <3>2 DEF Paths
    <3> QED
      BY <1>4, <3>1, <3>2 DEF Paths
  <2> QED
    BY <1>4, <2>1, <2>3, <2>4, <2>5 DEF SpendsSeeEarlierSpends
<1> QED
  BY <1>3, <1>4, CommitFacts

-----------------------------------------------------------------------------
\* The invariant.

LEMMA InitInv == Init => LedgerInv
<1> SUFFICES ASSUME Init PROVE LedgerInv
  OBVIOUS
<1>1. TypeOK
  BY InitTypes
<1>2. /\ executed = {Genesis} /\ past[Genesis] = {Genesis} /\ body[Genesis] = <<>>
      /\ state[Genesis] = RootState /\ pc = "idle" /\ Height[Genesis] = 0
  BY BlockTreeAssumption DEF Init
<1>3. Paths
  BY <1>2 DEF Paths
<1>4. Solvency
  <2> SUFFICES ASSUME NEW s \in Asset, NEW a \in Account
               PROVE  Empty(RootState[s][a]) /\ RootState[s][a].nonce <= 0 /\ RootState[s][a].balance >= 0
    BY <1>2 DEF Solvency
  <2> DEFINE e == RootState[s][a]
  <2>1. e.nonce <= 0 /\ e.balance >= 0 /\ (e.nonce = NotFound => e = Absent)
    BY LedgerAssumption
  <2> HIDE DEF e
  <2>2. Empty(e) /\ e.nonce <= 0 /\ e.balance >= 0
    BY <2>1 DEF Empty, Absent
  <2> QED
    BY <2>2 DEF e
<1>5. Carried
  BY <1>2, LedgerAssumption, StateEntry, FollowsReflexive DEF Carried, Stays
<1>6. Marked /\ SpendsSeeEarlierSpends
  BY <1>2 DEF Marked, SpendsSeeEarlierSpends
<1>7. Working
  BY <1>2 DEF Working
<1>8. Shared
  BY <1>2 DEF Shared
<1> QED
  BY <1>1, <1>8, <1>3, <1>4, <1>5, <1>6, <1>7 DEF LedgerInv

\* Everything but Commit leaves the chain alone.
LEMMA ChainStays ==
    ASSUME UNCHANGED chain, Paths, Solvency, Carried, Marked, SpendsSeeEarlierSpends
    PROVE  (Paths /\ Solvency /\ Carried /\ Marked /\ SpendsSeeEarlierSpends)'
<1>1. UNCHANGED <<executed, state, past, body>>
  BY DEF chain
<1>2. \A b : RegisteredBy(b)' = RegisteredBy(b)
  BY <1>1 DEF RegisteredBy
<1>3. \A b : RegisteredAgain(b)' = RegisteredAgain(b)
  BY <1>1, <1>2 DEF RegisteredAgain, Registered, Tip
<1>4. Paths'
  BY <1>1 DEF Paths, Tip
<1>5. Solvency' /\ Carried'
  BY <1>1, <1>3 DEF Solvency, Carried, Empty, Stays, Follows, Original
<1>6. \A a, c, b : RegisteredSince(a, c, b)' <=> RegisteredSince(a, c, b)
  BY <1>1, <1>2 DEF RegisteredSince
<1>7. Marked'
  BY <1>1, <1>6 DEF Marked, Sender
<1>8. \A b : Spenders(b)' = Spenders(b)
  BY <1>1 DEF Spenders
<1>9. SpendsSeeEarlierSpends'
  BY <1>1, <1>6, <1>8 DEF SpendsSeeEarlierSpends, Sender, Tip
<1> QED
  BY <1>4, <1>5, <1>7, <1>9

LEMMA NextInv == LedgerInv /\ [Next]_vars => LedgerInv'
<1> SUFFICES ASSUME LedgerInv, [Next]_vars PROVE LedgerInv'
  OBVIOUS
<1> USE DEF LedgerInv
<1>1. TypeOK' /\ Shared'
  BY NextTypes
<1>2. ASSUME NEW b \in Block, NEW t \in Bodies, NEW c \in Coinbase, Begin(b, t, c)
      PROVE  LedgerInv'
  <2>1. UNCHANGED chain
    BY <1>2 DEF Begin
  <2> QED
    BY <1>1, <1>2, <2>1, ChainStays, BeginWorking
<1>3. CASE ExecuteTx
  <2>1. UNCHANGED chain
    BY <1>3 DEF ExecuteTx
  <2> QED
    BY <1>1, <1>3, <2>1, ChainStays, ExecuteTxWorking
<1>4. CASE Commit
  <2>1. Working'
    BY <1>4, CommitFacts DEF Working
  <2> QED
    BY <1>1, <1>4, <2>1, CommitPaths, CommitStates, CommitMarked, CommitSpends
<1>5. CASE Panic
  <2>1. UNCHANGED chain /\ pc' = "idle"
    BY <1>5 DEF Panic, Unlock
  <2> QED
    BY <1>1, <2>1, ChainStays DEF Working
<1>6. CASE UNCHANGED vars
  <2>1. UNCHANGED chain
    BY <1>6 DEF vars
  <2>2. Working'
    <3>1. UNCHANGED <<executed, state, past, body, pc, cur, txs, done, trees>>
      BY <1>6 DEF vars, chain, locals
    <3>2. RegisteredAgain(Tip(cur))' = RegisteredAgain(Tip(cur))
      BY <3>1 DEF RegisteredAgain, RegisteredBy, Registered, Tip
    <3>3. Again(done)' = Again(done) /\ Renewed(done)' = Renewed(done)
      BY <3>1 DEF Again, Renewed, Registered, Tip
    <3>4. Checked' <=> Checked
      BY <3>1 DEF Checked, Acceptable, Referable, CheckNonce, Verify_Transaction_NonCoinbase, Registered, Tip
    <3>5. \A s \in Asset, a \in Account :
             Sound(state[Tip(cur)][s][a], trees[s][a], s, a)' <=> Sound(state[Tip(cur)][s][a], trees[s][a], s, a)
      BY <3>1, <3>2, <3>3 DEF Sound, Unspent, Original, Tip
    <3> QED
      BY <3>1, <3>3, <3>4, <3>5 DEF Working
  <2> QED
    BY <1>1, <2>1, <2>2, ChainStays
<1> QED
  BY <1>2, <1>3, <1>4, <1>5, <1>6 DEF Next

LEMMA Invariant == Spec => []LedgerInv
BY InitInv, NextInv, PTL DEF Spec

\* No account ever owes on any branch, whatever transfers are made against
\* whatever states: the balance a proof is about is still there when a block
\* that passed the checks executes it.  Only the coin of an account that was
\* registered again may be overdrawn.
THEOREM NoAccountOwes == Spec => []NoOverdraft
<1>1. LedgerInv => NoOverdraft
  BY DEF LedgerInv, Solvency, Original, NoOverdraft
<1> QED
  BY <1>1, Invariant, PTL

\* One transfer of a sender a block, and each made in the knowledge of those
\* before it on the branch, as long as the sender is not registered again.
THEOREM NothingIsSpentTwice == Spec => []SpendsSeeEarlierSpends
<1>1. LedgerInv => SpendsSeeEarlierSpends
  BY DEF LedgerInv
<1> QED
  BY <1>1, Invariant, PTL

\* The ring a transfer was made against is there when it is executed, and stays:
\* execution does not panic on an account that the checks found.
THEOREM RingsAreThere == Spec => []RingIsThere
<1>1. LedgerInv => RingIsThere
  <2> SUFFICES ASSUME LedgerInv, pc = "execute", NEW i \in 1..Len(txs), NEW s \in Payloads(txs[i]),
                      NEW a \in txs[i].payloads[s].ring
               PROVE  Registered(trees, a)
    BY DEF RingIsThere
  <2> USE DEF LedgerInv
  <2>1. txs[i] \in Tx /\ Base \in Asset
    BY LedgerAssumption DEF TypeOK
  <2>2. Referable(txs[i], cur) /\ Verify_Transaction_NonCoinbase(txs[i])
    BY WorkingFacts DEF Acceptable
  <2>3. a \in Account /\ Registered(state[Tip(cur)], a)
    BY <2>1, <2>2, WorkingFacts, RefFacts
  <2> DEFINE e == state[Tip(cur)][Base][a]
             f == trees[Base][a]
  <2>4. e.nonce # NotFound
    BY <2>3 DEF Registered
  <2>5. Sound(e, f, Base, a)
    BY <2>1, <2>3 DEF Working
  <2> HIDE DEF e, f
  <2>6. f.nonce # NotFound
    BY <2>4, <2>5, Zenon DEF Sound, Stays
  <2> QED
    BY <2>6 DEF f, Registered
<1> QED
  BY <1>1, Invariant, PTL

-----------------------------------------------------------------------------
(***************************************************************************)
(* The supply.  Between two transactions of a block, what the accounts     *)
(* hold, what has been burnt, and the fees that wait for the reward make   *)
(* up the supply of the tip (Balanced); what a registration replaces is    *)
(* what the tip and the transactions before it gave the account (Tracked). *)
(***************************************************************************)

\* What the transactions so far burn and pay in fees.
BurntSoFar == SumFunction([i \in 1..done |-> Burns(state[Tip(cur)][Base], txs, i)])
FeesSoFar  == SumFunction([i \in 1..done |-> Fee(txs[i])])

Balanced ==
    pc = "execute" => /\ Holdings(trees[Base]) + BurntSoFar + fees = Supply(Tip(cur))
                      /\ fees = FeesSoFar

Tracked ==
    pc = "execute" => \A a \in Account \ Renewed(done) :
        trees[Base][a].balance = Held(state[Tip(cur)][Base], txs, done, a)

SupplyInv == Balanced /\ Tracked /\ SupplyIsConserved

LEMMA AccountsAreFinite == IsFiniteSet(Account) BY LedgerAssumption

LEMMA HoldingsType ==
    ASSUME NEW tree \in [Account -> Entry]
    PROVE  Holdings(tree) \in Int
<1>1. [a \in Account |-> tree[a].balance] \in [Account -> Int]
  BY DEF Entry
<1> QED
  BY <1>1, SumType, AccountsAreFinite DEF Holdings

LEMMA StateHoldings == ASSUME NEW tr \in State PROVE tr[Base] \in [Account -> Entry] /\ Holdings(tr[Base]) \in Int
<1>1. tr[Base] \in [Account -> Entry]
  BY LedgerAssumption DEF State
<1> QED
  BY <1>1, HoldingsType

\* Only one account's balance differs.
LEMMA HoldingsChange ==
    ASSUME NEW tree \in [Account -> Entry], NEW new \in [Account -> Entry], NEW a \in Account,
           \A b \in Account \ {a} : new[b].balance = tree[b].balance
    PROVE  Holdings(new) = Holdings(tree) - tree[a].balance + new[a].balance
<1> DEFINE f == [b \in Account |-> tree[b].balance]
           g == [b \in Account |-> new[b].balance]
<1>1. f \in [Account -> Int] /\ g \in [Account -> Int]
  BY DEF Entry
<1>2. (\A b \in Account \ {a} : g[b] = f[b]) /\ f[a] = tree[a].balance /\ g[a] = new[a].balance
  OBVIOUS
<1>3. Holdings(tree) = SumFunction(f) /\ Holdings(new) = SumFunction(g)
  BY DEF Holdings
<1> HIDE DEF f, g
<1> QED
  BY <1>1, <1>2, <1>3, SumUpdates, AccountsAreFinite

\* A payload moves its amount from the sender to the receiver, and takes its fee and
\* what it burns from the sender: the rest of the ring only looks as if it took part.
LEMMA PayloadHoldings ==
    ASSUME NEW tree \in [Account -> Entry], NEW p \in Payload, WellFormed(p), NEW h \in Position
    PROVE  Holdings(ProcessPayload(tree, p, h)) = Holdings(tree) - p.fee - p.burn
<1> DEFINE new  == ProcessPayload(tree, p, h)
           paid == [tree EXCEPT ![p.receiver] = new[p.receiver]]
<1>1. /\ p.sender \in Account /\ p.receiver \in Account /\ p.sender # p.receiver
      /\ p.sender \in p.ring /\ p.receiver \in p.ring
      /\ p.amount \in Int /\ p.fee \in Int /\ p.burn \in Int
  BY DEF WellFormed, Payload
<1>2. new \in [Account -> Entry]
  BY ProcessPayloadType
<1>3. paid \in [Account -> Entry]
  BY <1>1, <1>2
<1>4. /\ \A a \in Account \ {p.sender, p.receiver} : new[a].balance = tree[a].balance
      /\ new[p.receiver].balance = tree[p.receiver].balance + p.amount
      /\ new[p.sender].balance = tree[p.sender].balance - (p.amount + p.fee + p.burn)
  BY <1>1 DEF ProcessPayload, Change, Entry
<1> HIDE DEF new
<1>5. Holdings(paid) = Holdings(tree) - tree[p.receiver].balance + paid[p.receiver].balance
  BY <1>1, <1>3, HoldingsChange
<1>6. paid[p.receiver] = new[p.receiver] /\ paid[p.sender] = tree[p.sender]
  BY <1>1
<1>7. Holdings(new) = Holdings(paid) - paid[p.sender].balance + new[p.sender].balance
  BY <1>1, <1>2, <1>3, <1>4, HoldingsChange
<1>8. Holdings(tree) \in Int /\ tree[p.receiver].balance \in Int /\ tree[p.sender].balance \in Int
  BY <1>1, HoldingsType DEF Entry
<1>9. Holdings(new) = Holdings(tree) - p.fee - p.burn
  <2> HIDE DEF paid
  <2> QED
    BY <1>1, <1>4, <1>5, <1>6, <1>7, <1>8
<1> QED
  BY <1>9 DEF new

\* The shares add up: what the division leaves is the integrator's.
LEMMA RewardedHoldings ==
    ASSUME TypeOK, Shared, pc = "execute"
    PROVE  LET full == CalcBlockReward(Height[cur]) + fees
           IN  Holdings(Rewarded[Base])
                 = Holdings(trees[Base]) + full - Share(full, coinbase) * (coinbase.finals - 1)
<1> DEFINE full   == CalcBlockReward(Height[cur]) + fees
           n      == Len(coinbase.voters)
           m      == coinbase.finals
           share  == Share(full, coinbase)
           own    == full - share * (n + m - 1)
           shares == [a \in Account |-> share * Cardinality({i \in 1..n : coinbase.voters[i] = a})]
           all    == [a \in Account |-> Reward(a)]
           old    == [a \in Account |-> trees[Base][a].balance]
           new    == [a \in Account |-> Rewarded[Base][a].balance]
<1>1. full \in Nat /\ m \in Nat /\ own \in Nat
  BY ShareFacts
<1>2. n \in Nat /\ coinbase.integrator \in Account /\ coinbase.voters \in [1..n -> Account]
  <2>1. coinbase.integrator \in Account /\ coinbase.voters \in Seq(Account)
    BY LedgerAssumption DEF TypeOK
  <2> QED
    BY <2>1
<1>3. share \in Int
  BY ShareFacts
<1>4. SumFunction(shares) = share * n
  <2> HIDE DEF share, n
  <2> QED
    BY <1>2, <1>3, SumOfShares, AccountsAreFinite
<1>5. /\ shares \in [Account -> Int] /\ all \in [Account -> Int]
      /\ \A a \in Account \ {coinbase.integrator} : all[a] = shares[a]
      /\ all[coinbase.integrator] = own + shares[coinbase.integrator]
  <2>1. ASSUME NEW a \in Account
        PROVE  /\ all[a] \in Int /\ shares[a] \in Int
               /\ all[a] = (IF a = coinbase.integrator THEN own ELSE 0) + shares[a]
    <3> DEFINE won == {i \in 1..n : coinbase.voters[i] = a}
    <3>1. Cardinality(won) \in Int
      <4>1. IsFiniteSet(1..n)
        <5>1. n \in Int /\ 1 \in Int
          BY <1>2
        <5> HIDE DEF n
        <5> QED
          BY <5>1, FS_Interval
      <4>2. IsFiniteSet(won)
        BY <4>1, FS_Subset
      <4> QED
        BY <4>2, FS_CardinalityType
    <3>2. shares[a] = share * Cardinality(won) /\ all[a] = Reward(a)
      OBVIOUS
    <3>3. Reward(a) = (IF a = coinbase.integrator THEN own ELSE 0) + share * Cardinality(won)
      BY DEF Reward
    <3>4. Reward(a) \in Int
      BY RewardFacts
    <3> HIDE DEF shares, all, share, full, n, won, own
    <3> QED
      BY <1>1, <1>3, <3>1, <3>2, <3>3, <3>4
  <2> HIDE DEF share, full, n, own
  <2>2. ASSUME NEW a \in Account \ {coinbase.integrator} PROVE all[a] = shares[a]
    <3> HIDE DEF all, shares
    <3> QED
      BY <2>1
  <2>3. all[coinbase.integrator] = own + shares[coinbase.integrator]
    <3> HIDE DEF all, shares
    <3> QED
      BY <1>2, <2>1
  <2> QED
    BY <2>1, <2>2, <2>3
<1>6. SumFunction(all) = full - share * (m - 1)
  <2> DEFINE left == share * n
             b    == coinbase.integrator
  <2>1. SumFunction(all) = SumFunction(shares) - shares[b] + all[b]
    <3> HIDE DEF shares, all
    <3> QED
      BY <1>2, <1>5, SumUpdates, AccountsAreFinite
  <2>2. left \in Int /\ shares[b] \in Int
    <3> HIDE DEF shares, share, n, b
    <3>1. b \in Account
      BY <1>2 DEF b
    <3> QED
      BY <1>2, <1>3, <1>5, <3>1
  <2>3. SumFunction(shares) = left /\ all[b] = own + shares[b]
    BY <1>4, <1>5
  <2>4. own = full - left - share * (m - 1)
    <3>1. share * (n + m - 1) = share * n + share * (m - 1)
      <4> HIDE DEF share, n, m
      <4> QED
        BY <1>1, <1>2, <1>3
    <3>2. share * n \in Int /\ share * (m - 1) \in Int
      <4> HIDE DEF share, n, m
      <4> QED
        BY <1>1, <1>2, <1>3
    <3> QED
      BY <1>1, <3>1, <3>2 DEF own
  <2>5. share * (m - 1) \in Int
    <3> HIDE DEF share, m
    <3> QED
      BY <1>1, <1>3
  <2> HIDE DEF left, all, shares, full, b, own, share, m
  <2> QED
    BY <1>1, <2>1, <2>2, <2>3, <2>4, <2>5
<1>7. old \in [Account -> Int] /\ new \in [Account -> Int] /\ \A a \in Account : new[a] = old[a] + all[a]
  <2>1. ASSUME NEW a \in Account
        PROVE  old[a] \in Int /\ new[a] = old[a] + all[a] /\ all[a] \in Int
    <3>1. trees[Base][a] \in Entry /\ Base \in Asset /\ trees \in State
      BY LedgerAssumption DEF TypeOK, State
    <3>2. Rewarded[Base][a] = [trees[Base][a] EXCEPT !.balance = @ + Reward(a)]
      BY <3>1 DEF Rewarded, State
    <3> QED
      BY <3>1, <3>2, RewardFacts DEF Entry
  <2> HIDE DEF all
  <2> QED
    BY <2>1
<1>8. SumFunction(new) = SumFunction(old) + SumFunction(all)
  <2> HIDE DEF old, new, all, shares
  <2>1. all \in [Account -> Int]
    BY <1>5
  <2> QED
    BY <1>7, <2>1, SumsAdd, AccountsAreFinite
<1>9. Holdings(trees[Base]) = SumFunction(old) /\ Holdings(Rewarded[Base]) = SumFunction(new)
  BY DEF Holdings
<1>10. SumFunction(old) \in Int /\ CalcBlockReward(Height[cur]) + fees = full
  <2> HIDE DEF old
  <2> QED
    BY <1>7, SumType, AccountsAreFinite
<1>11. share * (m - 1) \in Int
  <2> HIDE DEF share, m
  <2> QED
    BY <1>1, <1>3
<1>12. Holdings(Rewarded[Base]) = Holdings(trees[Base]) + full - share * (m - 1)
  <2> HIDE DEF old, new, full, all, share, m
  <2> QED
    BY <1>1, <1>6, <1>8, <1>9, <1>10, <1>11
<1> QED
  BY <1>12

\* Sums over the first transactions of a list.
LEMMA ListSums ==
    ASSUME NEW m \in Nat, NEW f \in [1..m -> Int], NEW n \in 0..m
    PROVE  /\ SumFunction([i \in 1..n |-> f[i]]) \in Int
           /\ n < m => SumFunction([i \in 1..(n + 1) |-> f[i]]) = SumFunction([i \in 1..n |-> f[i]]) + f[n + 1]
<1>1. n \in Nat /\ 1..n \subseteq 1..m /\ IsFiniteSet(1..n)
  BY FS_Interval
<1>2. SumFunction([i \in 1..n |-> f[i]]) \in Int
  <2> DEFINE g == [i \in 1..n |-> f[i]]
  <2>1. g \in [1..n -> Int]
    BY <1>1
  <2> HIDE DEF g
  <2>2. SumFunction(g) \in Int
    BY <1>1, <2>1, SumType
  <2> QED
    BY <2>2 DEF g
<1>3. ASSUME n < m
      PROVE  SumFunction([i \in 1..(n + 1) |-> f[i]]) = SumFunction([i \in 1..n |-> f[i]]) + f[n + 1]
  <2> DEFINE g == [i \in 1..n |-> f[i]]
             h == [i \in 1..(n + 1) |-> f[i]]
  <2>1. g \in [1..n -> Int] /\ h \in [1..(n + 1) -> Int] /\ \A i \in 1..n : h[i] = g[i]
    BY <1>1, <1>3
  <2>2. h[n + 1] = f[n + 1]
    BY <1>1
  <2> HIDE DEF g, h
  <2>3. SumFunction(h) = SumFunction(g) + h[n + 1]
    BY <1>1, <2>1, SumToNext
  <2> QED
    BY <2>2, <2>3 DEF g, h
<1> QED
  BY <1>2, <1>3

LEMMA PaidType ==
    ASSUME NEW tx \in Tx, NEW a \in Account
    PROVE  Paid(tx, a) \in Int /\ Fee(tx) \in Int
<1>1. CASE IsRegistration(tx)
  BY <1>1 DEF Paid, Fee
<1>2. CASE ~ IsRegistration(tx)
  <2>1. tx.payloads[Base] \in Payload /\ WellFormed(tx.payloads[Base])
    BY <1>2, TransferFacts, PayloadFacts
  <2>2. Change(tx.payloads[Base], a) \in Int /\ tx.payloads[Base].fee \in Int
    BY <2>1, ChangeFacts DEF Payload
  <2> QED
    BY <1>2, <2>2 DEF Paid, Fee
<1> QED
  BY <1>1, <1>2

LEMMA HeldNext ==
    ASSUME NEW tree \in [Account -> Entry], NEW list \in Seq(Tx), NEW n \in 0..Len(list), NEW a \in Account
    PROVE  /\ Held(tree, list, n, a) \in Int
           /\ n < Len(list) => Held(tree, list, n + 1, a) = Held(tree, list, n, a) + Paid(list[n + 1], a)
<1> DEFINE f == [i \in 1..Len(list) |-> Paid(list[i], a)]
<1>1. Len(list) \in Nat /\ f \in [1..Len(list) -> Int]
  BY PaidType
<1>2. ASSUME NEW k \in 0..Len(list)
      PROVE  [i \in 1..k |-> Paid(list[i], a)] = [i \in 1..k |-> f[i]]
  OBVIOUS
<1>3. \A k \in 0..Len(list) : Held(tree, list, k, a) = tree[a].balance + SumFunction([i \in 1..k |-> f[i]])
  BY <1>2 DEF Held
<1>4. tree[a].balance \in Int
  BY DEF Entry
<1>5. n < Len(list) => n + 1 \in 0..Len(list) /\ f[n + 1] = Paid(list[n + 1], a)
  OBVIOUS
<1> HIDE DEF f
<1>6. /\ SumFunction([i \in 1..n |-> f[i]]) \in Int
      /\ n < Len(list) => SumFunction([i \in 1..(n + 1) |-> f[i]]) = SumFunction([i \in 1..n |-> f[i]]) + f[n + 1]
  BY <1>1, ListSums
<1>7. Held(tree, list, n, a) = tree[a].balance + SumFunction([i \in 1..n |-> f[i]])
  BY <1>3
<1>8. ASSUME n < Len(list) PROVE Held(tree, list, n + 1, a) = tree[a].balance + SumFunction([i \in 1..(n + 1) |-> f[i]])
  BY <1>3, <1>5, <1>8
<1>9. n < Len(list) => f[n + 1] \in Int
  BY <1>1, <1>5
<1> QED
  BY <1>4, <1>5, <1>6, <1>7, <1>8, <1>9

LEMMA BurnsType ==
    ASSUME NEW tree \in [Account -> Entry], NEW list \in Seq(Tx), NEW n \in 1..Len(list)
    PROVE  Burns(tree, list, n) \in Int
<1>1. list[n] \in Tx /\ n - 1 \in 0..Len(list)
  OBVIOUS
<1>2. CASE IsRegistration(list[n])
  <2>1. list[n].address \in Account /\ RegistrationBalance \in Int
    BY <1>1, <1>2, RegistrationFacts, LedgerAssumption
  <2>2. Held(tree, list, n - 1, list[n].address) \in Int
    BY <1>1, <2>1, HeldNext
  <2> QED
    BY <1>2, <2>1, <2>2 DEF Burns
<1>3. CASE ~ IsRegistration(list[n])
  <2>1. list[n].payloads[Base] \in Payload
    BY <1>1, <1>3, TransferFacts, PayloadFacts
  <2> QED
    BY <1>3, <2>1 DEF Burns, Payload
<1> QED
  BY <1>2, <1>3

\* The tip's tree, which the sums start from.
LEMMA TipTree ==
    ASSUME TypeOK, Working, pc = "execute"
    PROVE  state[Tip(cur)][Base] \in [Account -> Entry]
<1>1. state[Tip(cur)] \in State
  BY WorkingFacts DEF TypeOK
<1> QED
  BY <1>1, StateHoldings

LEMMA SumsNext ==
    ASSUME TypeOK, Working, pc = "execute", NEW n \in 0..Len(txs)
    PROVE  LET tree == state[Tip(cur)][Base]
               B(k) == SumFunction([i \in 1..k |-> Burns(tree, txs, i)])
               F(k) == SumFunction([i \in 1..k |-> Fee(txs[i])])
           IN  /\ B(n) \in Int /\ F(n) \in Int
               /\ n < Len(txs) => /\ B(n + 1) = B(n) + Burns(tree, txs, n + 1)
                                 /\ F(n + 1) = F(n) + Fee(txs[n + 1])
<1> DEFINE tree == state[Tip(cur)][Base]
           f == [i \in 1..Len(txs) |-> Burns(tree, txs, i)]
           g == [i \in 1..Len(txs) |-> Fee(txs[i])]
<1>1. Len(txs) \in Nat /\ txs \in Seq(Tx) /\ tree \in [Account -> Entry]
  BY TipTree DEF TypeOK
<1>2. f \in [1..Len(txs) -> Int]
  <2> HIDE DEF tree
  <2> QED
    BY <1>1, BurnsType
<1>3. g \in [1..Len(txs) -> Int]
  <2>1. Account # {}
    BY LedgerAssumption
  <2> QED
    BY <1>1, <2>1, PaidType
<1> HIDE DEF tree
<1>4. \A k \in 0..Len(txs) : /\ [i \in 1..k |-> Burns(tree, txs, i)] = [i \in 1..k |-> f[i]]
                             /\ [i \in 1..k |-> Fee(txs[i])] = [i \in 1..k |-> g[i]]
  BY <1>1
<1>5. n < Len(txs) => /\ n + 1 \in 0..Len(txs)
                      /\ f[n + 1] = Burns(tree, txs, n + 1) /\ g[n + 1] = Fee(txs[n + 1])
  BY <1>1
<1> HIDE DEF f, g
<1>6. /\ SumFunction([i \in 1..n |-> f[i]]) \in Int
      /\ n < Len(txs) => SumFunction([i \in 1..(n + 1) |-> f[i]]) = SumFunction([i \in 1..n |-> f[i]]) + f[n + 1]
  BY <1>1, <1>2, ListSums
<1>7. /\ SumFunction([i \in 1..n |-> g[i]]) \in Int
      /\ n < Len(txs) => SumFunction([i \in 1..(n + 1) |-> g[i]]) = SumFunction([i \in 1..n |-> g[i]]) + g[n + 1]
  BY <1>1, <1>3, ListSums
<1>8. /\ [i \in 1..n |-> Burns(tree, txs, i)] = [i \in 1..n |-> f[i]]
      /\ [i \in 1..n |-> Fee(txs[i])] = [i \in 1..n |-> g[i]]
  BY <1>4
<1>9. ASSUME n < Len(txs)
      PROVE  /\ [i \in 1..(n + 1) |-> Burns(tree, txs, i)] = [i \in 1..(n + 1) |-> f[i]]
             /\ [i \in 1..(n + 1) |-> Fee(txs[i])] = [i \in 1..(n + 1) |-> g[i]]
  BY <1>4, <1>5, <1>9
<1> QED
  BY <1>5, <1>6, <1>7, <1>8, <1>9 DEF tree

\* An account that is not registered in the block holds what it held and was paid.
LEMMA ExecuteTxTracked ==
    ASSUME TypeOK, Paths, Working, Tracked, ExecuteTx
    PROVE  Tracked'
<1> DEFINE tx   == txs[done + 1]
           tree == state[Tip(cur)][Base]
<1>1. /\ pc = "execute" /\ done < Len(txs) /\ done \in 0..Len(txs) /\ done \in Nat /\ done' = done + 1
      /\ txs' = txs /\ cur' = cur /\ state' = state
      /\ tx \in Tx /\ Base \in Asset /\ trees \in State
  BY LedgerAssumption DEF ExecuteTx, TypeOK, chain
<1>2. trees[Base] \in [Account -> Entry] /\ tree \in [Account -> Entry] /\ txs \in Seq(Tx)
  BY <1>1, StateHoldings, TipTree DEF TypeOK
<1>3. Renewed(done)' = Renewed(done + 1) /\ Renewed(done) \subseteq Renewed(done + 1)
  BY <1>1, RenewedGrows DEF Renewed
<1> SUFFICES ASSUME NEW a \in Account \ Renewed(done + 1)
             PROVE  trees'[Base][a].balance = Held(tree, txs, done + 1, a)
  BY <1>1, <1>3 DEF Tracked, Held, Tip
<1>4. trees[Base][a].balance = Held(tree, txs, done, a) /\ trees[Base][a].balance \in Int
  BY <1>1, <1>3, <1>2 DEF Tracked, Entry
<1>5. Held(tree, txs, done + 1, a) = Held(tree, txs, done, a) + Paid(tx, a)
  <2> HIDE DEF tree
  <2> QED
    BY <1>1, <1>2, HeldNext
<1>6. trees'[Base][a].balance = trees[Base][a].balance + Paid(tx, a)
  <2>1. CASE IsRegistration(tx)
    <3>1. trees' = [trees EXCEPT ![Base][tx.address] = [balance |-> RegistrationBalance, nonce |-> 0]]
      BY <2>1 DEF ExecuteTx, ExecuteRegistration
    <3>2. a # tx.address /\ Paid(tx, a) = 0
      BY <1>1, <2>1 DEF Renewed, Paid
    <3>3. trees'[Base][a] = trees[Base][a]
      <4> HIDE DEF tx
      <4> QED
        BY <1>1, <3>1, <3>2 DEF State
    <3> QED
      BY <1>4, <3>2, <3>3
  <2>2. CASE ~ IsRegistration(tx)
    <3> DEFINE p == tx.payloads[Base]
    <3>1. Base \in Payloads(tx) /\ p \in Payload /\ WellFormed(p)
      BY <1>1, <2>2, TransferFacts, PayloadFacts
    <3>2. trees'[Base] = ProcessPayload(trees[Base], p, Height[cur])
      <4>1. trees' = [q \in Asset |-> IF q \in Payloads(tx)
                                         THEN ProcessPayload(Reloaded(q), tx.payloads[q], Height[cur])
                                         ELSE trees[q]]
        BY <2>2 DEF ExecuteTx, ExecuteTransfer
      <4> HIDE DEF tx
      <4> QED
        BY <1>1, <3>1, <4>1 DEF Reloaded
    <3>3. Paid(tx, a) = Change(p, a) /\ Change(p, a) \in Int
      BY <2>2, <3>1, ChangeFacts DEF Paid
    <3>4. a \notin p.ring => Change(p, a) = 0
      BY <3>1 DEF WellFormed, Payload, Change
    <3> HIDE DEF tx, p
    <3> QED
      BY <1>4, <3>2, <3>3, <3>4 DEF ProcessPayload
  <2> QED
    BY <2>1, <2>2
<1> QED
  BY <1>4, <1>5, <1>6

LEMMA ExecuteTxBalanced ==
    ASSUME TypeOK, Working, Tracked, Balanced, ExecuteTx
    PROVE  Balanced'
<1> DEFINE tx   == txs[done + 1]
           tree == state[Tip(cur)][Base]
           burns == Burns(tree, txs, done + 1)
<1>1. /\ pc = "execute" /\ done < Len(txs) /\ done \in 0..Len(txs) /\ done \in Nat /\ done' = done + 1
      /\ txs' = txs /\ cur' = cur /\ state' = state
      /\ (done + 1) \in 1..Len(txs) /\ tx \in Tx /\ Base \in Asset /\ trees \in State
  BY LedgerAssumption DEF ExecuteTx, TypeOK, chain
<1>2. Holdings(trees[Base]) + BurntSoFar + fees = Supply(Tip(cur)) /\ fees = FeesSoFar
  BY <1>1 DEF Balanced
<1>3. /\ BurntSoFar \in Int /\ FeesSoFar \in Int
      /\ BurntSoFar' = BurntSoFar + burns /\ FeesSoFar' = FeesSoFar + Fee(tx)
  <2>1. /\ BurntSoFar' = SumFunction([i \in 1..(done + 1) |-> Burns(tree, txs, i)])
        /\ FeesSoFar' = SumFunction([i \in 1..(done + 1) |-> Fee(txs[i])])
    BY <1>1 DEF BurntSoFar, FeesSoFar, Burns, Held, Paid, Fee, Tip
  <2> QED
    BY <1>1, <2>1, SumsNext DEF BurntSoFar, FeesSoFar
<1>4. /\ trees[Base] \in [Account -> Entry] /\ Holdings(trees[Base]) \in Int
      /\ trees'[Base] \in [Account -> Entry] /\ burns \in Int
  BY <1>1, StateHoldings, ExecuteTxTypes, TipTree, BurnsType DEF TypeOK
<1>5. Supply(Tip(cur))' = Supply(Tip(cur))
  BY <1>1 DEF Supply, Tip
<1>6. fees \in Nat
  BY DEF TypeOK
<1> SUFFICES /\ Holdings(trees'[Base]) = Holdings(trees[Base]) - burns - Fee(tx)
             /\ fees' = fees + Fee(tx) /\ Fee(tx) \in Int
  <2>1. Holdings(trees[Base])' = Holdings(trees'[Base])
    BY DEF Holdings
  <2> HIDE DEF burns, tx
  <2>2. Holdings(trees'[Base]) + BurntSoFar' + fees' = Supply(Tip(cur)) /\ fees' = FeesSoFar'
    BY <1>2, <1>3, <1>4, <1>6
  <2> QED
    BY <1>5, <2>1, <2>2 DEF Balanced
<1>7. CASE IsRegistration(tx)
  <2> DEFINE a == tx.address
  <2>1. a \in Account
    BY <1>1, <1>7, RegistrationFacts
  <2>2. /\ trees' = [trees EXCEPT ![Base][a] = [balance |-> RegistrationBalance, nonce |-> 0]]
        /\ fees' = fees
    BY <1>7 DEF ExecuteTx, ExecuteRegistration
  <2>3. trees[Base][a].balance = Held(tree, txs, done, a)
    <3>1. a \notin Renewed(done)
      <4> SUFFICES ASSUME NEW i \in 1..done, IsRegistration(txs[i]), txs[i].address = a PROVE FALSE
        BY DEF Renewed
      <4>1. Compatible(txs[i], tx)
        BY <1>1, WorkingFacts DEF Acceptable
      <4> QED
        BY <1>7, <4>1 DEF Compatible
    <3> HIDE DEF a
    <3> QED
      BY <1>1, <2>1, <3>1 DEF Tracked
  <2>4. trees'[Base][a].balance = RegistrationBalance /\ \A b \in Account \ {a} : trees'[Base][b] = trees[Base][b]
    <3> HIDE DEF a
    <3> QED
      BY <1>1, <2>1, <2>2 DEF State
  <2>5. Holdings(trees'[Base]) = Holdings(trees[Base]) - trees[Base][a].balance + trees'[Base][a].balance
    <3> HIDE DEF a
    <3> QED
      BY <1>4, <2>1, <2>4, HoldingsChange
  <2>6. burns = trees[Base][a].balance - RegistrationBalance /\ RegistrationBalance \in Nat /\ Fee(tx) = 0
    <3>1. (done + 1) - 1 = done
      BY <1>1
    <3> QED
      BY <1>7, <2>3, <3>1, LedgerAssumption DEF Burns, Fee
  <2>7. trees[Base][a].balance \in Int
    <3> HIDE DEF a
    <3> QED
      BY <1>4, <2>1 DEF Entry
  <2> HIDE DEF a, burns, tx, tree
  <2> QED
    BY <1>4, <1>6, <2>2, <2>4, <2>5, <2>6, <2>7
<1>8. CASE ~ IsRegistration(tx)
  <2> DEFINE p == tx.payloads[Base]
  <2>1. Base \in Payloads(tx) /\ p \in Payload /\ WellFormed(p)
    BY <1>1, <1>8, TransferFacts, PayloadFacts
  <2>2. trees'[Base] = ProcessPayload(trees[Base], p, Height[cur]) /\ fees' = fees + p.fee
    <3>1. trees' = [q \in Asset |-> IF q \in Payloads(tx)
                                       THEN ProcessPayload(Reloaded(q), tx.payloads[q], Height[cur])
                                       ELSE trees[q]]
      BY <1>8 DEF ExecuteTx, ExecuteTransfer
    <3>2. fees' = fees + p.fee
      BY <1>8 DEF ExecuteTx, ExecuteTransfer
    <3> HIDE DEF tx
    <3> QED
      BY <1>1, <2>1, <3>1, <3>2 DEF Reloaded
  <2>3. burns = p.burn /\ Fee(tx) = p.fee
    BY <1>8 DEF Burns, Fee
  <2>4. p.fee \in Int /\ p.burn \in Int
    <3> HIDE DEF p
    <3> QED
      BY <2>1 DEF Payload
  <2>5. Holdings(trees'[Base]) = Holdings(trees[Base]) - p.fee - p.burn
    <3> HIDE DEF p
    <3> QED
      BY <1>1, <1>4, <2>1, <2>2, WorkingFacts, PayloadHoldings
  <2> HIDE DEF tx, p, burns
  <2> QED
    BY <1>4, <2>2, <2>3, <2>4, <2>5
<1> QED
  BY <1>7, <1>8

LEMMA BeginSupply ==
    ASSUME TypeOK, NEW b \in Block, NEW t \in Bodies, NEW c \in Coinbase, Begin(b, t, c)
    PROVE  Balanced' /\ Tracked'
<1> DEFINE tree == state[Tip(b)][Base]
<1>1. /\ cur' = b /\ txs' = t /\ done' = 0 /\ fees' = 0 /\ trees' = state[Tip(b)]
      /\ state' = state /\ Tip(b) \in Block /\ t \in Seq(Tx)
  BY BlockTreeAssumption, BodiesAreSequences DEF Begin, chain, Tip
<1>2. tree \in [Account -> Entry] /\ Holdings(tree) \in Int
  BY <1>1, StateHoldings DEF TypeOK
<1>3. ASSUME NEW f \in [1..0 -> Int] PROVE SumFunction(f) = 0
  <2>1. f \in [{} -> Int]
    BY <1>3
  <2> QED
    BY <2>1, SumOfNothing
<1>4. BurntSoFar' = 0 /\ FeesSoFar' = 0
  <2> DEFINE B == [i \in 1..0 |-> Burns(tree, t, i)]
             F == [i \in 1..0 |-> Fee(t[i])]
  <2>1. BurntSoFar' = SumFunction(B) /\ FeesSoFar' = SumFunction(F)
    BY <1>1 DEF BurntSoFar, FeesSoFar, Burns, Held, Paid, Fee, Tip
  <2>2. B \in [1..0 -> Int] /\ F \in [1..0 -> Int]
    OBVIOUS
  <2> HIDE DEF B, F
  <2> QED
    BY <1>3, <2>1, <2>2
<1>5. Balanced'
  <2>1. Supply(Tip(cur))' = Holdings(tree) /\ Holdings(trees[Base])' = Holdings(tree)
    BY <1>1 DEF Supply, Tip, Holdings
  <2> QED
    BY <1>1, <1>2, <1>4, <2>1 DEF Balanced
<1>6. Tracked'
  <2> SUFFICES ASSUME NEW a \in Account PROVE tree[a].balance = Held(tree, t, 0, a)
    BY <1>1 DEF Tracked, Held, Tip
  <2> DEFINE P == [i \in 1..0 |-> Paid(t[i], a)]
  <2>1. P \in [1..0 -> Int]
    OBVIOUS
  <2>2. Held(tree, t, 0, a) = tree[a].balance + SumFunction(P)
    BY DEF Held
  <2>3. tree[a].balance \in Int
    BY <1>2 DEF Entry
  <2> HIDE DEF P, tree
  <2>4. SumFunction(P) = 0
    BY <1>3, <2>1
  <2> QED
    BY <2>2, <2>3, <2>4
<1> QED
  BY <1>5, <1>6

LEMMA CommitSupply ==
    ASSUME TypeOK, Shared, Paths, Working, Balanced, SupplyIsConserved, Commit
    PROVE  SupplyIsConserved'
<1>1. /\ cur \in Block /\ Tip(cur) \in executed /\ cur \notin executed /\ pc = "execute"
      /\ done = Len(txs) /\ done \in 0..Len(txs)
  BY CommitFacts, WorkingFacts DEF TypeOK
<1>2. ASSUME NEW b \in executed \ {Genesis}
      PROVE  /\ Supply(b)' + Burnt(b)' + Unpaid(b)' = Supply(Tip(b))' + CalcBlockReward(Height[b])
             /\ Height[b] >= SoftFork => Unpaid(b)' = 0
  <2>1. b \in executed /\ Tip(b) \in executed
    BY DEF Paths
  <2>2. Supply(b)' = Supply(b) /\ Supply(Tip(b))' = Supply(Tip(b))
    BY <2>1, CommitFacts DEF Supply, Tip
  <2>3. Burnt(b)' = Burnt(b)
    BY <2>1, CommitFacts DEF Burnt, Burns, Held, Paid, Tip
  <2>4. Fees(b)' = Fees(b) /\ miners'[b] = miners[b]
    BY <2>1, CommitFacts DEF Fees, Fee
  <2>5. Unpaid(b)' = Unpaid(b)
    BY <2>4 DEF Unpaid, Share
  <2> QED
    BY <2>2, <2>3, <2>5 DEF SupplyIsConserved
<1>3. ASSUME NEW b, b = cur
      PROVE  /\ Supply(b)' + Burnt(b)' + Unpaid(b)' = Supply(Tip(b))' + CalcBlockReward(Height[b])
             /\ Height[b] >= SoftFork => Unpaid(b)' = 0
  <2> DEFINE full  == CalcBlockReward(Height[cur]) + fees
             rest  == Share(full, coinbase) * (coinbase.finals - 1)
             held  == Holdings(trees[Base])
  <2>1. Supply(b)' = Holdings(Rewarded[Base])
    BY <1>3, CommitFacts DEF Supply, Holdings
  <2>2. Burnt(b)' = BurntSoFar
    BY <1>1, <1>3, CommitFacts DEF Burnt, BurntSoFar, Burns, Held, Paid, Tip
  <2>3. held + BurntSoFar + fees = Supply(Tip(cur)) /\ fees = FeesSoFar
    BY <1>1 DEF Balanced
  <2>4. held \in Int /\ fees \in Int /\ CalcBlockReward(Height[cur]) \in Int
    BY <1>1, StateHoldings, BlockTreeAssumption, RewardAssumption DEF TypeOK, Position
  <2>5. BurntSoFar \in Int
    BY <1>1, SumsNext DEF BurntSoFar
  <2>6. Supply(Tip(b))' = Supply(Tip(cur))
    BY <1>1, <1>3, CommitFacts DEF Supply, Tip
  <2>7. Holdings(Rewarded[Base]) = held + full - rest
    BY <1>1, RewardedHoldings
  <2>8. Unpaid(b)' = rest
    <3>1. Fees(b)' = FeesSoFar /\ miners'[b] = coinbase
      BY <1>1, <1>3, CommitFacts DEF Fees, FeesSoFar, Fee
    <3> QED
      BY <1>3, <2>3, <3>1 DEF Unpaid, Share
  <2>9. rest \in Int /\ (Height[cur] >= SoftFork => rest = 0)
    <3> DEFINE m == coinbase.finals
               share == Share(full, coinbase)
    <3>1. share \in Nat /\ m \in Nat /\ (Height[cur] >= SoftFork => m = 1)
      BY <1>1, ShareFacts
    <3>2. rest = share * (m - 1)
      OBVIOUS
    <3> HIDE DEF share, m, rest
    <3> QED
      BY <3>1, <3>2
  <2>10. full = CalcBlockReward(Height[cur]) + fees
    OBVIOUS
  <2> HIDE DEF full, rest, held
  <2> QED
    BY <1>3, <2>1, <2>2, <2>3, <2>4, <2>5, <2>6, <2>7, <2>8, <2>9, <2>10
<1>4. \A b \in executed' \ {Genesis} : b = cur \/ b \in executed \ {Genesis}
  BY CommitFacts
<1> QED
  BY <1>2, <1>3, <1>4 DEF SupplyIsConserved

LEMMA SupplyStep == LedgerInv /\ SupplyInv /\ [Next]_vars => SupplyInv'
<1> SUFFICES ASSUME LedgerInv, SupplyInv, [Next]_vars PROVE SupplyInv'
  OBVIOUS
<1> USE DEF LedgerInv, SupplyInv
<1>1. ASSUME UNCHANGED chain PROVE SupplyIsConserved'
  <2>1. UNCHANGED <<executed, state, body, miners>>
    BY <1>1 DEF chain
  <2>2. \A b : /\ Supply(b)' = Supply(b) /\ Burnt(b)' = Burnt(b) /\ Unpaid(b)' = Unpaid(b)
              /\ Supply(Tip(b))' = Supply(Tip(b))
    BY <2>1 DEF Supply, Burnt, Burns, Held, Paid, Tip, Unpaid, Share, Fees, Fee
  <2> QED
    BY <2>1, <2>2 DEF SupplyIsConserved
<1>2. ASSUME NEW b \in Block, NEW t \in Bodies, NEW c \in Coinbase, Begin(b, t, c)
      PROVE  SupplyInv'
  <2>1. UNCHANGED chain
    BY <1>2 DEF Begin
  <2> QED
    BY <1>1, <1>2, <2>1, BeginSupply
<1>3. CASE ExecuteTx
  <2>1. UNCHANGED chain
    BY <1>3 DEF ExecuteTx
  <2> QED
    BY <1>1, <1>3, <2>1, ExecuteTxTracked, ExecuteTxBalanced
<1>4. CASE Commit
  <2>1. Balanced' /\ Tracked'
    BY <1>4, CommitFacts DEF Balanced, Tracked
  <2> QED
    BY <1>4, <2>1, CommitSupply
<1>5. CASE Panic
  <2>1. UNCHANGED chain /\ pc' = "idle"
    BY <1>5 DEF Panic, Unlock
  <2> QED
    BY <1>1, <2>1 DEF Balanced, Tracked
<1>6. CASE UNCHANGED vars
  <2>1. UNCHANGED chain /\ UNCHANGED <<state, pc, cur, txs, done, trees, fees>>
    BY <1>6 DEF vars, chain, locals
  <2>2. BurntSoFar' = BurntSoFar /\ FeesSoFar' = FeesSoFar /\ Renewed(done)' = Renewed(done)
    BY <2>1 DEF BurntSoFar, FeesSoFar, Burns, Held, Paid, Fee, Tip, Renewed
  <2>3. Balanced'
    BY <2>1, <2>2 DEF Balanced, Supply, Holdings, Tip
  <2>4. Tracked'
    BY <2>1, <2>2 DEF Tracked, Held, Tip
  <2> QED
    BY <1>1, <2>1, <2>3, <2>4
<1> QED
  BY <1>2, <1>3, <1>4, <1>5, <1>6 DEF Next

\* On every branch a block makes exactly its reward and what it registers, and
\* destroys exactly what its transfers burn, the balances its registrations replace
\* and, before the soft fork, the shares of surplus final miniblocks.
THEOREM NothingIsMintedOrLost == Spec => []SupplyIsConserved
<1>1. Init => SupplyInv
  BY DEF Init, SupplyInv, Balanced, Tracked, SupplyIsConserved
<1>2. SupplyInv => SupplyIsConserved
  BY DEF SupplyInv
<1> QED
  BY <1>1, <1>2, SupplyStep, Invariant, PTL DEF Spec
=============================================================================
