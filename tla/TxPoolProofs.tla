---------------------------- MODULE TxPoolProofs ----------------------------
(***************************************************************************)
(* Theorems about TxPool: its types, the agreement of the transactions     *)
(* with the marks of their keys, and that no mark outlives what made it.   *)
(*                                                                         *)
(* A key is held by the pooled transactions that have it, by an addition   *)
(* under the lock, and by a deletion that has yet to unmark it.  Except    *)
(* for keys of raced transactions, two never hold the same key, and what   *)
(* is held, and not still to be stored, is marked.                         *)
(***************************************************************************)
EXTENDS TxPool, TLAPS

\* The pools and what works on them fit together.
Workers ==
    /\ \A p \in Pool : \/ adding[p] = NoTx /\ unstored[p] = {}
                       \/ /\ adding[p] \in Tx /\ PoolOf(adding[p]) = p /\ adding[p] \notin txs
                          /\ unstored[p] \subseteq Keys[adding[p]]
    /\ \A g \in Goroutine : victim[g] = NoTx => undeleted[g] = {}

\* Whoever holds a key has marked it.
HeldIsMarked ==
    /\ \A t \in txs : Keys[t] \subseteq marked \cup RacedKeys
    /\ \A p \in Pool : adding[p] # NoTx => Keys[adding[p]] \subseteq marked \cup RacedKeys \cup unstored[p]
    /\ \A g \in Goroutine : undeleted[g] \subseteq marked \cup RacedKeys

\* No two hold one key.
HeldOnce ==
    /\ \A t, u \in txs : t # u => Keys[t] \cap Keys[u] \subseteq RacedKeys
    /\ \A p \in Pool, t \in txs : adding[p] # NoTx => Keys[adding[p]] \cap Keys[t] \subseteq RacedKeys
    /\ \A g \in Goroutine, t \in txs : undeleted[g] \cap Keys[t] \subseteq RacedKeys
    /\ \A g \in Goroutine, p \in Pool : adding[p] # NoTx => undeleted[g] \cap Keys[adding[p]] \subseteq RacedKeys
    /\ \A g, h \in Goroutine : g # h => undeleted[g] \cap undeleted[h] \subseteq RacedKeys

\* What a deletion has loaded is still there, unless another deletion has it too.
LoadedIsThere ==
    /\ \A g \in Goroutine : victim[g] # NoTx /\ undeleted[g] = {} => victim[g] \in txs \cup raced
    /\ \A g, h \in Goroutine : g # h /\ victim[g] # NoTx /\ victim[g] = victim[h] => victim[g] \in raced

PoolInv == PoolTypeOK /\ Workers /\ HeldIsMarked /\ HeldOnce /\ LoadedIsThere

-----------------------------------------------------------------------------
(***************************************************************************)
(* Lemmas.                                                                 *)
(***************************************************************************)

\* The keys of a transaction, and the pool it is in.
LEMMA KeyFacts ==
    /\ \A t \in Tx : Keys[t] \in SUBSET Key /\ Keys[t] # {} /\ PoolOf(t) \in Pool
    /\ NoTx \notin Tx
    /\ \A t, u \in Tx : PoolOf(t) # PoolOf(u) => Keys[t] \cap Keys[u] = {}
BY TxPoolAssumption DEF PoolOf, Pool, Tx

\* Racing only adds keys.
LEMMA RacedGrows ==
    ASSUME raced \subseteq raced'
    PROVE  RacedKeys \subseteq RacedKeys'
BY DEF RacedKeys

\* A raced transaction's keys are raced.
LEMMA RacedHasKeys ==
    ASSUME NEW t \in raced
    PROVE  Keys[t] \subseteq RacedKeys
BY DEF RacedKeys

(***************************************************************************)
(* Types.                                                                  *)
(***************************************************************************)

\* Every step keeps the types.
LEMMA TypeStep ==
    ASSUME PoolTypeOK, [PoolNext]_tpvars
    PROVE  PoolTypeOK'
<1> USE KeyFacts DEF PoolTypeOK
<1>1. ASSUME NEW t \in Tx, Add_TX_To_Pool(t) PROVE PoolTypeOK'
  BY <1>1 DEF Add_TX_To_Pool, chain, jobs
<1>2. ASSUME NEW t \in Tx, BeginAdd(t) PROVE PoolTypeOK'
  BY <1>2 DEF BeginAdd, chain, jobs
<1>3. ASSUME NEW p \in Pool, StoreKey(p) PROVE PoolTypeOK'
  BY <1>3 DEF StoreKey, chain, jobs
<1>4. ASSUME NEW p \in Pool, StoreTx(p) PROVE PoolTypeOK'
  BY <1>4 DEF StoreTx, chain, jobs
<1>5. ASSUME NEW g \in Goroutine, DeleteLoad(g) PROVE PoolTypeOK'
  BY <1>5 DEF DeleteLoad, chain, pools
<1>6. ASSUME NEW g \in Goroutine, DeleteTx(g) PROVE PoolTypeOK'
  BY <1>6 DEF DeleteTx, chain
<1>7. ASSUME NEW g \in Goroutine, DeleteKey(g) PROVE PoolTypeOK'
  BY <1>7 DEF DeleteKey, chain
<1>8. ASSUME NEW g \in Goroutine, NEW p \in Pool \cup {"idle"}, NEW list \in SUBSET Tx, Delete(g, p, list)
      PROVE  PoolTypeOK'
  BY <1>8 DEF Delete, chain, pools
<1>9. ASSUME CronStep PROVE PoolTypeOK'
  BY <1>8, <1>9 DEF CronStep, HouseKeeping, HouseKeepingRegpool, HouseKept, Goroutine, Pool
<1>10. ASSUME ConsoleStep PROVE PoolTypeOK'
  <2>1. CASE ConsoleDone
    BY <1>8, <2>1 DEF ConsoleDone, Goroutine
  <2>2. ASSUME NEW p \in Pool, Flush(p) PROVE PoolTypeOK'
    <3>1. {t \in txs : PoolOf(t) = p} \in SUBSET Tx
      OBVIOUS
    <3> QED  BY <1>8, <2>2, <3>1 DEF Flush, Goroutine
  <2>3. ASSUME NEW t \in Tx, ConsoleDelete(t) PROVE PoolTypeOK'
    BY <1>8, <2>3 DEF ConsoleDelete, Goroutine
  <2> QED
    BY <1>10, <2>1, <2>2, <2>3 DEF ConsoleStep
<1>11. ASSUME ChainStep PROVE PoolTypeOK'
  BY <1>11, BlockTreeAssumption DEF ChainStep, ChainRetreats, ChainAccepts, ChainAdopts, Accept, Adopt, Retreat, pools, jobs
<1>12. ASSUME UNCHANGED tpvars PROVE PoolTypeOK'
  BY <1>12 DEF tpvars, chain, pools, jobs
<1> QED
  BY <1>1, <1>2, <1>3, <1>4, <1>5, <1>6, <1>7, <1>9, <1>10, <1>11, <1>12 DEF PoolNext, AddStep, DeleteStep

(***************************************************************************)
(* The agreement of transactions and marks.                                *)
(***************************************************************************)

\* Steps that touch neither pool, nor a loaded transaction.
Idle == UNCHANGED <<txs, marked, adding, unstored, victim, undeleted, raced>>

LEMMA IdleStep ==
    ASSUME Workers, HeldIsMarked, HeldOnce, LoadedIsThere, Idle
    PROVE  Workers' /\ HeldIsMarked' /\ HeldOnce' /\ LoadedIsThere'
BY DEF Workers, HeldIsMarked, HeldOnce, LoadedIsThere, Idle, RacedKeys

\* The lock is taken by a transaction whose keys nobody has marked.
LEMMA BeginAddStep ==
    ASSUME PoolInv, NEW t \in Tx, BeginAdd(t)
    PROVE  Workers' /\ HeldIsMarked' /\ HeldOnce' /\ LoadedIsThere'
<1> USE DEF PoolInv
<1>1. CASE ~ (Keys[t] \cap marked = {} /\ t \notin txs)
  BY <1>1, IdleStep DEF Idle, BeginAdd, jobs
<1>2. CASE Keys[t] \cap marked = {} /\ t \notin txs
  <2>1. PICK P \in Pool : P = PoolOf(t)
    BY KeyFacts
  <2>2. /\ adding' = [adding EXCEPT ![P] = t] /\ unstored' = [unstored EXCEPT ![P] = Keys[t]]
        /\ UNCHANGED <<txs, marked, victim, undeleted, raced>> /\ RacedKeys' = RacedKeys
    BY <1>2, <2>1 DEF BeginAdd, jobs, RacedKeys
  <2>3. /\ adding'[P] = t /\ unstored'[P] = Keys[t]
        /\ \A p \in Pool \ {P} : adding'[p] = adding[p] /\ unstored'[p] = unstored[p]
    BY <2>2 DEF PoolTypeOK
  <2>4. Workers'
    BY <1>2, <2>1, <2>2, <2>3 DEF Workers
  <2>5. HeldIsMarked'
    BY <2>2, <2>3 DEF HeldIsMarked
  <2>6. HeldOnce'
    BY <1>2, <2>2, <2>3 DEF HeldOnce, HeldIsMarked
  <2>7. LoadedIsThere'
    BY <2>2 DEF LoadedIsThere
  <2> QED  BY <2>4, <2>5, <2>6, <2>7
<1> QED  BY <1>1, <1>2

\* A key of the transaction being added is marked.
LEMMA StoreKeyStep ==
    ASSUME PoolInv, NEW p \in Pool, StoreKey(p)
    PROVE  Workers' /\ HeldIsMarked' /\ HeldOnce' /\ LoadedIsThere'
<1>1. PICK k \in unstored[p] : /\ marked' = marked \cup {k}
                               /\ unstored' = [unstored EXCEPT ![p] = @ \ {k}]
                               /\ UNCHANGED <<chain, txs, checked, adding, jobs>>
  BY DEF StoreKey
<1>2. /\ UNCHANGED <<txs, adding, victim, undeleted, raced>> /\ RacedKeys' = RacedKeys
      /\ \A q \in Pool : unstored'[q] = IF q = p THEN unstored[p] \ {k} ELSE unstored[q]
  BY <1>1 DEF PoolInv, PoolTypeOK, RacedKeys, jobs
<1>3. Workers'
  BY <1>1, <1>2 DEF PoolInv, Workers
<1>4. HeldIsMarked'
  BY <1>1, <1>2 DEF PoolInv, HeldIsMarked
<1>5. HeldOnce' /\ LoadedIsThere'
  BY <1>2 DEF PoolInv, HeldOnce, LoadedIsThere
<1> QED  BY <1>3, <1>4, <1>5

\* The transaction with all its keys marked is pooled.
LEMMA StoreTxStep ==
    ASSUME PoolInv, NEW p \in Pool, StoreTx(p)
    PROVE  Workers' /\ HeldIsMarked' /\ HeldOnce' /\ LoadedIsThere'
<1> USE DEF PoolInv
<1> DEFINE t == adding[p]
<1>1. /\ t \in Tx /\ PoolOf(t) = p /\ t \notin txs /\ unstored[p] = {} /\ txs' = txs \cup {t}
      /\ UNCHANGED <<marked, unstored, victim, undeleted, raced>> /\ RacedKeys' = RacedKeys
  BY DEF StoreTx, Workers, jobs, RacedKeys
<1>2. \A q \in Pool : adding'[q] = IF q = p THEN NoTx ELSE adding[q]
  BY DEF StoreTx, PoolTypeOK
<1>3. Workers'
  BY <1>1, <1>2 DEF Workers
<1>4. HeldIsMarked'
  BY <1>1, <1>2, KeyFacts DEF HeldIsMarked
<1>5. \A q \in Pool : adding'[q] # NoTx => Keys[adding'[q]] \cap Keys[t] = {}
  BY <1>1, <1>2, KeyFacts DEF Workers
<1>6. HeldOnce'
  BY <1>1, <1>2, <1>5, KeyFacts DEF HeldOnce
<1>7. LoadedIsThere'
  BY <1>1 DEF LoadedIsThere
<1> QED  BY <1>3, <1>4, <1>6, <1>7

\* A deletion loads a pooled transaction, or finds none.
LEMMA DeleteLoadStep ==
    ASSUME PoolInv, NEW g \in Goroutine, DeleteLoad(g)
    PROVE  Workers' /\ HeldIsMarked' /\ HeldOnce' /\ LoadedIsThere'
<1> USE DEF PoolInv
<1>1. PICK t \in doomed[g] :
        /\ victim[g] = NoTx
        /\ IF t \in txs
             THEN /\ victim' = [victim EXCEPT ![g] = t]
                  /\ raced' = raced \cup {u \in {t} : \E h \in Goroutine : victim[h] = u}
             ELSE UNCHANGED <<victim, raced>>
        /\ UNCHANGED <<chain, pools, pass, undeleted>>
  BY DEF DeleteLoad
<1>2. CASE t \notin txs
  BY <1>1, <1>2, IdleStep DEF Idle, pools
<1>3. CASE t \in txs
  <2>1. /\ UNCHANGED <<txs, marked, adding, unstored, undeleted>> /\ t \in Tx /\ t # NoTx
        /\ \A h \in Goroutine : victim'[h] = IF h = g THEN t ELSE victim[h]
        /\ undeleted[g] = {}
    BY <1>1, <1>3, KeyFacts DEF pools, PoolTypeOK, Workers
  <2>2. raced \subseteq raced' /\ RacedKeys \subseteq RacedKeys'
    BY <1>1, <1>3, RacedGrows
  <2>3. Workers'
    BY <2>1 DEF Workers
  <2>4. HeldIsMarked'
    BY <2>1, <2>2 DEF HeldIsMarked
  <2>5. HeldOnce'
    BY <2>1, <2>2 DEF HeldOnce
  <2>6. \A h \in Goroutine : h # g /\ victim[h] = t => t \in raced'
    BY <1>1, <1>3
  <2>7. LoadedIsThere'
    BY <1>3, <2>1, <2>2, <2>6 DEF LoadedIsThere
  <2> QED  BY <2>3, <2>4, <2>5, <2>7
<1> QED  BY <1>2, <1>3

\* The loaded transaction is taken out; its keys are now the deletion's.
LEMMA DeleteTxStep ==
    ASSUME PoolInv, NEW g \in Goroutine, DeleteTx(g)
    PROVE  Workers' /\ HeldIsMarked' /\ HeldOnce' /\ LoadedIsThere'
<1> USE DEF PoolInv
<1> DEFINE t == victim[g]
<1>1. /\ t # NoTx /\ t \in Tx /\ undeleted[g] = {} /\ txs' = txs \ {t}
      /\ UNCHANGED <<marked, adding, unstored, victim, raced>> /\ RacedKeys' = RacedKeys
      /\ \A h \in Goroutine : undeleted'[h] = IF h = g THEN Keys[t] ELSE undeleted[h]
  BY DEF DeleteTx, PoolTypeOK, RacedKeys
<1>2. t \in txs \/ Keys[t] \subseteq RacedKeys
  BY <1>1, RacedHasKeys DEF LoadedIsThere
<1>3. Workers'
  BY <1>1 DEF Workers
<1>4. HeldIsMarked'
  BY <1>1, <1>2 DEF HeldIsMarked
<1>5. HeldOnce'
  <2>1. \A u \in txs' : Keys[t] \cap Keys[u] \subseteq RacedKeys
    BY <1>1, <1>2 DEF HeldOnce
  <2>2. \A p \in Pool : adding[p] # NoTx => Keys[t] \cap Keys[adding[p]] \subseteq RacedKeys
    BY <1>2 DEF HeldOnce
  <2>3. \A h \in Goroutine : Keys[t] \cap undeleted[h] \subseteq RacedKeys
    BY <1>2 DEF HeldOnce
  <2> QED  BY <1>1, <2>1, <2>2, <2>3 DEF HeldOnce
<1>6. LoadedIsThere'
  BY <1>1, KeyFacts DEF LoadedIsThere
<1> QED  BY <1>3, <1>4, <1>5, <1>6

\* A key is unmarked.
LEMMA DeleteKeyStep ==
    ASSUME PoolInv, NEW g \in Goroutine, DeleteKey(g)
    PROVE  Workers' /\ HeldIsMarked' /\ HeldOnce' /\ LoadedIsThere'
<1> USE DEF PoolInv
<1>1. PICK k \in undeleted[g] :
        /\ marked' = marked \ {k}
        /\ undeleted' = [undeleted EXCEPT ![g] = @ \ {k}]
        /\ victim' = IF undeleted[g] = {k} THEN [victim EXCEPT ![g] = NoTx] ELSE victim
        /\ UNCHANGED <<chain, txs, checked, adding, unstored, pass, doomed, raced>>
  BY DEF DeleteKey
<1>2. /\ UNCHANGED <<txs, adding, unstored, raced>> /\ RacedKeys' = RacedKeys
      /\ \A h \in Goroutine : undeleted'[h] = IF h = g THEN undeleted[g] \ {k} ELSE undeleted[h]
      /\ \A h \in Goroutine : victim'[h] = IF h = g /\ undeleted[g] = {k} THEN NoTx ELSE victim[h]
  BY <1>1 DEF PoolTypeOK, RacedKeys
<1>3. Workers'
  BY <1>1, <1>2 DEF Workers
<1>4. HeldIsMarked'
  <2>1. \A t \in txs : k \in Keys[t] => k \in RacedKeys
    BY <1>1 DEF HeldOnce
  <2>2. \A p \in Pool : adding[p] # NoTx /\ k \in Keys[adding[p]] => k \in RacedKeys
    BY <1>1 DEF HeldOnce
  <2>3. \A h \in Goroutine : k \in undeleted'[h] => k \in RacedKeys
    BY <1>1, <1>2 DEF HeldOnce
  <2> QED  BY <1>1, <1>2, <2>1, <2>2, <2>3 DEF HeldIsMarked
<1>5. HeldOnce'
  BY <1>2 DEF HeldOnce
<1>6. LoadedIsThere'
  <2>1. \A h \in Goroutine : victim'[h] # NoTx => victim'[h] = victim[h]
    BY <1>2
  <2>2. \A h \in Goroutine : victim'[h] # NoTx /\ undeleted'[h] = {} => undeleted[h] = {}
    BY <1>1, <1>2
  <2> QED  BY <1>2, <2>1, <2>2 DEF LoadedIsThere
<1> QED  BY <1>3, <1>4, <1>5, <1>6

\* The invariant is inductive.
LEMMA PoolInvStep == PoolInv /\ [PoolNext]_tpvars => PoolInv'
<1> SUFFICES ASSUME PoolInv, [PoolNext]_tpvars PROVE PoolInv'
  OBVIOUS
<1>1. PoolTypeOK'
  BY TypeStep DEF PoolInv
<1> DEFINE Rest == Workers' /\ HeldIsMarked' /\ HeldOnce' /\ LoadedIsThere'
<1>2. ASSUME Idle PROVE Rest
  BY <1>2, IdleStep DEF PoolInv
<1>3. ASSUME NEW t \in Tx, Add_TX_To_Pool(t) PROVE Rest
  BY <1>2, <1>3 DEF Add_TX_To_Pool, Idle, jobs
<1>4. ASSUME NEW g \in Goroutine, NEW p, NEW list, Delete(g, p, list) PROVE Rest
  BY <1>2, <1>4 DEF Delete, Idle, pools
<1>5. ASSUME CronStep PROVE Rest
  BY <1>4, <1>5 DEF CronStep, HouseKeeping, HouseKeepingRegpool, HouseKept, Goroutine
<1>6. ASSUME ConsoleStep PROVE Rest
  BY <1>4, <1>6 DEF ConsoleStep, ConsoleDone, Flush, ConsoleDelete, Goroutine
<1>7. ASSUME ChainStep PROVE Rest
  BY <1>2, <1>7 DEF ChainStep, ChainRetreats, ChainAccepts, ChainAdopts, Idle, pools, jobs
<1>8. ASSUME UNCHANGED tpvars PROVE Rest
  BY <1>2, <1>8 DEF tpvars, Idle, pools, jobs
<1>9. Rest
  BY <1>3, <1>5, <1>6, <1>7, <1>8, BeginAddStep, StoreKeyStep, StoreTxStep,
     DeleteLoadStep, DeleteTxStep, DeleteKeyStep DEF PoolNext, AddStep, DeleteStep
<1> QED  BY <1>1, <1>9 DEF PoolInv

\* A node comes up with empty pools.
LEMMA PoolInvInit == PoolInit => PoolInv
BY KeyFacts, BlockTreeAssumption
   DEF PoolInit, PoolInv, PoolTypeOK, Workers, HeldIsMarked, HeldOnce, LoadedIsThere, RacedKeys, Pool, Goroutine

\* The invariant holds in every state.
LEMMA PoolInvariant == PoolSpec => []PoolInv
<1> QED  BY PoolInvInit, PoolInvStep, PTL DEF PoolSpec

\* Every variable of the pools keeps its type.
THEOREM PoolTypeCorrect == PoolSpec => []PoolTypeOK
<1>1. PoolInv => PoolTypeOK
  BY DEF PoolInv
<1> QED  BY <1>1, PoolInvariant, PTL

\* However many transactions are added and deleted at once: a pooled transaction's
\* keys are marked and nobody else's, unless two deletions had loaded the same one.
THEOREM MarksFollowTransactions == PoolSpec => []PooledKeysAreMarked
<1>1. PoolInv => PooledKeysAreMarked
  BY DEF PoolInv, HeldIsMarked, HeldOnce, PooledKeysAreMarked
<1> QED  BY <1>1, PoolInvariant, PTL

(***************************************************************************)
(* No mark outlives what made it.                                          *)
(***************************************************************************)

\* No step leaves a mark that nobody answers for.
LEMMA MarkStep == PoolInv /\ NoMarkIsLeftBehind /\ [PoolNext]_tpvars => NoMarkIsLeftBehind'
<1> SUFFICES ASSUME PoolInv, NoMarkIsLeftBehind, [PoolNext]_tpvars, NEW k \in marked'
             PROVE  Answered(k)'
  BY DEF NoMarkIsLeftBehind
<1> USE DEF PoolInv
<1> DEFINE Same == UNCHANGED <<txs, marked, adding, unstored, undeleted>>
<1>1. ASSUME Same PROVE Answered(k)'
  BY <1>1 DEF NoMarkIsLeftBehind, Answered
<1>2. ASSUME NEW t \in Tx, Add_TX_To_Pool(t) PROVE Answered(k)'
  BY <1>1, <1>2 DEF Add_TX_To_Pool, jobs
<1>3. ASSUME NEW t \in Tx, BeginAdd(t) PROVE Answered(k)'
  <2>1. k \in marked /\ UNCHANGED <<txs, undeleted>>
    BY <1>3 DEF BeginAdd, jobs
  <2>2. \A p \in Pool : adding[p] # NoTx => adding'[p] = adding[p] /\ unstored'[p] = unstored[p]
    BY <1>3 DEF BeginAdd, PoolTypeOK
  <2> QED  BY <2>1, <2>2 DEF NoMarkIsLeftBehind, Answered
<1>4. ASSUME NEW p \in Pool, StoreKey(p) PROVE Answered(k)'
  <2>1. PICK l \in unstored[p] : /\ marked' = marked \cup {l}
                                 /\ unstored' = [unstored EXCEPT ![p] = @ \ {l}]
                                 /\ UNCHANGED <<chain, txs, checked, adding, jobs>>
    BY <1>4 DEF StoreKey
  <2>2. \A q \in Pool : unstored'[q] \subseteq unstored[q] /\ (q = p => l \notin unstored'[q])
    BY <2>1 DEF PoolTypeOK
  <2>3. UNCHANGED <<txs, adding, undeleted>>
    BY <2>1 DEF jobs
  <2>4. CASE k \in marked
    BY <2>2, <2>3, <2>4 DEF NoMarkIsLeftBehind, Answered
  <2>5. CASE k = l
    <3>1. adding[p] # NoTx /\ k \in Keys[adding[p]]
      BY <2>1, <2>5, KeyFacts DEF Workers
    <3> QED  BY <2>2, <2>3, <2>5, <3>1 DEF Answered
  <2> QED  BY <2>1, <2>4, <2>5
<1>5. ASSUME NEW p \in Pool, StoreTx(p) PROVE Answered(k)'
  <2>1. /\ txs' = txs \cup {adding[p]} /\ unstored[p] = {} /\ k \in marked
        /\ UNCHANGED <<unstored, undeleted>>
        /\ \A q \in Pool : q # p => adding'[q] = adding[q]
    BY <1>5 DEF StoreTx, PoolTypeOK, jobs
  <2> QED  BY <2>1 DEF NoMarkIsLeftBehind, Answered
<1>6. ASSUME NEW g \in Goroutine, DeleteLoad(g) PROVE Answered(k)'
  BY <1>1, <1>6 DEF DeleteLoad, pools
<1>7. ASSUME NEW g \in Goroutine, DeleteTx(g) PROVE Answered(k)'
  <2>1. /\ txs' = txs \ {victim[g]} /\ k \in marked /\ UNCHANGED <<adding, unstored>>
        /\ undeleted[g] = {} /\ undeleted'[g] = Keys[victim[g]]
        /\ \A h \in Goroutine : h # g => undeleted'[h] = undeleted[h]
    BY <1>7 DEF DeleteTx, PoolTypeOK
  <2> QED  BY <2>1 DEF NoMarkIsLeftBehind, Answered
<1>8. ASSUME NEW g \in Goroutine, DeleteKey(g) PROVE Answered(k)'
  <2>1. PICK l \in undeleted[g] : /\ marked' = marked \ {l}
                                  /\ undeleted' = [undeleted EXCEPT ![g] = @ \ {l}]
                                  /\ UNCHANGED <<chain, txs, checked, adding, unstored, pass, doomed, raced>>
    BY <1>8 DEF DeleteKey
  <2>2. \A h \in Goroutine : undeleted[h] \ {l} \subseteq undeleted'[h]
    BY <2>1 DEF PoolTypeOK
  <2> QED  BY <2>1, <2>2 DEF NoMarkIsLeftBehind, Answered
<1>9. ASSUME NEW g \in Goroutine, NEW p, NEW list, Delete(g, p, list) PROVE Answered(k)'
  BY <1>1, <1>9 DEF Delete, pools
<1>10. ASSUME CronStep PROVE Answered(k)'
  BY <1>9, <1>10 DEF CronStep, HouseKeeping, HouseKeepingRegpool, HouseKept, Goroutine
<1>11. ASSUME ConsoleStep PROVE Answered(k)'
  BY <1>9, <1>11 DEF ConsoleStep, ConsoleDone, Flush, ConsoleDelete, Goroutine
<1>12. ASSUME ChainStep PROVE Answered(k)'
  BY <1>1, <1>12 DEF ChainStep, ChainRetreats, ChainAccepts, ChainAdopts, pools, jobs
<1>13. ASSUME UNCHANGED tpvars PROVE Answered(k)'
  BY <1>1, <1>13 DEF tpvars, pools, jobs
<1> QED
  BY <1>2, <1>3, <1>4, <1>5, <1>6, <1>7, <1>8, <1>10, <1>11, <1>12, <1>13 DEF PoolNext, AddStep, DeleteStep

\* Whatever races: a mark is there only for a transaction that is pooled, being added
\* or being deleted.
THEOREM MarksAreAnsweredFor == PoolSpec => []NoMarkIsLeftBehind
<1>1. PoolInit => NoMarkIsLeftBehind
  BY DEF PoolInit, NoMarkIsLeftBehind
<1> QED  BY <1>1, PoolInvariant, MarkStep, PTL DEF PoolSpec
=============================================================================
