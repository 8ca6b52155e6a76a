---------------------------- MODULE MiningProofs ----------------------------
(***************************************************************************)
(* Theorems about Mining, for every tree of blocks, all transactions and   *)
(* any number of miniblocks.                                               *)
(*                                                                         *)
(* What a template found out about its tip stays true, because everything  *)
(* it asked is about blocks under the tip, and these are executed and      *)
(* never change: a block of this node's own is only ever written while it  *)
(* is not yet executed, since its height is entered with it.  And two of   *)
(* its transactions share a nonce only if a late deletion unmarked it: a   *)
(* transaction in a pool has a mark, or had it taken in this way.          *)
(***************************************************************************)
EXTENDS Mining, TLAPS

\* What the variables refer to is executed, all the way down.
Grounded ==
    /\ Genesis \in known /\ \A b \in known : Past[b] \subseteq known
    /\ best \in known /\ tips \subseteq known /\ adding \in known \cup {NoBlock}
    /\ seen \in known /\ tip \in known
    /\ job # NoJob => job.tip \in known

\* An own block is executed only once its height is entered.
EnteredOwn == \A b \in known \cap Own : Height[b] \in duplicate

\* Transactions in the pools have their marks, and share none, but for the raced ones.
MarksKept ==
    /\ \A t \in pool : Mark(t) \in marked \cup raced
    /\ \A t, u \in pool : t # u /\ Mark(t) = Mark(u) => Mark(t) \in raced

MiningInv ==
    MiningTypeOK /\ Grounded /\ EnteredOwn /\ MarksKept /\ TemplatesAreAcceptable

-----------------------------------------------------------------------------
(***************************************************************************)
(* Lemmas.                                                                 *)
(***************************************************************************)

\* The tree of blocks.
LEMMA TreeFacts ==
    /\ Genesis \in Block /\ Past[Genesis] = {Genesis} /\ NoBlock \notin Block
    /\ MaxHeight \in Nat /\ Height[Genesis] = 0
    /\ \A b \in Block : Height[b] \in 0..MaxHeight /\ Parent[b] \in Block
    /\ \A b \in Block \ {Genesis} : /\ Past[b] = Past[Parent[b]] \cup {b}
                                    /\ Height[b] = Height[Parent[b]] + 1
                                    /\ Height[b] \in 1..MaxHeight
    /\ STABLE_LIMIT \in Nat /\ Quorum \in Nat
<1>1. \A b \in Block : Height[b] \in 0..MaxHeight /\ Parent[b] \in Block
  BY BlockTreeAssumption
<1>2. \A b \in Block \ {Genesis} : Height[b] = Height[Parent[b]] + 1
  BY MiningAssumption DEF WellPlaced
<1>3. \A b \in Block \ {Genesis} : Height[b] \in 1..MaxHeight
  <2> SUFFICES ASSUME NEW b \in Block \ {Genesis} PROVE Height[b] \in 1..MaxHeight
    OBVIOUS
  <2>1. MaxHeight \in Nat /\ Height[b] \in 0..MaxHeight /\ Height[Parent[b]] \in 0..MaxHeight
    BY <1>1, BlockTreeAssumption
  <2>2. Height[b] = Height[Parent[b]] + 1
    BY <1>2
  <2> QED BY <2>1, <2>2
<1> QED BY <1>1, <1>2, <1>3, BlockTreeAssumption, MiningAssumption

\* A block is under itself.
LEMMA OwnPast == \A b \in Block : b \in Past[b]
BY TreeFacts

\* NoJob is not a template.
LEMMA NoJobFacts ==
    /\ \A j \in [tip : Block, txs : SUBSET Tx, full : BOOLEAN] : j # NoJob
    /\ NoJob.tip = NoBlock /\ NoJob.full = FALSE
BY TreeFacts DEF NoJob

\* A step that executes no block keeps what is known of the blocks.
LEMMA BlocksKept ==
    ASSUME MiningInv, known' = known, UNCHANGED duplicate
    PROVE  EnteredOwn' /\ \A b \in known' : Past[b] \subseteq known'
BY DEF MiningInv, EnteredOwn, Grounded

\* What was found out about a block's past stays true while the past is not written.
LEMMA ValidKept ==
    ASSUME NEW b, \A c \in Past[b] : TxsOf(c)' = TxsOf(c), NEW txs
    PROVE  Valid(txs, b)' <=> Valid(txs, b)
<1>1. \A t : CheckNonce(t, b)' <=> CheckNonce(t, b)
  <2> SUFFICES ASSUME NEW t PROVE CheckNonce(t, b)' <=> CheckNonce(t, b)
    OBVIOUS
  <2>1. CheckNonce(t, b) <=>
          \A c \in Past[b] \ Past[Ref[t]] : \A u \in TxsOf(c) \cap Transfer : \A a \in Half[u] \cap Half[t] :
             \E d \in Past[b] : /\ Height[d] > Height[c]
                               /\ \E r \in TxsOf(d) \cap Registration : Address[r] = a
    BY DEF CheckNonce
  <2>2. CheckNonce(t, b)' <=>
          \A c \in Past[b] \ Past[Ref[t]] : \A u \in TxsOf(c)' \cap Transfer : \A a \in Half[u] \cap Half[t] :
             \E d \in Past[b] : /\ Height[d] > Height[c]
                               /\ \E r \in TxsOf(d)' \cap Registration : Address[r] = a
    BY DEF CheckNonce
  <2> QED BY <2>1, <2>2
<1> QED BY <1>1 DEF Valid, Referable, Compatible

\* If the job is kept, what is known of it is kept, too.
LEMMA JobKept ==
    ASSUME MiningInv, UNCHANGED job, raced \subseteq raced',
           \A c \in known : TxsOf(c)' = TxsOf(c), known \subseteq known'
    PROVE  TemplatesAreAcceptable' /\ (job' # NoJob => job'.tip \in known')
<1> SUFFICES ASSUME job # NoJob
             PROVE  /\ job.tip \in known' /\ Valid(job.txs, job.tip)'
                    /\ \A t, u \in job.txs : t # u /\ Mark(t) = Mark(u) => Mark(t) \in raced'
  BY DEF TemplatesAreAcceptable, Mark
<1>1. /\ job.tip \in known /\ Valid(job.txs, job.tip)
      /\ \A t, u \in job.txs : t # u /\ Mark(t) = Mark(u) => Mark(t) \in raced
  BY DEF MiningInv, TemplatesAreAcceptable
<1>2. PICK b, txs : b = job.tip /\ txs = job.txs
  OBVIOUS
<1>3. \A c \in Past[b] : TxsOf(c)' = TxsOf(c)
  BY <1>1, <1>2 DEF MiningInv, Grounded
<1>4. Valid(txs, b)' <=> Valid(txs, b)
  BY <1>3, ValidKept
<1>5. Valid(job.txs, job.tip)'
  BY <1>1, <1>2, <1>4
<1> QED BY <1>1, <1>5

-----------------------------------------------------------------------------
(***************************************************************************)
(* The steps.                                                              *)
(***************************************************************************)

LEMMA InitInv == MiningInit => MiningInv
<1> SUFFICES ASSUME MiningInit PROVE MiningInv
  OBVIOUS
<1>1. MiningTypeOK
  BY TreeFacts DEF MiningInit, MiningTypeOK
<1>2. Grounded
  BY TreeFacts DEF MiningInit, Grounded
<1>3. EnteredOwn /\ MarksKept
  BY MiningAssumption DEF MiningInit, EnteredOwn, MarksKept
<1>4. TemplatesAreAcceptable
  BY DEF MiningInit, TemplatesAreAcceptable
<1> QED BY <1>1, <1>2, <1>3, <1>4 DEF MiningInv

\* A step that only changes the votes, the tips, the top or the pools.
LEMMA LightInv ==
    ASSUME MiningInv, known' = known, UNCHANGED <<body, template, duplicate>>,
           best' \in known, tips' \subseteq known, adding' \in known \cup {NoBlock},
           pool' \subseteq Tx, marked' \cup late' \cup raced' \subseteq {Mark(t) : t \in Tx},
           raced \subseteq raced', MarksKept', votes' \in [Block -> 0..Quorum]
    PROVE  MiningInv'
<1>1. EnteredOwn' /\ \A b \in known' : Past[b] \subseteq known'
  BY BlocksKept
<1>2. TemplatesAreAcceptable' /\ (job' # NoJob => job'.tip \in known')
  BY JobKept DEF TxsOf, template
<1>3. MiningTypeOK'
  BY DEF MiningInv, MiningTypeOK, template, Mark
<1>4. Grounded'
  BY <1>1, <1>2 DEF MiningInv, Grounded, template
<1> QED BY <1>1, <1>2, <1>3, <1>4 DEF MiningInv

\* The pools stay as they are.
LEMMA PoolsKept ==
    ASSUME MiningInv, UNCHANGED pools
    PROVE  /\ MarksKept' /\ raced \subseteq raced' /\ pool' \subseteq Tx
           /\ marked' \cup late' \cup raced' \subseteq {Mark(t) : t \in Tx}
BY DEF MiningInv, MiningTypeOK, MarksKept, pools, Mark

LEMMA NetworkBlockInv == ASSUME MiningInv, NEW b \in Network, NetworkBlock(b) PROVE MiningInv'
<1> USE DEF MiningInv
<1>0. b \in Block \ {Genesis} /\ b \notin Own
  BY DEF Network
<1>1. /\ Parent[b] \in known /\ known' = known \cup {b} /\ best' = best /\ adding' = b
      /\ UNCHANGED <<tips, body, pools, votes, stage, seen, tip, job, duplicate>>
  BY DEF NetworkBlock, Store, Addable, Accept, template
<1>2. \A c : TxsOf(c)' = TxsOf(c)
  BY <1>1 DEF TxsOf
<1>3. /\ MarksKept' /\ raced \subseteq raced' /\ pool' \subseteq Tx
      /\ marked' \cup late' \cup raced' \subseteq {Mark(t) : t \in Tx}
  BY <1>1, PoolsKept
<1>4. TemplatesAreAcceptable' /\ (job' # NoJob => job'.tip \in known')
  BY <1>1, <1>2, <1>3, JobKept
<1>5. \A c \in known' : Past[c] \subseteq known'
  BY <1>0, <1>1, TreeFacts DEF Grounded
<1>6. MiningTypeOK'
  BY <1>0, <1>1, <1>3 DEF MiningTypeOK, Mark
<1>7. Grounded'
  BY <1>1, <1>4, <1>5 DEF Grounded
<1>8. EnteredOwn'
  BY <1>0, <1>1 DEF EnteredOwn
<1> QED BY <1>3, <1>4, <1>6, <1>7, <1>8

LEMMA AcceptFinalInv == ASSUME MiningInv, NEW b \in Own, AcceptFinal(b) PROVE MiningInv'
<1> USE DEF MiningInv
<1>0. b \in Block \ {Genesis}
  BY MiningAssumption
<1>1. /\ Parent[b] = job.tip /\ Parent[b] \in known /\ known' = known \cup {b} /\ best' = best /\ adding' = b
      /\ UNCHANGED <<tips, pools, votes, stage, seen, tip, job>>
      /\ Height[b] \notin duplicate /\ duplicate' = duplicate \cup {Height[b]}
      /\ body' = [body EXCEPT ![b] = job.txs]
      /\ job.full
  BY DEF AcceptFinal, Store, Addable, Accept, template
<1>2. b \notin known
  BY <1>1 DEF EnteredOwn
<1>3. job # NoJob /\ job.txs \subseteq Tx
  BY <1>1, NoJobFacts DEF MiningTypeOK
<1>4. body \in [Own -> SUBSET Tx]
  BY DEF MiningTypeOK
<1>5. \A c \in known : TxsOf(c)' = TxsOf(c)
  BY <1>1, <1>2, <1>4 DEF TxsOf
<1>6. /\ MarksKept' /\ raced \subseteq raced' /\ pool' \subseteq Tx
      /\ marked' \cup late' \cup raced' \subseteq {Mark(t) : t \in Tx}
  BY <1>1, PoolsKept
<1>7. TemplatesAreAcceptable' /\ (job' # NoJob => job'.tip \in known')
  BY <1>1, <1>5, <1>6, JobKept
<1>8. \A c \in known' : Past[c] \subseteq known'
  BY <1>0, <1>1, TreeFacts DEF Grounded
<1>9. MiningTypeOK'
  <2>1. duplicate' \subseteq 1..MaxHeight
    <3>1. Height[b] \in 1..MaxHeight
      BY <1>0, TreeFacts
    <3>2. duplicate \subseteq 1..MaxHeight
      BY DEF MiningTypeOK
    <3> QED BY <1>1, <3>1, <3>2
  <2>2. body' \in [Own -> SUBSET Tx]
    BY <1>1, <1>3, <1>4
  <2>3. known' \subseteq Block /\ best' \in Block /\ tips' \subseteq Block /\ adding' \in Block \cup {NoBlock}
    BY <1>0, <1>1 DEF MiningTypeOK
  <2>4. /\ votes' \in [Block -> 0..Quorum]
        /\ stage' \in {"idle", "top", "tip"} /\ seen' \in Block /\ tip' \in Block
        /\ job' \in [tip : Block, txs : SUBSET Tx, full : BOOLEAN] \cup {NoJob}
    BY <1>1 DEF MiningTypeOK
  <2> QED BY <1>6, <2>1, <2>2, <2>3, <2>4 DEF MiningTypeOK, Mark
<1>10. Grounded'
  BY <1>1, <1>7, <1>8 DEF Grounded
<1>11. EnteredOwn'
  BY <1>1 DEF EnteredOwn
<1> QED BY <1>6, <1>7, <1>9, <1>10, <1>11

LEMMA AssembleInv == ASSUME MiningInv, Assemble PROVE MiningInv'
<1> USE DEF MiningInv
<1>1. PICK s \in Selections :
         job' = [tip |-> tip, txs |-> TakeRegistrations \cup s, full |-> votes[tip] = Quorum]
  BY DEF Assemble
<1>2. /\ stage' = "idle" /\ seen' = Genesis /\ tip' = Genesis
      /\ UNCHANGED <<known, best, tips, adding, body, pools, votes, duplicate>>
  BY DEF Assemble
<1>3. /\ s \subseteq Candidates
      /\ \A t \in s : \A u \in s \ {t} : Compatible(t, u)
  BY DEF Selections
<1>4. s \subseteq pool \cap Transfer /\ TakeRegistrations \subseteq pool \cap Registration
  BY <1>3 DEF Candidates, TakeRegistrations
<1>5. PICK txs : txs = TakeRegistrations \cup s
  OBVIOUS
<1>6. txs \subseteq pool /\ txs \cap Transfer = s
  BY <1>4, <1>5, MiningAssumption
<1>7. Valid(txs, tip)
  <2>1. \A t \in s : Referable(t, tip) /\ CheckNonce(t, tip)
    BY <1>3 DEF Candidates
  <2>2. \A t, u \in s : Compatible(t, u)
    BY <1>3 DEF Compatible
  <2> QED BY <1>6, <2>1, <2>2 DEF Valid
<1>8. PICK b : b = tip
  OBVIOUS
<1>9. Valid(txs, b)'
  <2>1. \A c \in Past[b] : TxsOf(c)' = TxsOf(c)
    BY <1>2 DEF TxsOf
  <2>2. Valid(txs, b)' <=> Valid(txs, b)
    BY <2>1, ValidKept
  <2> QED BY <1>7, <1>8, <2>2
<1>10. job'.tip = b /\ job'.txs = txs /\ b \in known'
  BY <1>1, <1>2, <1>5, <1>8 DEF Grounded
<1>11. /\ MarksKept' /\ raced \subseteq raced' /\ pool' \subseteq Tx
       /\ marked' \cup late' \cup raced' \subseteq {Mark(t) : t \in Tx}
  BY <1>2, PoolsKept
<1>12. TemplatesAreAcceptable'
  <2>1. \A t, u \in txs : t # u /\ Mark(t) = Mark(u) => Mark(t) \in raced'
    BY <1>6, <1>11 DEF MarksKept, pools
  <2>2. Valid(job.txs, job.tip)'
    BY <1>9, <1>10
  <2> QED BY <1>10, <2>1, <2>2 DEF TemplatesAreAcceptable, Mark
<1>13. EnteredOwn' /\ \A c \in known' : Past[c] \subseteq known'
  BY <1>2, BlocksKept
<1>14. MiningTypeOK'
  <2>1. job' \in [tip : Block, txs : SUBSET Tx, full : BOOLEAN]
    <3>1. TakeRegistrations \cup s \in SUBSET Tx /\ (votes[tip] = Quorum) \in BOOLEAN
      BY <1>4 DEF Tx
    <3> QED BY <1>1, <3>1 DEF MiningTypeOK
  <2> QED BY <1>2, <1>11, <2>1, TreeFacts DEF MiningTypeOK, Mark
<1>15. Grounded'
  BY <1>2, <1>10, <1>13 DEF Grounded
<1> QED BY <1>11, <1>12, <1>13, <1>14, <1>15

LEMMA ReadTopInv == ASSUME MiningInv, ReadTop \/ PickTip PROVE MiningInv'
<1> USE DEF MiningInv
<1>1. UNCHANGED <<known, best, tips, adding, body, pools, votes, job, duplicate>>
  BY DEF ReadTop, PickTip
<1>2. EnteredOwn' /\ \A b \in known' : Past[b] \subseteq known'
  BY <1>1, BlocksKept
<1>3. /\ MarksKept' /\ raced \subseteq raced' /\ pool' \subseteq Tx
      /\ marked' \cup late' \cup raced' \subseteq {Mark(t) : t \in Tx}
  BY <1>1, PoolsKept
<1>4. TemplatesAreAcceptable' /\ (job' # NoJob => job'.tip \in known')
  BY <1>1, <1>3, JobKept DEF TxsOf
<1>5. stage' \in {"idle", "top", "tip"} /\ seen' \in known /\ tip' \in known
  <2>1. CASE ReadTop
    BY <2>1 DEF ReadTop, Grounded
  <2>2. CASE PickTip
    <3>1. \A t \in Voted : t \in known
      BY DEF Voted, Expandable, Grounded
    <3>2. tip' \in tips \cup Voted
      BY <2>2 DEF PickTip
    <3> QED BY <2>2, <3>1, <3>2 DEF PickTip, Grounded
  <2> QED BY <2>1, <2>2
<1>6. MiningTypeOK'
  BY <1>1, <1>3, <1>5 DEF MiningTypeOK, Mark
<1>7. Grounded'
  BY <1>1, <1>2, <1>4, <1>5 DEF Grounded
<1> QED BY <1>2, <1>3, <1>4, <1>6, <1>7

\* Votes are counted up to the number of miniblocks of a block.
LEMMA InsertInv == ASSUME MiningInv, NEW t \in Block, InsertMiniBlock(t) PROVE MiningInv'
<1>1. /\ UNCHANGED <<known, best, tips, adding, body, pools, template, duplicate>>
      /\ votes[t] < Quorum /\ votes' = [votes EXCEPT ![t] = @ + 1]
  BY DEF InsertMiniBlock, template
<1>2. votes \in [Block -> 0..Quorum] /\ Quorum \in Nat
  BY TreeFacts DEF MiningInv, MiningTypeOK
<1>3. votes[t] + 1 \in 0..Quorum
  BY <1>1, <1>2
<1>4. votes' \in [Block -> 0..Quorum]
  BY <1>1, <1>2, <1>3
<1>5. best' \in known /\ tips' \subseteq known /\ adding' \in known \cup {NoBlock}
  BY <1>1 DEF MiningInv, MiningTypeOK, Grounded
<1> QED BY <1>1, <1>4, <1>5, PoolsKept, LightInv

\* The rest of an addition, and a rewind.
LEMMA ChainInv == ASSUME MiningInv, AddStep \/ Rewind PROVE MiningInv'
<1>1. /\ UNCHANGED <<known, body, pools, template, duplicate>>
      /\ best' \in known /\ tips' \subseteq known /\ adding' \in known \cup {NoBlock}
      /\ votes' \in [Block -> 0..Quorum]
  <2>0. votes \in [Block -> 0..Quorum] /\ 0 \in 0..Quorum
    BY TreeFacts DEF MiningInv, MiningTypeOK
  <2>1. CASE MoveTop
    BY <2>0, <2>1 DEF MoveTop, Adopt, MiningInv, Grounded, template
  <2>2. CASE EnterTips
    <3>1. PurgeHeight(Height[best] - STABLE_LIMIT) \in [Block -> 0..Quorum]
      BY <2>0 DEF PurgeHeight
    <3> QED BY <2>2, <3>1 DEF EnterTips, MiningInv, Grounded, template
  <2>3. CASE Rewind
    <3>1. known' = known /\ best' \in known
      <4>1. CASE Retreat
        <5>1. best \in Block \ {Genesis} /\ best' = Parent[best] /\ known' = known
          BY <4>1, TreeFacts DEF Retreat, MiningInv, MiningTypeOK
        <5>2. Past[best] = Past[Parent[best]] \cup {best} /\ Past[best] \subseteq known
          BY <5>1, TreeFacts DEF MiningInv, Grounded
        <5> QED BY <5>1, <5>2, OwnPast, TreeFacts
      <4>2. CASE UNCHANGED <<known, best>>
        BY <4>2 DEF MiningInv, Grounded
      <4> QED BY <2>3, <4>1, <4>2 DEF Rewind
    <3> QED BY <2>0, <2>3, <3>1 DEF Rewind, MiningInv, Grounded, template
  <2> QED BY <2>1, <2>2, <2>3 DEF AddStep
<1> QED BY <1>1, PoolsKept, LightInv

\* An addition marks; a deletion unmarks what it takes out, unless it comes too late.
LEMMA PoolInv == ASSUME MiningInv, PoolStep PROVE MiningInv'
<1>1. UNCHANGED <<known, best, tips, adding, body, votes, template, duplicate>>
  BY DEF PoolStep, UnmarkLate, AddTx, DropTx, template
<1>2. /\ MarksKept' /\ raced \subseteq raced' /\ pool' \subseteq Tx
      /\ marked' \cup late' \cup raced' \subseteq {Mark(t) : t \in Tx}
  <2>0. /\ \A w : Mark(w)' = Mark(w)
        /\ pool \subseteq Tx /\ marked \cup late \cup raced \subseteq {Mark(t) : t \in Tx}
        /\ \A t \in pool : Mark(t) \in marked \cup raced
        /\ \A t, u \in pool : t # u /\ Mark(t) = Mark(u) => Mark(t) \in raced
    BY DEF MiningInv, MiningTypeOK, MarksKept, Mark
  <2>1. CASE UnmarkLate
    <3>1. /\ pool' = pool /\ marked' = marked \ late /\ late' = {}
          /\ raced' = raced \cup {Mark(t) : t \in {u \in pool : Mark(u) \in late}}
      BY <2>1 DEF UnmarkLate
    <3> QED BY <2>0, <3>1 DEF MarksKept
  <2>2. ASSUME NEW t \in Tx, AddTx(t)
        PROVE  /\ MarksKept' /\ raced \subseteq raced' /\ pool' \subseteq Tx
               /\ marked' \cup late' \cup raced' \subseteq {Mark(w) : w \in Tx}
    <3>1. /\ pool' = pool \cup {t} /\ marked' = marked \cup {Mark(t)}
          /\ late' = late /\ raced' = raced /\ Mark(t) \notin marked
      BY <2>2 DEF AddTx
    <3> QED BY <2>0, <3>1 DEF MarksKept
  <2>3. ASSUME NEW t \in Tx, DropTx(t)
        PROVE  /\ MarksKept' /\ raced \subseteq raced' /\ pool' \subseteq Tx
               /\ marked' \cup late' \cup raced' \subseteq {Mark(w) : w \in Tx}
    <3>1. /\ pool' = pool \ {t} /\ marked' = marked \ {Mark(t)} /\ t \in pool
          /\ late' = late \/ late' = {Mark(t)}
          /\ raced' = raced
      BY <2>3 DEF DropTx
    <3>2. MarksKept'
      BY <2>0, <3>1 DEF MarksKept
    <3> QED BY <2>0, <3>1, <3>2
  <2> QED BY <2>1, <2>2, <2>3 DEF PoolStep
<1>3. /\ best' \in known /\ tips' \subseteq known /\ adding' \in known \cup {NoBlock}
      /\ votes' \in [Block -> 0..Quorum]
  BY <1>1 DEF MiningInv, MiningTypeOK, Grounded
<1> QED BY <1>1, <1>2, <1>3, LightInv

LEMMA NextInv == ASSUME MiningInv, [MiningNext]_mvars PROVE MiningInv'
<1>1. CASE ChainStep
  BY <1>1, NetworkBlockInv, ChainInv DEF ChainStep
<1>2. CASE AddStep
  BY <1>2, ChainInv
<1>3. CASE PoolStep
  BY <1>3, PoolInv
<1>4. CASE TemplateStep
  BY <1>4, ReadTopInv, AssembleInv DEF TemplateStep
<1>5. CASE AcceptVote
  <2>1. job # NoJob => job.tip \in Block
    BY DEF MiningInv, MiningTypeOK
  <2> QED BY <1>5, <2>1, InsertInv DEF AcceptVote
<1>6. CASE Submit
  BY <1>6, AcceptFinalInv DEF Submit
<1>7. CASE \E t \in Block : NotifyMiniBlock(t)
  BY <1>7, InsertInv DEF NotifyMiniBlock
<1>8. CASE UNCHANGED mvars
  <2>1. UNCHANGED <<known, best, tips, adding, body, pools, votes, template, duplicate>>
    BY <1>8 DEF mvars
  <2>2. /\ best' \in known /\ tips' \subseteq known /\ adding' \in known \cup {NoBlock}
        /\ votes' \in [Block -> 0..Quorum]
    BY <2>1 DEF MiningInv, MiningTypeOK, Grounded
  <2> QED BY <2>1, <2>2, PoolsKept, LightInv
<1> QED BY <1>1, <1>2, <1>3, <1>4, <1>5, <1>6, <1>7, <1>8 DEF MiningNext

-----------------------------------------------------------------------------
(***************************************************************************)
(* Theorems.                                                               *)
(***************************************************************************)

\* The inductive invariant of mining: what a job learnt about the blocks under its tip
\* stays true while the chain, the pools and the votes move on.
THEOREM MiningInvariant == MiningSpec => []MiningInv
<1>1. MiningInit => MiningInv
  BY InitInv
<1>2. MiningInv /\ [MiningNext]_mvars => MiningInv'
  BY NextInv
<1> QED BY <1>1, <1>2, PTL DEF MiningSpec

\* Every variable keeps its type: votes never exceed the miniblocks of a block.
THEOREM MiningTypeCorrect == MiningSpec => []MiningTypeOK
<1>1. MiningInv => MiningTypeOK
  BY DEF MiningInv
<1> QED BY <1>1, MiningInvariant, PTL

\* Add_Complete_Block would accept the transactions of every job on the job's tip, at
\* any time after the job was handed out, but for a nonce that a late deletion unmarked.
THEOREM TemplatesStayAcceptable == MiningSpec => []TemplatesAreAcceptable
<1>1. MiningInv => TemplatesAreAcceptable
  BY DEF MiningInv
<1> QED BY <1>1, MiningInvariant, PTL

\* No addition to the chain loses a miniblock for a block above the new top.
THEOREM VotesAreKept == MiningSpec => VotesSurvive
<1>1. ASSUME MiningInv, [MiningNext]_mvars, ~ Rewind,
             NEW t \in Block, Height[t] >= Height[best']
      PROVE  votes'[t] >= votes[t]
  <2>0. /\ votes \in [Block -> 0..Quorum] /\ votes[t] \in Nat /\ best \in Block /\ best' \in Block
        /\ Height[t] \in Nat /\ Height[best] \in Nat /\ Height[best'] \in Nat /\ STABLE_LIMIT \in Nat
    BY <1>1, NextInv, TreeFacts DEF MiningInv, MiningTypeOK
  <2>1. CASE \E u \in Block : InsertMiniBlock(u)
    <3>1. PICK u \in Block : votes' = [votes EXCEPT ![u] = votes[u] + 1]
      BY <2>1 DEF InsertMiniBlock
    <3>2. votes'[t] = IF t = u THEN votes[t] + 1 ELSE votes[t]
      BY <2>0, <3>1
    <3> QED BY <2>0, <3>2
  <2>2. CASE EnterTips
    <3>1. best' = best /\ votes' = PurgeHeight(Height[best] - STABLE_LIMIT)
      BY <2>2 DEF EnterTips
    <3>2. ~ (Height[t] + 1 <= Height[best] - STABLE_LIMIT)
      BY <1>1, <2>0, <3>1
    <3>3. votes'[t] = votes[t]
      BY <3>1, <3>2 DEF PurgeHeight
    <3> QED BY <2>0, <3>3
  <2>3. CASE votes' = votes
    BY <2>0, <2>3
  <2>4. \/ \E u \in Block : InsertMiniBlock(u)
        \/ EnterTips \/ votes' = votes
    <3>1. CASE AcceptVote
      <4>1. job # NoJob => job.tip \in Block
        BY <1>1 DEF MiningInv, MiningTypeOK
      <4> QED BY <3>1, <4>1 DEF AcceptVote
    <3>2. CASE ~ AcceptVote
      BY <1>1, <3>2 DEF MiningNext, ChainStep, AddStep, PoolStep, TemplateStep, Submit, NotifyMiniBlock,
                 NetworkBlock, MoveTop, UnmarkLate, AddTx, DropTx, ReadTop, PickTip, Assemble, AcceptFinal, mvars
    <3> QED BY <3>1, <3>2
  <2> QED BY <2>1, <2>2, <2>3, <2>4
<1>2. MiningInv /\ [MiningNext]_mvars
        => [~ Rewind => \A t \in Block : Height[t] >= Height[best'] => votes'[t] >= votes[t]]_mvars
  BY <1>1
<1> QED BY <1>2, MiningInvariant, PTL DEF MiningSpec, VotesSurvive
=============================================================================
