-------------------------- MODULE ChainSyncProofs --------------------------
(***************************************************************************)
(* Theorems about ChainSync, for every tree of blocks and every spacing of *)
(* the locator whose first run is longer than STABLE_LIMIT.                *)
(*                                                                         *)
(* As long as the top stays where it was when the locator was begun, the   *)
(* locator holds the first RUN blocks of the chain as far as it has come.  *)
(* So whatever block of the last STABLE_LIMIT the peer has, it finds it or *)
(* a higher one.                                                           *)
(***************************************************************************)
EXTENDS ChainSync, Arithmetic

\* What is executed is executed all the way down.
Closed == \A b \in known : Past[b] \subseteq known

\* The locator so far, of a chain whose top has not moved.
LocatorOfTop ==
    /\ stage = "locate" => (len < RUN => i = len) /\ (len >= RUN => i >= RUN)
    /\ stage \in {"locate", "answer"} /\ ~ moved =>
         /\ start_point = Height[best]
         /\ locator \subseteq Past[best]
         /\ \A d \in 0..(Height[best] - 1) :
               d < RUN /\ (d < i \/ stage = "answer") => At(best, Height[best] - d) \in locator

\* The common block is one, and none of the last STABLE_LIMIT is higher.
AnswerForTop ==
    stage = "decide" /\ ~ moved =>
        /\ common \in Past[best] \cap Past[theirs]
        /\ \A c \in Past[best] \cap Past[theirs] :
              Height[best] - Height[c] <= STABLE_LIMIT => Height[c] <= Height[common]

\* What is to be popped is what is above the common block.
CountForTop ==
    stage = "rewind" /\ ~ moved =>
        /\ common \in Past[best] \cap Past[theirs]
        /\ pop_count = Height[best] - Height[common]

SyncInv == SyncTypeOK /\ Closed /\ LocatorOfTop /\ AnswerForTop /\ CountForTop

-----------------------------------------------------------------------------
(***************************************************************************)
(* Lemmas.                                                                 *)
(***************************************************************************)

\* The constants.
LEMMA Constants ==
    /\ Genesis \in Block /\ Height[Genesis] = 0 /\ MaxHeight \in Nat
    /\ \A b \in Block : Height[b] \in Nat /\ Height[b] <= MaxHeight
    /\ RUN \in Nat /\ STRIDE \in Nat /\ STRIDE > 0 /\ STABLE_LIMIT \in Nat /\ STABLE_LIMIT < RUN
<1>1. \A b \in Block : Height[b] \in 0..MaxHeight
  BY BlockTreeAssumption
<1> QED BY <1>1, BlockTreeAssumption, SyncAssumption

\* What is under a block.
LEMMA PastFacts ==
    ASSUME NEW b \in Block
    PROVE  /\ Past[b] \subseteq Block /\ b \in Past[b] /\ Genesis \in Past[b]
           /\ \A c \in Past[b] : Past[c] \subseteq Past[b]
           /\ \A c, d \in Past[b] : Height[c] = Height[d] => c = d
           /\ b # Genesis => Past[b] = Past[Parent[b]] \cup {b}
BY SyncAssumption

\* There is one block at each height under a block.
LEMMA AtFacts ==
    ASSUME NEW b \in Block, NEW h \in Nat, h <= Height[b]
    PROVE  /\ At(b, h) \in Past[b] /\ Height[At(b, h)] = h
           /\ \A c \in Past[b] : Height[c] = h => c = At(b, h)
<1>1. h \in 0..Height[b]
  BY Constants
<1>2. \E c \in Past[b] : Height[c] = h
  BY <1>1, SyncAssumption
<1>3. At(b, h) \in Past[b] /\ Height[At(b, h)] = h
  BY <1>2 DEF At
<1> QED BY <1>3, PastFacts

\* The next entry is below the last one, next to it within the first run.
LEMMA AdvanceFacts ==
    ASSUME i \in Nat, NEW n \in Nat
    PROVE  Advance(n) \in Nat /\ Advance(n) >= i /\ (n < RUN => Advance(n) = i + 1)
BY Constants DEF Advance

\* An addition keeps the executed blocks a tree, and says if the top has moved.
LEMMA AddKeeps ==
    ASSUME SyncInv, NEW b \in Block, Add_Complete_Block(b)
    PROVE  /\ known' \subseteq Block /\ best' \in known' /\ Past[best'] \subseteq known'
           /\ moved' \in BOOLEAN /\ Closed'
           /\ ~ moved' => ~ moved /\ best' = best
<1> USE DEF SyncInv, SyncTypeOK
<1>1. CASE Addable(b)
  <2>1. b # Genesis /\ Parent[b] \in known
    BY <1>1, PastFacts DEF Addable
  <2>2. Past[b] \subseteq known \cup {b}
    BY <2>1, PastFacts DEF Closed
  <2>3. known' = known \cup {b} /\ best' \in {b, best}
    BY <1>1 DEF Add_Complete_Block
  <2>4. Closed'
    BY <2>2, <2>3 DEF Closed
  <2>5. moved' = (moved \/ best' # best)
    BY <1>1 DEF Add_Complete_Block
  <2> QED BY <2>3, <2>4, <2>5 DEF Closed
<1>2. CASE ~ Addable(b)
  BY <1>2 DEF Add_Complete_Block, Closed
<1> QED BY <1>1, <1>2

\* So does a rewind.
LEMMA RewindKeeps ==
    ASSUME SyncInv, NEW count \in Nat, Rewind_Chain(count)
    PROVE  /\ known' = known /\ best' \in known' /\ Past[best'] \subseteq known'
           /\ moved' \in BOOLEAN /\ Closed'
           /\ ~ moved' => ~ moved /\ best' = best
<1> USE DEF SyncInv, SyncTypeOK
<1>1. best \in Block /\ Height[best] \in Nat
  BY Constants
<1>2. best' \in Past[best]
  <2>1. CASE count <= Height[best] /\ Height[best] > 1
    <3> DEFINE h == IF count = Height[best] THEN 1 ELSE Height[best] - count
    <3>1. h \in Nat /\ h <= Height[best]
      BY <1>1, <2>1
    <3>2. best' = At(best, h)
      BY <2>1 DEF Rewind_Chain
    <3> QED BY <1>1, <3>1, <3>2, AtFacts
  <2>2. CASE ~ (count <= Height[best] /\ Height[best] > 1)
    BY <1>1, <2>2, PastFacts DEF Rewind_Chain
  <2> QED BY <2>1, <2>2
<1>3. known' = known /\ moved' = (moved \/ best' # best)
  BY DEF Rewind_Chain
<1>4. Closed'
  BY <1>3 DEF Closed
<1>5. best' \in known' /\ Past[best'] \subseteq known'
  BY <1>1, <1>2, <1>3, <1>4, PastFacts DEF Closed
<1> QED BY <1>3, <1>4, <1>5

\* What goes on outside sync_chain disturbs what it has found out only if the top moves.
LEMMA Disturbed ==
    ASSUME SyncInv, ~ moved' => ~ moved /\ best' = best,
           UNCHANGED <<stage, request, response>>
    PROVE  LocatorOfTop' /\ AnswerForTop' /\ CountForTop'
<1> USE DEF SyncInv, request, response
<1>1. UNCHANGED <<stage, start_point, i, len, locator, common, theirs, next, pop_count>>
  BY DEF request, response
<1>2. CASE ~ moved'
  <2>1. \A h : At(best, h)' = At(best, h)
    BY <1>2 DEF At
  <2> QED BY <1>1, <1>2 DEF LocatorOfTop, AnswerForTop, CountForTop, At
<1>3. CASE moved'
  BY <1>1, <1>3 DEF LocatorOfTop, AnswerForTop, CountForTop
<1> QED BY <1>2, <1>3

\* A locator begun anew knows nothing.
LEMMA Anew ==
    ASSUME SyncInv, TryAgain, UNCHANGED <<known, best, others>>
    PROVE  SyncInv'
<1> USE DEF SyncInv, SyncTypeOK
<1>1. Height[best] \in Position
  BY BlockTreeAssumption DEF Position
<1>0. 0 \in Position /\ 0 \in Nat
  BY Constants DEF Position
<1>2. SyncTypeOK'
  BY <1>0, <1>1, Constants DEF TryAgain, others
<1>3. LocatorOfTop'
  <2>1. stage' = "locate" /\ len' = 0 /\ i' = 0 /\ locator' = {} /\ start_point' = Height[best]
    BY DEF TryAgain
  <2>2. ~ \E d \in Nat : d < 0
    BY SMT
  <2> QED BY <2>1, <2>2, Constants DEF LocatorOfTop
<1>4. AnswerForTop' /\ CountForTop'
  BY DEF TryAgain, AnswerForTop, CountForTop
<1> QED BY <1>2, <1>3, <1>4 DEF Closed

\* Between two calls of sync_chain nothing is claimed.
LEMMA AtRest ==
    ASSUME SyncInv, Idle, UNCHANGED <<known, best, moved, others>>
    PROVE  SyncInv'
BY Constants DEF SyncInv, SyncTypeOK, Idle, others, Closed, LocatorOfTop, AnswerForTop, CountForTop, Position

-----------------------------------------------------------------------------
(***************************************************************************)
(* The steps.                                                              *)
(***************************************************************************)

LEMMA InitInv == SyncInit => SyncInv
<1> SUFFICES ASSUME SyncInit PROVE SyncInv
  OBVIOUS
<1>1. SyncTypeOK
  <2>1. 0 \in Position /\ 0 \in Nat
    BY Constants DEF Position
  <2>2. chunks \in [Relayed -> {"none", "open", "processed"}]
    BY DEF SyncInit
  <2>3. known \subseteq Block /\ best \in known /\ Past[best] \subseteq known
    BY PastFacts DEF SyncInit
  <2> QED BY <2>1, <2>2, <2>3, Constants DEF SyncInit, SyncTypeOK
<1>2. Closed
  BY PastFacts DEF SyncInit, Closed
<1> QED BY <1>1, <1>2 DEF SyncInv, SyncInit, LocatorOfTop, AnswerForTop, CountForTop

LEMMA LocateInv == ASSUME SyncInv, Locate PROVE SyncInv'
<1> USE DEF SyncInv, SyncTypeOK
<1>0. Height[best] \in Nat /\ best \in Block
  BY Constants
<1>1. UNCHANGED <<known, best, moved, others, start_point, common, theirs, next, pop_count>> /\ stage = "locate"
  BY DEF Locate, response
<1>2. CASE i < start_point /\ start_point - i <= Height[best]
  <2>1. /\ locator' = locator \cup {At(best, start_point - i)}
        /\ len' = len + 1 /\ i' = Advance(len + 1) /\ stage' = "locate"
    BY <1>2, <1>1 DEF Locate
  <2>2. start_point - i \in Nat /\ start_point - i <= Height[best]
    BY <1>2 DEF Position
  <2>3. At(best, start_point - i) \in Past[best]
    BY <1>0, <2>2, AtFacts
  <2>4. i' \in Nat /\ i' >= i /\ (len + 1 < RUN => i' = i + 1)
    BY <2>1, AdvanceFacts
  <2>5. SyncTypeOK'
    BY <1>1, <2>1, <2>3, <2>4, <1>0, PastFacts DEF others
  <2>6. (len' < RUN => i' = len') /\ (len' >= RUN => i' >= RUN)
    <3>1. len + 1 >= RUN /\ len < RUN => i' > i
      BY <2>1, Constants, AdvanceFacts DEF Advance
    <3> QED BY <1>1, <2>1, <2>4, <3>1, Constants DEF LocatorOfTop
  <2>7. ASSUME ~ moved', NEW d \in 0..(Height[best] - 1), d < RUN, d < i'
        PROVE  At(best, Height[best] - d) \in locator'
    <3>0. start_point = Height[best]
      BY <1>1, <2>7 DEF LocatorOfTop
    <3>1. CASE d < i
      BY <1>1, <2>1, <2>7, <3>1 DEF LocatorOfTop
    <3>2. CASE d >= i
      <4>1. d = i
        <5>1. len + 1 < RUN => i' = i + 1
          BY <2>4
        <5>2. len >= RUN => i >= RUN
          BY <1>1 DEF LocatorOfTop
        <5>3. len < RUN => i = len
          BY <1>1 DEF LocatorOfTop
        <5> QED BY <5>1, <5>2, <5>3, <2>7, <3>2, Constants, <1>0
      <4> QED BY <4>1, <3>0, <2>1
    <3> QED BY <3>1, <3>2, <1>0
  <2>8. LocatorOfTop'
    <3>1. \A h : At(best, h)' = At(best, h)
      BY <1>1 DEF At
    <3>2. ~ moved' => start_point' = Height[best'] /\ locator' \subseteq Past[best']
      BY <1>1, <2>1, <2>3 DEF LocatorOfTop
    <3> QED BY <1>1, <2>1, <2>6, <2>7, <3>1, <3>2 DEF LocatorOfTop
  <2> QED BY <1>1, <2>1, <2>5, <2>8 DEF Closed, AnswerForTop, CountForTop
<1>3. CASE ~ (i < start_point /\ start_point - i <= Height[best])
  <2>1. stage' = "answer" /\ UNCHANGED <<locator, len, i>>
    BY <1>3 DEF Locate
  <2>2. SyncTypeOK'
    BY <1>1, <2>1 DEF others
  <2>3. ~ moved => i >= start_point
    <3>1. ~ moved => start_point = Height[best]
      BY <1>1 DEF LocatorOfTop
    <3> QED BY <3>1, <1>3, <1>0
  <2>4. ASSUME ~ moved', NEW d \in 0..(Height[best] - 1), d < RUN
        PROVE  At(best, Height[best] - d) \in locator'
    <3>1. start_point = Height[best]
      BY <1>1, <2>4 DEF LocatorOfTop
    <3>2. d < i
      BY <1>0, <1>1, <2>3, <2>4, <3>1
    <3> QED BY <1>1, <2>1, <2>4, <3>2 DEF LocatorOfTop
  <2>5. LocatorOfTop'
    <3>1. \A h : At(best, h)' = At(best, h)
      BY <1>1 DEF At
    <3> QED BY <1>1, <2>1, <2>4, <3>1 DEF LocatorOfTop
  <2> QED BY <1>1, <2>1, <2>2, <2>5 DEF Closed, AnswerForTop, CountForTop
<1> QED BY <1>2, <1>3

LEMMA ChainInv == ASSUME SyncInv, Chain PROVE SyncInv'
<1> USE DEF SyncInv, SyncTypeOK
<1> DEFINE shared == (locator \cup {Genesis}) \cap Past[peer]
<1>0. Height[best] \in Nat /\ best \in Block
  BY Constants
<1>1. /\ stage = "answer" /\ stage' = "decide" /\ theirs' = peer
      /\ start_point' = 0 /\ i' = 0 /\ len' = 0 /\ locator' = {}
      /\ UNCHANGED <<known, best, moved, others, next, pop_count>>
  BY DEF Chain
<1>2. common' = CHOOSE c \in shared : \A d \in shared : Height[d] <= Height[c]
  BY DEF Chain
<1>3. shared \subseteq Block /\ Genesis \in shared
  BY PastFacts, Constants
<1>4. \E c \in shared : \A d \in shared : Height[d] <= Height[c]
  <2> DEFINE H == {Height[c] : c \in shared}
  <2>1. H \in SUBSET Nat /\ H # {} /\ \A h \in H : h <= MaxHeight
    BY <1>3, Constants
  <2>2. PICK h \in H : \A k \in H : k <= h
    BY <2>1, GreatestElement, Constants
  <2> QED BY <2>2
<1>5. common' \in shared /\ \A d \in shared : Height[d] <= Height[common']
  BY <1>2, <1>4
<1>6. SyncTypeOK'
  BY <1>1, <1>3, <1>5, Constants DEF others, Position
<1>7. AnswerForTop'
  <2> SUFFICES ASSUME ~ moved
               PROVE  /\ common' \in Past[best] \cap Past[peer]
                      /\ \A c \in Past[best] \cap Past[peer] :
                            Height[best] - Height[c] <= STABLE_LIMIT => Height[c] <= Height[common']
    BY <1>1 DEF AnswerForTop
  <2>1. common' \in Past[best] \cap Past[peer]
    BY <1>0, <1>1, <1>5, PastFacts DEF LocatorOfTop
  <2>2. ASSUME NEW c \in Past[best] \cap Past[peer], Height[best] - Height[c] <= STABLE_LIMIT
        PROVE  Height[c] <= Height[common']
    <3>0. c \in Block /\ Height[c] \in Nat /\ Height[c] <= Height[best] /\ Height[common'] \in Nat
      BY <1>0, <1>3, <1>5, PastFacts, Constants, SyncAssumption
    <3>1. CASE Height[c] = 0
      BY <3>0, <3>1
    <3>2. CASE Height[c] > 0
      <4> DEFINE d == Height[best] - Height[c]
      <4>1. d \in 0..(Height[best] - 1) /\ d < RUN /\ Height[best] - d = Height[c]
        BY <1>0, <2>2, <3>0, <3>2, Constants
      <4>2. At(best, Height[c]) \in locator
        BY <1>1, <4>1 DEF LocatorOfTop
      <4>3. c = At(best, Height[c])
        BY <1>0, <3>0, <2>2, AtFacts
      <4> QED BY <4>2, <4>3, <1>5, <2>2
    <3> QED BY <3>0, <3>1, <3>2
  <2> QED BY <2>1, <2>2
<1> QED BY <1>1, <1>6, <1>7 DEF Closed, LocatorOfTop, CountForTop

LEMMA CountBlocksInv == ASSUME SyncInv, CountBlocks PROVE SyncInv'
<1> USE DEF SyncInv, SyncTypeOK
<1>0. Height[best] \in 0..MaxHeight /\ Height[common] \in 0..MaxHeight
  BY BlockTreeAssumption
<1>1. /\ stage = "decide" /\ stage' = "rewind" /\ pop_count' = Height[best] - Height[common]
      /\ UNCHANGED <<known, best, moved, others, start_point, i, len, locator, common, theirs, next>>
  BY DEF CountBlocks, request
<1>2. pop_count' \in Position
  BY <1>0, <1>1, Constants DEF CountBlocks, TooFar, Position
<1>3. SyncTypeOK'
  BY <1>1, <1>2 DEF others
<1> QED BY <1>1, <1>3 DEF Closed, LocatorOfTop, AnswerForTop, CountForTop

LEMMA PopBlocksInv == ASSUME SyncInv, PopBlocks PROVE SyncInv'
<1>1. pop_count \in Nat
  BY DEF SyncInv, SyncTypeOK, Position
<1>2. Rewind_Chain(pop_count)
  BY DEF PopBlocks
<1>3. SyncTypeOK' /\ Closed'
  BY <1>1, <1>2, RewindKeeps, Constants DEF PopBlocks, SyncInv, SyncTypeOK, others, request, Position
<1> QED BY <1>3 DEF PopBlocks, SyncInv, LocatorOfTop, AnswerForTop, CountForTop

LEMMA BeginFetchInv == ASSUME SyncInv, BeginFetch PROVE SyncInv'
BY Constants DEF BeginFetch, SyncInv, SyncTypeOK, others, request, Closed, LocatorOfTop, AnswerForTop, CountForTop

LEMMA GetObjectInv == ASSUME SyncInv, GetObject PROVE SyncInv'
<1> USE DEF SyncInv, SyncTypeOK
<1> DEFINE b == At(theirs, next)
<1>1. /\ stage = "fetch" /\ next' = next + 1
      /\ UNCHANGED <<others, stage, start_point, i, len, locator, common, theirs, pop_count>>
  BY DEF GetObject, request
<1>2. b \in Block
  <2>1. next \in Nat /\ next <= Height[theirs]
    BY DEF GetObject, Listed
  <2> QED BY <2>1, AtFacts, PastFacts
<1>3. Add_Complete_Block(b) \/ UNCHANGED <<known, best, moved>>
  BY DEF GetObject
<1>4. /\ known' \subseteq Block /\ best' \in known' /\ Past[best'] \subseteq known'
      /\ moved' \in BOOLEAN /\ Closed'
  <2> HIDE DEF SyncInv, b
  <2>1. CASE Add_Complete_Block(b)
    BY <1>2, <2>1, AddKeeps
  <2>2. CASE UNCHANGED <<known, best, moved>>
    BY <2>2 DEF SyncInv, SyncTypeOK, Closed
  <2> QED BY <1>3, <2>1, <2>2
<1>5. SyncTypeOK'
  BY <1>1, <1>4 DEF others
<1> QED BY <1>1, <1>4, <1>5 DEF LocatorOfTop, AnswerForTop, CountForTop

\* A step that only adds blocks, or only pops one.
LEMMA OutsideInv ==
    ASSUME SyncInv,
           \/ \E b \in Block : Add_Complete_Block(b)
           \/ Rewind_Chain(1),
           UNCHANGED <<peer, claimed, sync>>, chunks' \in [Relayed -> {"none", "open", "processed"}]
    PROVE  SyncInv'
<1>1. /\ known' \subseteq Block /\ best' \in known' /\ Past[best'] \subseteq known'
      /\ moved' \in BOOLEAN /\ Closed'
      /\ ~ moved' => ~ moved /\ best' = best
  BY AddKeeps, RewindKeeps DEF SyncInv, SyncTypeOK
<1>2. UNCHANGED <<peer, claimed, SyncNode, stage, request, response>>
  BY DEF sync
<1>3. LocatorOfTop' /\ AnswerForTop' /\ CountForTop'
  BY <1>1, <1>2, Disturbed
<1>4. SyncTypeOK'
  BY <1>1, <1>2 DEF SyncInv, SyncTypeOK, request, response
<1> QED BY <1>1, <1>3, <1>4 DEF SyncInv

\* A step of the peer's, or of a set of chunks.
LEMMA ElsewhereInv ==
    ASSUME SyncInv, UNCHANGED <<known, best, moved, sync>>,
           peer' \in Block, claimed' \in Position, chunks' \in [Relayed -> {"none", "open", "processed"}]
    PROVE  SyncInv'
<1>1. UNCHANGED <<SyncNode, stage, request, response>>
  BY DEF sync
<1>2. LocatorOfTop' /\ AnswerForTop' /\ CountForTop'
  BY <1>1, Disturbed
<1>3. SyncTypeOK' /\ Closed'
  BY <1>1 DEF SyncInv, SyncTypeOK, Closed, request, response
<1> QED BY <1>2, <1>3 DEF SyncInv

LEMMA NextInv == SyncInv /\ [SyncNext]_svars => SyncInv'
<1> SUFFICES ASSUME SyncInv, [SyncNext]_svars PROVE SyncInv'
  OBVIOUS
<1>0. chunks \in [Relayed -> {"none", "open", "processed"}] /\ peer \in Block /\ claimed \in Position
  BY DEF SyncInv, SyncTypeOK
<1>1. CASE trigger_sync \/ AskAgain
  BY <1>1, Anew DEF trigger_sync, AskAgain
<1>2. CASE Locate
  BY <1>2, LocateInv
<1>3. CASE Chain
  BY <1>3, ChainInv
<1>4. CASE GiveUp \/ SyncDone \/ CallFails
  BY <1>4, AtRest DEF GiveUp, SyncDone, CallFails
<1>5. CASE CountBlocks
  BY <1>5, CountBlocksInv
<1>6. CASE PopBlocks
  BY <1>6, PopBlocksInv
<1>7. CASE BeginFetch
  BY <1>7, BeginFetchInv
<1>8. CASE GetObject
  BY <1>8, GetObjectInv
<1>9. CASE PopBlock
  BY <1>0, <1>9, OutsideInv DEF PopBlock
<1>10. CASE \E b \in Block : OtherBlock(b)
  BY <1>0, <1>10, OutsideInv DEF OtherBlock
<1>11. CASE \E b \in Relayed : LastChunk(b)
  <2>1. PICK b \in Relayed : LastChunk(b)
    BY <1>11
  <2>2. b \in Block
    BY SyncAssumption
  <2>3. chunks' \in [Relayed -> {"none", "open", "processed"}]
    BY <1>0, <2>1 DEF LastChunk
  <2> QED BY <2>1, <2>2, <2>3, OutsideInv DEF LastChunk
<1>12. CASE \E b \in Relayed : FirstChunk(b) \/ CleanUp(b)
  <2>1. PICK b \in Relayed : FirstChunk(b) \/ CleanUp(b)
    BY <1>12
  <2>2. chunks' \in [Relayed -> {"none", "open", "processed"}]
    BY <1>0, <2>1 DEF FirstChunk, CleanUp
  <2> QED BY <1>0, <2>1, <2>2, ElsewhereInv DEF FirstChunk, CleanUp
<1>13. CASE HearHeight
  <2>1. claimed' \in Position
    BY <1>0, <1>13, BlockTreeAssumption DEF HearHeight, Position
  <2> QED BY <1>0, <1>13, <2>1, ElsewhereInv DEF HearHeight
<1>14. CASE \E b \in Block : PeerAdopts(b)
  BY <1>0, <1>14, ElsewhereInv DEF PeerAdopts
<1>15. CASE UNCHANGED svars
  BY <1>0, <1>15, ElsewhereInv DEF svars, others, sync
<1> QED BY <1>1, <1>2, <1>3, <1>4, <1>5, <1>6, <1>7, <1>8, <1>9, <1>10, <1>11, <1>12, <1>13, <1>14, <1>15
        DEF SyncNext, SyncStep, Disturbance, ChunkStep

\* The strengthening is an invariant.
THEOREM SyncInvariant == SyncSpec => []SyncInv
BY InitInv, NextInv, PTL DEF SyncSpec

-----------------------------------------------------------------------------
\* Every variable keeps its type, and everything under the top is executed.
THEOREM SyncTypeCorrect == SyncSpec => []SyncTypeOK
<1>1. SyncInv => SyncTypeOK
  BY DEF SyncInv
<1> QED BY <1>1, SyncInvariant, PTL

\* For every locator whose first run is longer than STABLE_LIMIT: an undisturbed node
\* gives a peer up, or follows it back, only after a fork deeper than STABLE_LIMIT.
THEOREM FarIsReallyFar == SyncSpec => []OnlyDeepForksAreTooFar
<1>1. SyncInv => OnlyDeepForksAreTooFar
  <2> SUFFICES ASSUME SyncInv, stage = "decide", ~ moved, TooFar,
                      NEW c \in Past[best] \cap Past[theirs]
               PROVE  Height[best] - Height[c] > STABLE_LIMIT
    BY DEF OnlyDeepForksAreTooFar
  <2>1. Height[c] \in Nat /\ Height[best] \in Nat /\ Height[common] \in Nat
    BY PastFacts, Constants DEF SyncInv, SyncTypeOK
  <2>2. Height[best] - Height[c] <= STABLE_LIMIT => Height[c] <= Height[common]
    BY DEF SyncInv, AnswerForTop
  <2> QED BY <2>1, <2>2, Constants DEF TooFar
<1> QED BY <1>1, SyncInvariant, PTL

\* A rewind that nothing disturbs ends on a block the peer has, or at height 1.
THEOREM RewindsEndOnTheirChain == SyncSpec => RewindsToTheirChain
<1>1. SyncInv /\ [SyncNext]_svars
        => [PopBlocks /\ ~ moved => best' \in Past[theirs] \/ Height[best'] = 1]_svars
  <2> SUFFICES ASSUME SyncInv, PopBlocks, ~ moved
               PROVE  best' \in Past[theirs] \/ Height[best'] = 1
    OBVIOUS
  <2>1. /\ common \in Past[best] \cap Past[theirs] /\ pop_count = Height[best] - Height[common]
        /\ best \in Block /\ Height[best] \in Nat
    BY Constants DEF SyncInv, SyncTypeOK, CountForTop, PopBlocks
  <2>2. common \in Block /\ Height[common] \in Nat /\ Height[common] <= Height[best]
    BY <2>1, PastFacts, Constants, SyncAssumption
  <2>3. CASE Height[best] <= 1
    <3>1. best' = best
      BY <2>1, <2>3 DEF PopBlocks, Rewind_Chain
    <3>2. CASE Height[best] = 0
      BY <2>1, <2>2, <3>1, <3>2, PastFacts
    <3> QED BY <2>1, <2>3, <3>1, <3>2
  <2>4. CASE Height[best] > 1
    <3>1. CASE Height[common] = 0
      <4>1. best' = At(best, 1)
        BY <2>1, <2>2, <2>4, <3>1 DEF PopBlocks, Rewind_Chain
      <4> QED BY <4>1, <2>1, <2>4, AtFacts
    <3>2. CASE Height[common] # 0
      <4>1. best' = At(best, Height[best] - pop_count) /\ Height[best] - pop_count = Height[common]
        BY <2>1, <2>2, <2>4, <3>2 DEF PopBlocks, Rewind_Chain
      <4>2. common = At(best, Height[common])
        BY <2>1, <2>2, AtFacts
      <4> QED BY <2>1, <4>1, <4>2
    <3> QED BY <3>1, <3>2
  <2> QED BY <2>1, <2>3, <2>4
<1> QED BY <1>1, SyncInvariant, PTL DEF SyncSpec, RewindsToTheirChain
=============================================================================
