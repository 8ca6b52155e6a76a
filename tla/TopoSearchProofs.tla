-------------------------- MODULE TopoSearchProofs --------------------------
(***************************************************************************)
(* A node that is never killed and can write its files finds every block   *)
(* of its index, for every tree of blocks and for every window and scan.   *)
(*                                                                         *)
(* The search halves an interval by the heights it reads, which is right   *)
(* as long as the records below the end are there.  One may be missing,    *)
(* for one write: a reorganisation to a chain that is two blocks longer    *)
(* writes the new top first, and then the record between it and the old    *)
(* top.  If the search reads that one, it goes the wrong way; but it is    *)
(* so near the end of the file that the scan makes up for it.              *)
(***************************************************************************)
EXTENDS TopoSearch, OneChainProofs

-----------------------------------------------------------------------------
\* The index has no gap, but for that one record.

\* The record that the loop writes next is the only one missing, and it is the one
\* right below the new top.
Dense == \A i, j \in Position :
            i < j /\ Used(j) => Used(i) \/ (pc = "fix" /\ i = Height[fix] /\ NoneFrom(i + 2))

\* Until its record is written, a block that is being added is at most two above
\* the top.
Ahead == Storing \/ (pc = "fix" /\ NoneFrom(Height[cur]))
            => \A i \in Position : i + 2 <= Height[cur] => Used(i)

DenseInv == StatesInv /\ IndexInv /\ OneChainInv /\ Dense /\ Ahead

\* An index without a gap stays one until a record is written or cleaned.
LEMMA TopoAloneKeepsDense ==
    ASSUME Dense, topo' = topo, pc # "fix"
    PROVE  Dense'
BY DEF Dense, Used

\* A block that passes the checks is at most two above the top.
LEMMA BeginAddIsAhead ==
    ASSUME DenseInv, NEW b \in Block, BeginAdd(b), b # Genesis => mode = "up"
    PROVE  Ahead'
<1> USE BlockTreeAssumption
<1>1. /\ pc = "idle" /\ pc' = "store" /\ cur' = b /\ topo' = topo
      /\ Height[b] <= Get_Height + 2 /\ Height[b] \in Nat
  BY DEF BeginAdd, Acceptable
<1>2. ASSUME NEW i \in Position, i + 2 <= Height[b] PROVE Used(i)
  <2>1. mode = "up"
    BY <1>2 DEF Position
  <2>2. Count # 0 /\ Used(Load_TOPO_HEIGHT) /\ Load_TOPO_HEIGHT \in Position
    BY <2>1, TopIsUsed, TopIsBlockOrNone DEF DenseInv, IndexInv, Grounded, TypeOK
  <2>3. i <= Load_TOPO_HEIGHT
    BY <1>1, <1>2, <2>2, StoredTopIsThere, HeightIsLast DEF DenseInv, IndexInv, OneChainInv, Position
  <2> QED
    BY <1>1, <2>2, <2>3 DEF DenseInv, Dense, Position
<1> QED
  BY <1>1, <1>2 DEF Ahead, Used

\* The first write makes the new top; a write below it fills the gap.
LEMMA WriteTopoKeepsDense ==
    ASSUME DenseInv, TypeOK', FixTopo \/ FixDone
    PROVE  Dense' /\ Ahead'
<1> USE BlockTreeAssumption, ChainAssumption
<1>1. PICK next : WriteTopo(next)
  BY DEF FixTopo, FixDone
<1>2. /\ pc = "fix" /\ fix \in Block /\ Height[fix] \in Position
      /\ \A i \in Position : topo'[i] = IF i = Height[fix]
                                          THEN [block |-> fix, version |-> version]
                                          ELSE topo[i]
  BY <1>1, WriteTopoRaises DEF DenseInv
<1>3. /\ topo'[Height[fix]].block # NoBlock
      /\ \A i \in Position : i # Height[fix] => topo'[i] = topo[i]
  BY <1>2
<1>4. cur' = cur /\ pc' \in {"fix", "tips"}
  BY <1>2 DEF FixTopo, FixDone, locals
<1>5. CASE fix = cur /\ NoneFrom(Height[cur])
  <2>1. \A i \in Position : i + 2 <= Height[fix] => topo'[i].block # NoBlock
    BY <1>2, <1>3, <1>5 DEF DenseInv, Ahead, Used, Position
  <2>2. \A i \in Position : i > Height[fix] => topo'[i].block = NoBlock
    BY <1>2, <1>3, <1>5 DEF NoneFrom, Used, Position
  <2>3. Ahead'
    BY <1>2, <1>3, <1>4, <1>5 DEF Ahead, Storing, NoneFrom, Used, Position
  <2>4. CASE FixTopo
    <3>1. pc' = "fix" /\ fix' = Parent[fix] /\ Height[fix] # 0
      BY <1>2, <2>4 DEF FixTopo, WriteTopo, Linked
    <3>2. Height[fix] = Height[Parent[fix]] + 1 /\ Height[Parent[fix]] \in Nat
      BY <1>2, <3>1 DEF DenseInv, IndexInv, AtHeight, WellPlaced
    <3>3. Dense'
      BY <1>2, <2>1, <2>2, <3>1, <3>2 DEF Dense, NoneFrom, Used, Position
    <3> QED
      BY <2>3, <3>3
  <2>5. CASE FixDone
    <3>1. Height[fix] # 0 => topo[Height[fix] - 1].block # NoBlock
      BY <1>2, <2>5 DEF FixDone, WriteTopo, Linked
    <3>2. Height[fix] # 0 => topo'[Height[fix] - 1].block # NoBlock
      BY <1>2, <1>3, <3>1 DEF Position
    <3>3. Dense'
      BY <1>2, <1>3, <2>1, <2>2, <3>2 DEF Dense, Used, Position
    <3> QED
      BY <2>3, <3>3
  <2> QED
    BY <2>4, <2>5
<1>6. CASE Top = cur /\ Height[fix] < Load_TOPO_HEIGHT
  <2>1. /\ Load_TOPO_HEIGHT \in Position /\ Used(Load_TOPO_HEIGHT)
        /\ Top = topo[Load_TOPO_HEIGHT].block
    <3>1. Load_TOPO_HEIGHT \in Position /\ Count # 0
      BY <1>2, <1>6, TopIsBlockOrNone DEF DenseInv, StatesInv, TypeOK, Load_TOPO_HEIGHT, Position
    <3> QED
      BY <3>1, TopIsUsed DEF DenseInv, StatesInv
  <2>2. Height[cur] = Load_TOPO_HEIGHT
    BY <1>6, <2>1 DEF DenseInv, IndexInv, AtHeight
  <2>3. topo'[Height[cur]].block # NoBlock
    BY <1>2, <1>3, <1>6, <2>1, <2>2 DEF Used, Position
  <2>4. Ahead'
    BY <1>4, <2>1, <2>2, <2>3 DEF Ahead, Storing, NoneFrom, Used, Position
  <2>5. ASSUME NEW i \in Position, NEW j \in Position, i < j, topo'[j].block # NoBlock
        PROVE  topo'[i].block # NoBlock
    <3>1. CASE i = Height[fix]
      BY <1>3, <3>1
    <3>2. CASE i # Height[fix]
      <4>1. PICK k \in Position : i < k /\ Used(k)
        BY <1>2, <1>3, <1>6, <2>1, <2>5 DEF Used, Position
      <4> QED
        BY <1>3, <3>2, <4>1 DEF DenseInv, Dense, Used
    <3> QED
      BY <3>1, <3>2
  <2> QED
    BY <2>4, <2>5 DEF Dense, Used
<1> QED
  BY <1>2, <1>5, <1>6 DEF DenseInv, IndexInv, Raised

LEMMA DenseStep ==
    ASSUME Faults = {}
    PROVE  DenseInv /\ [Next]_vars => Dense' /\ Ahead'
<1> SUFFICES ASSUME DenseInv, [Next]_vars PROVE Dense' /\ Ahead'
  OBVIOUS
<1> USE BlockTreeAssumption
<1>t. TypeOK /\ TypeOK'
  BY TypeStep DEF DenseInv, StatesInv
<1>0. CASE UNCHANGED vars
  BY <1>0 DEF vars, disk, locals, DenseInv, Dense, Ahead, Storing, NoneFrom, Used
<1>1. CASE AddGenesis \/ \E b \in Block : AddBlock(b)
  <2>1. PICK b \in Block : BeginAdd(b) /\ (b # Genesis => mode = "up")
    BY <1>1 DEF AddGenesis, AddBlock
  <2>2. topo' = topo /\ pc = "idle"
    BY <2>1 DEF BeginAdd
  <2> QED
    BY <2>1, <2>2, BeginAddIsAhead, TopoAloneKeepsDense DEF DenseInv
<1>2. CASE StoreBlock \/ Execute \/ DeleteUnversioned \/ StoreVersioned
  <2>1. Storing /\ pc # "fix" /\ UNCHANGED <<topo, cur>>
    BY <1>2 DEF StoreBlock, Execute, DeleteUnversioned, StoreVersioned, locals, Storing
  <2> QED
    BY <2>1, TopoAloneKeepsDense DEF DenseInv, Ahead, Used
<1>3. CASE ExecutePanics \/ FixPanics
  BY <1>3, NothingPanics DEF DenseInv
<1>4. CASE FixTopo \/ FixDone
  BY <1>t, <1>4, WriteTopoKeepsDense
<1>5. ASSUME topo' = topo, pc # "fix", pc' \in {"idle", "clean"} PROVE Dense' /\ Ahead'
  BY <1>5, TopoAloneKeepsDense DEF DenseInv, Ahead, Storing
<1>6. CASE UpdateTips \/ RewindUnlocks
  BY <1>5, <1>6 DEF UpdateTips, RewindUnlocks, Unlock, disk
<1>7. ASSUME NEW n, StartRewind(n) PROVE Dense' /\ Ahead'
  BY <1>5, <1>7 DEF StartRewind, disk
<1>8. CASE CleanRecord
  <2>1. /\ pc = "clean" /\ pc' = "clean" /\ topo' = [topo EXCEPT ![cut] = Clean] /\ cut \in Int
    BY <1>t, <1>8 DEF CleanRecord, TypeOK
  <2>2. \A i \in Position : topo'[i] = IF i = cut THEN Clean ELSE topo[i]
    BY <1>t, <2>1 DEF TypeOK
  <2>3. \A i \in Position : i > cut => ~ Used(i)
    BY <2>1 DEF DenseInv, OneChainInv, Cleaned
  <2>4. ASSUME NEW i \in Position, NEW j \in Position, i < j, topo'[j].block # NoBlock
        PROVE  topo'[i].block # NoBlock
    <3>1. Used(j) /\ j # cut
      BY <2>2, <2>4 DEF Used, Clean
    <3>2. i # cut
      BY <2>1, <2>3, <2>4, <3>1 DEF Position
    <3> QED
      BY <2>1, <2>2, <2>4, <3>1, <3>2 DEF DenseInv, Dense, Used
  <2> QED
    BY <2>1, <2>4 DEF Dense, Ahead, Storing, Used
<1>9. CASE Initialise_Chain_From_DB \/ Start \/ GenesisAdded \/ Booted
  <2>1. UNCHANGED <<topo, pc, cur, fix>>
    BY <1>9 DEF Initialise_Chain_From_DB, Start, GenesisAdded, Booted, disk, locals
  <2> QED
    BY <2>1 DEF DenseInv, Dense, Ahead, Storing, NoneFrom, Used
<1> QED
  BY <1>0, <1>1, <1>2, <1>3, <1>4, <1>6, <1>7, <1>8, <1>9
  DEF Next, Work, Fault, Rewind, BootRewind, Crash, WriteFails, RestoreCopy

-----------------------------------------------------------------------------
\* What the search reads.

\* A record that is there holds its position, any other zero.
LEMMA RecordsAreInPlace ==
    ASSUME TypeOK, AtHeight, NEW i \in Int
    PROVE  RecordHeight(i) = IF i \in Position /\ Used(i) THEN i ELSE 0
<1>1. i \in Position => (topo[i] # Clean <=> Used(i))
  BY ChainAssumption DEF TypeOK, Record, Clean, Used
<1> QED
  BY <1>1 DEF RecordHeight, AtHeight, Used

\* Below the end, all are there but perhaps the last but one.
LEMMA OneMayBeMissing ==
    ASSUME TypeOK, Dense
    PROVE  \A i \in 0..(Count - 1) : Used(i) \/ i = Count - 2
<1> USE BlockTreeAssumption
<1> SUFFICES ASSUME NEW i \in 0..(Count - 1), ~ Used(i), i # Count - 2
             PROVE  FALSE
  OBVIOUS
<1>1. Count \in 0..(MaxHeight + 1) /\ (Count # 0 => Used(Count - 1))
  BY UsedUpToCount
<1>2. Used(Count - 1) /\ i \in Position /\ Count - 1 \in Position /\ i + 2 <= Count - 1
  BY <1>1 DEF Position
<1>3. NoneFrom(i + 2)
  BY <1>2 DEF Dense, Position
<1> QED
  BY <1>2, <1>3 DEF NoneFrom

LEMMA MiddleIsBetween ==
    ASSUME NEW r, r.startIndex \in Int, r.endIndex \in Int
    PROVE  /\ Middle(r) \in Int
           /\ 2 * Middle(r) <= r.startIndex + r.endIndex
           /\ r.startIndex + r.endIndex <= 2 * Middle(r) + 1
BY DEF Middle

LEMMA PartsAreSmaller ==
    ASSUME NEW r \in Interval, r.startIndex <= r.endIndex
    PROVE  /\ LeftPart(r) \in Interval
           /\ LeftPart(r).startIndex = r.startIndex /\ LeftPart(r).endIndex = Middle(r) - 1
           /\ RightPart(r) \in Interval
           /\ RightPart(r).startIndex = Middle(r) + 1 /\ RightPart(r).endIndex = r.endIndex
           /\ r.startIndex <= Middle(r) /\ Middle(r) <= r.endIndex
<1> USE BlockTreeAssumption
<1>1. r.startIndex \in 0..(MaxHeight + 2) /\ r.endIndex \in (-1)..(MaxHeight + 1)
  BY DEF Interval
<1>2. Middle(r) \in Int /\ r.startIndex <= Middle(r) /\ Middle(r) <= r.endIndex
  BY <1>1, MiddleIsBetween
<1> QED
  BY <1>1, <1>2 DEF Interval, LeftPart, RightPart

-----------------------------------------------------------------------------
\* The recursion of midIndex.

SearchStep(end, target, r) ==
    IF r.startIndex > r.endIndex \/ RecordHeight(Middle(r)) \in Near(target) THEN Middle(r)
    ELSE IF RecordHeight(Middle(r)) >= target THEN end[LeftPart(r)]
    ELSE end[RightPart(r)]

Searches(end, target) == end = [r \in Interval |-> SearchStep(end, target, r)]

\* The loop ends: a function for the intervals of at most n positions extends to
\* those of n + 1.
LEMMA SearchExists ==
    ASSUME NEW target
    PROVE  \E end : Searches(end, target)
<1> USE BlockTreeAssumption
<1> DEFINE Narrow(n)    == {r \in Interval : r.endIndex - r.startIndex < n}
           Solves(g, n) == g = [r \in Narrow(n) |-> SearchStep(g, target, r)]
           Bad          == {n \in Nat : ~ \E g : Solves(g, n)}
<1>1. \A r \in Interval : r.startIndex \in Nat /\ r.endIndex \in Int
                             /\ r.endIndex - r.startIndex < MaxHeight + 2
  BY DEF Interval
<1>2. Bad = {}
  <2>1. SUFFICES ASSUME Bad # {} PROVE FALSE
    OBVIOUS
  <2>2. PICK n \in Bad : \A m \in Bad : n <= m
    BY <2>1, LeastElement
  <2>3. CASE n = 0
    <3> DEFINE g == [r \in Narrow(0) |-> Middle(r)]
    <3>1. ASSUME NEW r \in Narrow(0) PROVE Middle(r) = SearchStep(g, target, r)
      BY <1>1 DEF SearchStep
    <3>2. Solves(g, 0)
      BY <3>1
    <3> QED
      BY <2>2, <2>3, <3>2
  <2>4. CASE n # 0
    <3>1. n \in Nat /\ n - 1 \in Nat /\ n - 1 \notin Bad
      <4> HIDE DEF Bad
      <4>1. n \in Nat
        BY <2>2 DEF Bad
      <4> QED
        BY <2>2, <2>4, <4>1
    <3>2. PICK g : Solves(g, n - 1)
      BY <3>1
    <3> DEFINE h == [r \in Narrow(n) |-> SearchStep(g, target, r)]
    <3>3. \A r \in Narrow(n - 1) : r \in Narrow(n) /\ h[r] = g[r]
      <4>1. \A r \in Narrow(n - 1) : r \in Narrow(n)
        BY <1>1, <3>1
      <4> QED
        BY <3>2, <4>1
    <3>4. ASSUME NEW r \in Narrow(n) PROVE SearchStep(g, target, r) = SearchStep(h, target, r)
      <4>1. CASE r.startIndex > r.endIndex
        BY <4>1 DEF SearchStep
      <4>2. CASE r.startIndex <= r.endIndex
        <5>1. LeftPart(r) \in Narrow(n - 1) /\ RightPart(r) \in Narrow(n - 1)
          <6>1. Middle(r) \in Int
            BY <1>1, MiddleIsBetween
          <6> QED
            BY <1>1, <3>1, <4>2, <6>1, PartsAreSmaller
        <5>2. g[LeftPart(r)] = h[LeftPart(r)] /\ g[RightPart(r)] = h[RightPart(r)]
          BY <3>3, <5>1
        <5> HIDE DEF h
        <5> QED
          BY <5>2 DEF SearchStep
      <4> QED
        BY <1>1, <4>1, <4>2
    <3>5. Solves(h, n)
      BY <3>4
    <3> QED
      BY <2>2, <3>5
  <2> QED
    BY <2>3, <2>4
<1>3. PICK g : Solves(g, MaxHeight + 2)
  <2>1. MaxHeight + 2 \in Nat
    OBVIOUS
  <2>2. MaxHeight + 2 \notin Bad
    BY <1>2, Zenon
  <2> QED
    BY <2>1, <2>2
<1>4. Narrow(MaxHeight + 2) = Interval
  BY <1>1
<1> QED
  BY <1>3, <1>4 DEF Searches

LEMMA midIndexSearches ==
    ASSUME NEW target
    PROVE  \E end : Searches(end, target) /\ midIndex(target) = end[Whole]
<1> DEFINE end == CHOOSE end : Searches(end, target)
<1>1. midIndex(target) = end[Whole]
  BY Zenon DEF midIndex, Searches, SearchStep
<1>2. Searches(end, target)
  BY SearchExists
<1> QED
  BY <1>1, <1>2

-----------------------------------------------------------------------------
\* Where the search ends.

\* An interval that contains the position of a record that is there.
Contains(r, t) == /\ r \in Interval /\ r.endIndex <= Count
                  /\ r.startIndex <= t /\ t <= r.endIndex

\* The scan from m reaches t.
Reaches(m, t) == m \in Int /\ m - t < SCAN /\ t - m < SCAN

\* One round: in the window the search ends; else what is left still contains the
\* position, unless the record that was read is the one that is missing.
LEMMA SearchRound ==
    ASSUME TypeOK, AtHeight, Dense, NEW t \in Position, Used(t), NEW r, Contains(r, t)
    PROVE  LET m == Middle(r)
               h == RecordHeight(m)
           IN  /\ m \in Int /\ r.startIndex <= m /\ m <= r.endIndex
               /\ \/ h = m
                  \/ h = 0 /\ m = Count - 2 /\ m # t
               /\ t \in 0..(Count - 1) /\ Count \in Nat
<1> USE BlockTreeAssumption
<1> DEFINE m == Middle(r)
<1>1. /\ r.startIndex \in Nat /\ r.endIndex \in Int
      /\ r.startIndex <= t /\ t <= r.endIndex /\ r.endIndex <= Count
  BY DEF Contains, Interval
<1>2. Count \in 0..(MaxHeight + 1) /\ \A i \in Position : i >= Count => ~ Used(i)
  BY UsedUpToCount
<1>3. t \in 0..(Count - 1)
  BY <1>2 DEF Position
<1>4. m \in Int /\ 2 * m <= r.startIndex + r.endIndex /\ r.startIndex + r.endIndex <= 2 * m + 1
  BY <1>1, MiddleIsBetween
<1> HIDE DEF m
<1>5. r.startIndex <= m /\ m <= r.endIndex /\ m \in 0..(Count - 1)
  BY <1>1, <1>2, <1>3, <1>4
<1>6. m \in Position
  BY <1>2, <1>5 DEF Position
<1>7. RecordHeight(m) = IF Used(m) THEN m ELSE 0
  BY <1>4, <1>6, RecordsAreInPlace
<1>8. Used(m) \/ m = Count - 2
  BY <1>5, OneMayBeMissing
<1>9. RecordHeight(m) = m \/ (RecordHeight(m) = 0 /\ m = Count - 2 /\ m # t)
  BY <1>7, <1>8
<1> QED
  BY <1>2, <1>3, <1>4, <1>5, <1>9 DEF m

\* Above the missing record there is only one, and the search ends beside it.
LEMMA SearchBesideTheGap ==
    ASSUME TypeOK, AtHeight, NEW target \in Nat, NEW end, Searches(end, target),
           NEW r \in Interval, r.startIndex = Count - 1,
           r.endIndex \in (Count - 2)..Count, target < Count - 2
    PROVE  \/ end[r] = Count - 2
           \/ end[r] = Count - 1 /\ Count - 1 \in Near(target)
<1> USE BlockTreeAssumption, TopoSearchAssumption
<1>1. Count \in Nat /\ Count - 1 \in Position /\ Used(Count - 1)
  BY UsedUpToCount DEF Position
<1>2. /\ Middle(r) \in Int /\ 2 * Middle(r) <= r.startIndex + r.endIndex
      /\ r.startIndex + r.endIndex <= 2 * Middle(r) + 1
  BY <1>1, MiddleIsBetween
<1>3. end[r] = SearchStep(end, target, r)
  BY DEF Searches
<1>4. CASE r.endIndex = Count - 2
  <2>1. Middle(r) = Count - 2
    BY <1>1, <1>2, <1>4
  <2> QED
    BY <1>1, <1>3, <1>4, <2>1 DEF SearchStep
<1>5. CASE r.endIndex \in {Count - 1, Count}
  <2>1. Middle(r) = Count - 1 /\ r.startIndex <= r.endIndex
    BY <1>1, <1>2, <1>5
  <2>2. RecordHeight(Count - 1) = Count - 1
    BY <1>1, RecordsAreInPlace
  <2>3. CASE Count - 1 \in Near(target)
    BY <1>3, <2>1, <2>2, <2>3 DEF SearchStep
  <2>4. CASE Count - 1 \notin Near(target)
    <3>1. end[r] = end[LeftPart(r)]
      BY <1>1, <1>3, <2>1, <2>2, <2>4 DEF SearchStep
    <3>2. /\ LeftPart(r) \in Interval
          /\ LeftPart(r).startIndex = Count - 1 /\ LeftPart(r).endIndex = Count - 2
      BY <1>1, <2>1, PartsAreSmaller
    <3>3. end[LeftPart(r)] = Middle(LeftPart(r))
      BY <1>1, <3>2 DEF Searches, SearchStep
    <3>4. Middle(LeftPart(r)) = Count - 2
      BY <1>1, <3>2, MiddleIsBetween
    <3> QED
      BY <3>1, <3>3, <3>4
  <2> QED
    BY <2>3, <2>4
<1> QED
  BY <1>1, <1>4, <1>5

\* A search for the height of a record that is there ends where the scan reaches it.
LEMMA SearchEndsNear ==
    ASSUME TypeOK, AtHeight, Dense, NEW t \in Position, Used(t),
           NEW end, Searches(end, t), NEW r, Contains(r, t)
    PROVE  Reaches(end[r], t)
<1> USE BlockTreeAssumption, TopoSearchAssumption
<1> DEFINE Bad == {n \in Nat : \E q : /\ Contains(q, t) /\ q.endIndex - q.startIndex = n
                                      /\ ~ Reaches(end[q], t)}
<1>1. Bad = {}
  <2>1. SUFFICES ASSUME Bad # {} PROVE FALSE
    OBVIOUS
  <2>2. PICK n \in Bad : \A k \in Bad : n <= k
    BY <2>1, LeastElement
  <2>3. PICK q : /\ Contains(q, t) /\ q.endIndex - q.startIndex = n
                 /\ ~ Reaches(end[q], t)
    BY <2>2
  <2> DEFINE m == Middle(q)
             h == RecordHeight(m)
  <2>4. /\ q \in Interval /\ q.startIndex \in Nat /\ q.endIndex \in Int
        /\ q.startIndex <= t /\ t <= q.endIndex /\ q.endIndex <= Count /\ t \in Nat
    BY <2>3 DEF Contains, Interval, Position
  <2>5. /\ m \in Int /\ q.startIndex <= m /\ m <= q.endIndex
        /\ h = m \/ (h = 0 /\ m = Count - 2 /\ m # t)
        /\ t \in 0..(Count - 1) /\ Count \in Nat
    BY <2>3, SearchRound
  <2>6. 2 * m <= q.startIndex + q.endIndex /\ q.startIndex + q.endIndex <= 2 * m + 1
    BY <2>4, MiddleIsBetween
  <2>7. end[q] = SearchStep(end, t, q)
    BY <2>4 DEF Searches
  <2>8. ASSUME NEW p, Contains(p, t), p.endIndex - p.startIndex < n PROVE Reaches(end[p], t)
    <3>1. p.endIndex - p.startIndex \in Nat /\ n \in Nat
      BY <2>4, <2>3, <2>8 DEF Contains, Interval
    <3>2. p.endIndex - p.startIndex \notin Bad
      <4> HIDE DEF Bad
      <4> QED
        BY <2>2, <2>8, <3>1
    <3> QED
      BY <2>8, <3>1, <3>2
  <2>9. /\ LeftPart(q) \in Interval
        /\ LeftPart(q).startIndex = q.startIndex /\ LeftPart(q).endIndex = m - 1
        /\ RightPart(q) \in Interval
        /\ RightPart(q).startIndex = m + 1 /\ RightPart(q).endIndex = q.endIndex
    BY <2>4, PartsAreSmaller
  <2>10. Near(t) = (t - WINDOW)..(t + WINDOW)
    BY DEF Near
  <2>11. CASE h \in Near(t)
    <3>1. end[q] = m
      BY <2>7, <2>11 DEF SearchStep
    <3> HIDE DEF m, h
    <3>2. CASE h = m
      BY <2>3, <2>4, <2>5, <2>10, <2>11, <3>1, <3>2 DEF Reaches
    <3>3. CASE m = Count - 2
      BY <2>3, <2>4, <2>5, <2>6, <3>1, <3>3 DEF Reaches
    <3> QED
      BY <2>5, <3>2, <3>3
  <2>12. CASE h \notin Near(t) /\ h >= t
    <3>1. end[q] = end[LeftPart(q)]
      BY <2>4, <2>5, <2>7, <2>12 DEF SearchStep
    <3> HIDE DEF m, h
    <3>2. h # t /\ h = m
      BY <2>4, <2>5, <2>10, <2>12
    <3>3. Contains(LeftPart(q), t)
      BY <2>4, <2>5, <2>9, <2>12, <3>2 DEF Contains
    <3>4. LeftPart(q).endIndex - LeftPart(q).startIndex < n
      BY <2>3, <2>4, <2>5, <2>9
    <3> QED
      BY <2>3, <2>8, <3>1, <3>3, <3>4
  <2>13. CASE h \notin Near(t) /\ ~ (h >= t)
    <3>1. end[q] = end[RightPart(q)]
      BY <2>4, <2>5, <2>7, <2>13 DEF SearchStep
    <3> HIDE DEF m, h
    <3>2. RightPart(q).endIndex - RightPart(q).startIndex < n
      BY <2>3, <2>4, <2>5, <2>9
    <3>3. CASE m < t
      <4>1. Contains(RightPart(q), t)
        BY <2>4, <2>5, <2>9, <3>3 DEF Contains
      <4> QED
        BY <2>3, <2>8, <3>1, <3>2, <4>1
    <3>4. CASE t <= m
      <4>1. m = Count - 2 /\ t < Count - 2
        BY <2>4, <2>5, <2>13, <3>4
      <4>2. q.endIndex \in (Count - 2)..Count /\ Count - 4 <= t
        BY <2>4, <2>5, <2>6, <4>1
      <4>3. \/ end[RightPart(q)] = Count - 2
            \/ end[RightPart(q)] = Count - 1 /\ Count - 1 \in Near(t)
        BY <2>4, <2>5, <2>9, <4>1, <4>2, SearchBesideTheGap
      <4>4. CASE end[RightPart(q)] = Count - 2
        BY <2>3, <2>4, <2>5, <3>1, <4>1, <4>2, <4>4 DEF Reaches
      <4>5. CASE end[RightPart(q)] = Count - 1 /\ Count - 1 \in Near(t)
        <5>1. Count - 1 - t <= WINDOW
          BY <2>4, <2>5, <2>10, <4>5
        <5> QED
          BY <2>3, <2>4, <2>5, <3>1, <4>1, <4>5, <5>1 DEF Reaches
      <4> QED
        BY <4>3, <4>4, <4>5
    <3> QED
      BY <2>4, <2>5, <3>3, <3>4
  <2> QED
    BY <2>11, <2>12, <2>13
<1>2. r.endIndex - r.startIndex \in Nat
  BY DEF Contains, Interval, Position
<1> QED
  BY <1>1, <1>2

\* What is in the index is found in it, at its height.
LEMMA DenseIndexIsSearched ==
    ASSUME TypeOK, AtHeight, Dense
    PROVE  SearchFindsTheChain
<1> USE BlockTreeAssumption, TopoSearchAssumption
<1> SUFFICES ASSUME NEW b \in Block, NEW i \in Position, topo[i].block = b
             PROVE  i \in Load_Block_Topological_order(b)
  BY DEF SearchFindsTheChain, Load_Block_Topological_order
<1>1. Used(i) /\ Height[b] = i
  BY ChainAssumption DEF Used, AtHeight
<1>2. Count \in 0..(MaxHeight + 1) /\ i < Count /\ i \in Nat
  BY <1>1, UsedUpToCount DEF Position
<1>3. RecordHeight(i) = i
  BY <1>1, <1>2, RecordsAreInPlace
<1>4. Contains(Whole, i)
  BY <1>2 DEF Contains, Whole, Interval, total_records
<1>5. Reaches(midIndex(i), i)
  BY <1>1, <1>4, midIndexSearches, SearchEndsNear
<1>6. i \in binarySearchHeight(i)
  <2> DEFINE mid == midIndex(i)
  <2>1. mid \in Int /\ mid - i < SCAN /\ i - mid < SCAN
    BY <1>5 DEF Reaches
  <2> HIDE DEF mid
  <2>2. \/ i \in {j \in (mid - SCAN + 1)..mid : j >= 0}
        \/ i \in {j \in mid..(mid + SCAN - 1) : j < total_records}
    BY <1>2, <2>1 DEF total_records
  <2> QED
    BY <1>3, <2>2 DEF binarySearchHeight, mid
<1> QED
  BY <1>1, <1>6 DEF Load_Block_Topological_order

\* A node that is never killed and can write its files finds a block exactly where
\* its index has it, between any two writes of a rewind or of a reorganisation: a
\* block on the chain is never taken for a new one.  A crash in the middle of the
\* loop would leave the gap behind for good.
THEOREM SearchFindsWhatIsRecorded ==
    ASSUME Faults = {}
    PROVE  Spec => []SearchFindsTheChain
<1>1. Init => DenseInv
  <2>1. Init => Dense /\ Ahead
    BY DEF Init, Dense, Ahead, Storing, Used, Clean
  <2> QED
    BY <2>1, StatesInit, IndexInit, OneChainInit DEF DenseInv
<1>2. DenseInv /\ [Next]_vars => DenseInv'
  BY StoredTopIsThere, StatesStep, IndexStep, OneChainStep, DenseStep DEF DenseInv, StatesInv, OneChainInv
<1>3. DenseInv => SearchFindsTheChain
  BY DenseIndexIsSearched DEF DenseInv, IndexInv
<1> QED
  BY <1>1, <1>2, <1>3, PTL DEF Spec
=============================================================================
