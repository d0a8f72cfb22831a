-------------------------- MODULE ChainCoinsProofs --------------------------
(***************************************************************************)
(* That the node starts again after every crash, for any tree of blocks,   *)
(* any transactions and any number of crashes.  What the coins are does    *)
(* not matter here: only which blocks the two databases refer to, and what *)
(* the block index had when they were written.                             *)
(***************************************************************************)
EXTENDS ChainCoins, TLAPS

\* The ancestors of a block are the least set with the block closed under pprev.
LEMMA AncestorsLeast ==
  ASSUME NEW b \in Blocks
  PROVE  /\ b \in Ancestors[b] /\ Ancestors[b] \subseteq Blocks /\ Closed(Ancestors[b])
         /\ \A S \in SUBSET Blocks : b \in S /\ Closed(S) => Ancestors[b] \subseteq S
<1>1. Ancestors[b] = {x \in Blocks : \A S \in SUBSET Blocks : b \in S /\ Closed(S) => x \in S}
  BY DEF Ancestors
<1>2. Closed(Ancestors[b])
  <2> SUFFICES ASSUME NEW x \in Ancestors[b] \ {Genesis} PROVE pprev[x] \in Ancestors[b]
    BY DEF Closed
  <2>1. x \in Blocks \ {Genesis} /\ pprev[x] \in Blocks
    BY <1>1, ChainCoinsAssumption
  <2>2. ASSUME NEW S \in SUBSET Blocks, b \in S, Closed(S) PROVE pprev[x] \in S
    BY <1>1, <2>1, <2>2 DEF Closed
  <2>3. QED
    BY <1>1, <2>1, <2>2
<1>3. QED
  BY <1>1, <1>2

\* Above its parent a block has only itself.
LEMMA AncestorsStep ==
  ASSUME NEW b \in Blocks \ {Genesis}
  PROVE  /\ pprev[b] \in Blocks
         /\ Ancestors[b] \subseteq Ancestors[pprev[b]] \cup {b}
         /\ Ancestors[pprev[b]] \subseteq Ancestors[b]
<1>1. pprev[b] \in Blocks
  BY ChainCoinsAssumption
<1>2. Ancestors[b] \subseteq Ancestors[pprev[b]] \cup {b}
  <2> DEFINE S == Ancestors[pprev[b]] \cup {b}
  <2>1. S \in SUBSET Blocks /\ b \in S
    BY <1>1, AncestorsLeast
  <2>2. Closed(S)
    BY <1>1, AncestorsLeast DEF Closed
  <2>3. QED
    BY <2>1, <2>2, AncestorsLeast
<1>3. Ancestors[pprev[b]] \subseteq Ancestors[b]
  <2>1. Ancestors[b] \in SUBSET Blocks /\ Closed(Ancestors[b]) /\ pprev[b] \in Ancestors[b]
    BY AncestorsLeast DEF Closed
  <2>2. QED
    BY <1>1, <2>1, AncestorsLeast
<1>4. QED
  BY <1>1, <1>2, <1>3

(***************************************************************************)
(* The inductive invariant.                                                *)
(***************************************************************************)
\* An index that lets ReplayBlocks take the coins to or from b: it has the blocks
\* of the chain and their undo data.
Reaches(x, b) == b \in Blocks /\ Ancestors[b] \subseteq x.data \cap x.haveUndo

\* All blocks and undo data of index x are in y.
PartOf(x, y) == x.data \subseteq y.data /\ x.haveUndo \subseteq y.haveUndo

Up == pc \notin {"down", "failed"}

\* The fields of the two indexes.
Shape == {DOMAIN index, DOMAIN diskIndex} = {{"data", "haveUndo", "undo", "failed"}}

\* The coin database refers to blocks the index database reaches.
DiskOK ==
  \/ disk.heads = <<>> /\ Reaches(diskIndex, disk.best)
  \/ /\ disk.best = None /\ disk.heads # <<>>
     /\ Reaches(diskIndex, disk.heads[1]) /\ Reaches(diskIndex, disk.heads[2])

\* The index in memory has what the one on disk has, and reaches the best block.
MemoryOK == Up => PartOf(diskIndex, index) /\ Reaches(index, best) /\ tip = best

\* When coins are written, the index that reaches their block was written.
FlushOK == pc \in {"coins", "batch", "replay"} => Reaches(diskIndex, best)

IInv == Shape /\ DiskOK /\ MemoryOK /\ FlushOK /\ AlwaysStarts

\* A larger index reaches the same blocks.
LEMMA ReachesMore ==
  ASSUME NEW x, NEW y, NEW b, PartOf(x, y), Reaches(x, b)
  PROVE  Reaches(y, b)
  BY DEF PartOf, Reaches

\* The invariant holds at the start.
LEMMA InitInv == Init => IInv
<1> SUFFICES ASSUME Init PROVE IInv
  OBVIOUS
<1>1. /\ index.data = {Genesis} /\ index.haveUndo = {Genesis}
      /\ DOMAIN index = {"data", "haveUndo", "undo", "failed"}
  BY DEF Init
<1>2. Ancestors[Genesis] \subseteq {Genesis}
  BY AncestorsLeast, ChainCoinsAssumption DEF Closed
<1>3. Reaches(index, Genesis) /\ PartOf(index, index)
  BY <1>1, <1>2, ChainCoinsAssumption DEF Reaches, PartOf
<1>4. disk.best = Genesis /\ disk.heads = <<>> /\ diskIndex = index /\ best = Genesis /\ tip = Genesis /\ pc = "idle"
  BY DEF Init
<1>5. QED
  BY <1>1, <1>3, <1>4 DEF IInv, Shape, DiskOK, MemoryOK, FlushOK, AlwaysStarts

\* Steps of validation change neither database.
LEMMA ValidationInv ==
  ASSUME IInv, pc = "idle", UNCHANGED <<disk, diskIndex, pc>>,
         DOMAIN index' = DOMAIN index, PartOf(index, index'), Reaches(index', best'), tip' = best'
  PROVE  IInv'
<1>1. PartOf(diskIndex, index')
  BY DEF IInv, MemoryOK, Up, PartOf
<1>2. Shape' /\ DiskOK'
  BY DEF IInv, Shape, DiskOK, Reaches
<1>3. MemoryOK'
  BY <1>1 DEF MemoryOK, PartOf, Reaches
<1>4. FlushOK' /\ AlwaysStarts'
  BY DEF FlushOK, AlwaysStarts
<1>5. QED
  BY <1>2, <1>3, <1>4 DEF IInv

\* A block is stored, connected, found invalid, tested or disconnected.
LEMMA BlockInv ==
  ASSUME IInv,
         \/ \E b \in Blocks : AcceptBlock(b) \/ ConnectTip(b) \/ TestBlockValidity(b)
         \/ DisconnectTip
  PROVE  IInv'
<1>1. /\ DOMAIN index = {"data", "haveUndo", "undo", "failed"}
      /\ pc = "idle" => Reaches(index, best) /\ tip = best
  BY DEF IInv, Shape, MemoryOK, Up
<1>2. ASSUME NEW b \in Blocks, AcceptBlock(b) PROVE IInv'
  <2>1. pc = "idle" /\ index' = [index EXCEPT !.data = @ \cup {b}] /\ UNCHANGED <<best, tip, disk, diskIndex, pc>>
    BY <1>2 DEF AcceptBlock
  <2>2. DOMAIN index' = DOMAIN index /\ index'.data = index.data \cup {b} /\ index'.haveUndo = index.haveUndo
    BY <1>1, <2>1
  <2>3. PartOf(index, index')
    BY <2>2 DEF PartOf
  <2>4. QED
    BY <1>1, <2>1, <2>2, <2>3, ReachesMore, ValidationInv
<1>3. ASSUME NEW b \in Blocks, ConnectTip(b) PROVE IInv'
  <2>1. /\ pc = "idle" /\ b \in index.data /\ b # Genesis /\ pprev[b] = tip
        /\ UNCHANGED <<disk, diskIndex, pc>>
    BY <1>3 DEF ConnectTip
  <2>2. \/ /\ best' = b /\ tip' = b
           /\ \E u : index' = [index EXCEPT !.haveUndo = @ \cup {b}, !.undo[b] = u]
        \/ UNCHANGED <<best, tip>> /\ index' = [index EXCEPT !.failed = @ \cup {b}]
    BY <1>3 DEF ConnectTip
  <2>3. CASE UNCHANGED <<best, tip>> /\ index' = [index EXCEPT !.failed = @ \cup {b}]
    <3>1. DOMAIN index' = DOMAIN index /\ index'.data = index.data /\ index'.haveUndo = index.haveUndo
      BY <1>1, <2>3
    <3>2. PartOf(index, index')
      BY <3>1 DEF PartOf
    <3>3. QED
      BY <1>1, <2>1, <2>3, <3>1, <3>2, ReachesMore, ValidationInv
  <2>4. ASSUME NEW u, best' = b, tip' = b,
               index' = [index EXCEPT !.haveUndo = @ \cup {b}, !.undo[b] = u]
        PROVE  IInv'
    <3>1. /\ DOMAIN index' = DOMAIN index /\ index'.data = index.data
          /\ index'.haveUndo = index.haveUndo \cup {b}
      BY <1>1, <2>4
    <3>2. PartOf(index, index')
      BY <3>1 DEF PartOf
    <3>3. Reaches(index', best')
      BY <1>1, <2>1, <2>4, <3>1, AncestorsStep DEF Reaches
    <3>4. QED
      BY <2>1, <2>4, <3>1, <3>2, <3>3, ValidationInv
  <2>5. QED
    BY <2>2, <2>3, <2>4
<1>4. ASSUME NEW b \in Blocks, TestBlockValidity(b) PROVE IInv'
  <2>1. pc = "idle" /\ UNCHANGED <<best, tip, index, disk, diskIndex, pc>>
    BY <1>4 DEF TestBlockValidity
  <2>2. PartOf(index, index')
    BY <2>1 DEF PartOf
  <2>3. QED
    BY <1>1, <2>1, <2>2, ReachesMore, ValidationInv
<1>5. CASE DisconnectTip
  <2>1. /\ pc = "idle" /\ tip # Genesis /\ best' = pprev[tip] /\ tip' = pprev[tip]
        /\ UNCHANGED <<index, disk, diskIndex, pc>>
    BY <1>5 DEF DisconnectTip
  <2>2. PartOf(index, index')
    BY <2>1 DEF PartOf
  <2>3. Reaches(index', best')
    BY <1>1, <2>1, AncestorsStep DEF Reaches
  <2>4. QED
    BY <2>1, <2>2, <2>3, ValidationInv
<1>6. QED
  BY <1>2, <1>3, <1>4, <1>5

\* The index is written, and after it the coins, in batches.
LEMMA FlushInv ==
  ASSUME IInv, WriteIndex \/ SkipCoins \/ PartialBatch \/ FinalBatch
  PROVE  IInv'
<1>1. CASE WriteIndex
  <2>1. pc = "idle" /\ pc' = "coins" /\ diskIndex' = index /\ UNCHANGED <<best, tip, index, disk>>
    BY <1>1 DEF WriteIndex
  <2>2. PartOf(diskIndex, index) /\ Reaches(index, best) /\ tip = best
    BY <2>1 DEF IInv, MemoryOK, Up
  <2>3. \A b : Reaches(diskIndex, b) => Reaches(index, b)
    BY <2>2, ReachesMore
  <2>4. DiskOK'
    BY <2>1, <2>3 DEF IInv, DiskOK, Reaches
  <2>5. MemoryOK' /\ FlushOK'
    BY <2>1, <2>2 DEF MemoryOK, FlushOK, PartOf, Reaches
  <2>6. QED
    BY <2>1, <2>4, <2>5 DEF IInv, Shape, AlwaysStarts
<1>2. CASE SkipCoins
  <2>1. pc = "coins" /\ pc' = "idle" /\ UNCHANGED <<best, tip, index, disk, diskIndex>>
    BY <1>2 DEF SkipCoins
  <2>2. QED
    BY <2>1 DEF IInv, Shape, DiskOK, MemoryOK, Up, FlushOK, AlwaysStarts, PartOf, Reaches
<1>3. CASE PartialBatch
  <2>1. /\ pc \in {"coins", "batch", "replay"} /\ pc' \in {"batch", "replay"}
        /\ disk'.best = None /\ disk'.heads = <<best, OldTip>>
        /\ UNCHANGED <<best, tip, index, diskIndex>>
    BY <1>3 DEF PartialBatch
  <2>2. Reaches(diskIndex, best) /\ Reaches(diskIndex, OldTip)
    BY <2>1, ChainCoinsAssumption DEF IInv, FlushOK, DiskOK, OldTip, Reaches
  <2>3. DiskOK'
    BY <2>1, <2>2 DEF DiskOK, Reaches
  <2>4. QED
    BY <2>1, <2>2, <2>3 DEF IInv, Shape, MemoryOK, Up, FlushOK, AlwaysStarts, PartOf, Reaches
<1>4. CASE FinalBatch
  <2>1. /\ pc \in {"coins", "batch", "replay"} /\ pc' = "idle"
        /\ disk'.best = best /\ disk'.heads = <<>>
        /\ UNCHANGED <<best, tip, index, diskIndex>>
    BY <1>4 DEF FinalBatch
  <2>2. DiskOK'
    BY <2>1 DEF IInv, FlushOK, DiskOK, Reaches
  <2>3. QED
    BY <2>1, <2>2 DEF IInv, Shape, MemoryOK, Up, FlushOK, AlwaysStarts, PartOf, Reaches
<1>5. QED
  BY <1>1, <1>2, <1>3, <1>4

\* The databases a crash leaves are enough to start from.
LEMMA RestartInv ==
  ASSUME IInv, Crash \/ Restart
  PROVE  IInv'
<1>1. CASE Crash
  <2>1. pc' = "down" /\ UNCHANGED <<index, disk, diskIndex>>
    BY <1>1 DEF Crash
  <2>2. QED
    BY <2>1 DEF IInv, Shape, DiskOK, MemoryOK, Up, FlushOK, AlwaysStarts, Reaches
<1>2. CASE Restart
  <2>1. index' = diskIndex /\ UNCHANGED <<disk, diskIndex>>
    BY <1>2 DEF Restart
  <2>2. Shape' /\ DiskOK' /\ PartOf(diskIndex, index')
    BY <2>1 DEF IInv, Shape, DiskOK, PartOf, Reaches
  <2>3. CASE disk.heads = <<>>
    <3>1. Reaches(diskIndex, disk.best)
      BY <2>3 DEF IInv, DiskOK
    <3>2. disk.best \in diskIndex.data
      BY <3>1, AncestorsLeast DEF Reaches
    <3>3. best' = disk.best /\ tip' = disk.best /\ pc' = "idle"
      BY <1>2, <2>3, <3>2 DEF Restart
    <3>4. QED
      BY <2>1, <2>2, <3>1, <3>3 DEF IInv, MemoryOK, FlushOK, AlwaysStarts, PartOf, Reaches
  <2>4. CASE disk.heads # <<>>
    <3>1. Reaches(diskIndex, disk.heads[1]) /\ Reaches(diskIndex, disk.heads[2])
      BY <2>4 DEF IInv, DiskOK
    <3>2. Replayable(disk.heads[2], disk.heads[1], diskIndex)
      BY <3>1 DEF Reaches, Replayable
    <3>3. best' = disk.heads[1] /\ tip' = disk.heads[1] /\ pc' = "replay"
      BY <1>2, <2>4, <3>2 DEF Restart
    <3>4. QED
      BY <2>1, <2>2, <3>1, <3>3 DEF IInv, MemoryOK, FlushOK, AlwaysStarts, PartOf, Reaches
  <2>5. QED
    BY <2>3, <2>4
<1>3. QED
  BY <1>1, <1>2

\* Every step keeps the invariant.
LEMMA NextInv == IInv /\ [Next]_vars => IInv'
<1> SUFFICES ASSUME IInv, [Next]_vars PROVE IInv'
  OBVIOUS
<1>1. CASE UNCHANGED vars
  BY <1>1 DEF vars, IInv, Shape, DiskOK, MemoryOK, Up, FlushOK, AlwaysStarts, PartOf, Reaches
<1>2. CASE Next
  BY <1>2, BlockInv, FlushInv, RestartInv DEF Next
<1>3. QED
  BY <1>1, <1>2

\* The coin database refers only to blocks that the index database has, with their
\* undo data, at every moment of a flush or a replay.
THEOREM Invariance == Spec => []IInv
  BY InitInv, NextInv, PTL DEF Spec

\* The node starts from what any number of crashes left, whatever tree of blocks
\* was connected and disconnected between the flushes: LoadChainTip finds the best
\* block, and ReplayBlocks the blocks and undo data between its two heads.
THEOREM StartsAlways == Spec => []AlwaysStarts
<1>1. IInv => AlwaysStarts
  BY DEF IInv
<1>2. QED
  BY <1>1, Invariance, PTL
=============================================================================
