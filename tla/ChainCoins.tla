----------------------------- MODULE ChainCoins -----------------------------
(***************************************************************************)
(* The coins of the active chain, in memory and on disk (validation.cpp,    *)
(* txdb.cpp): blocks are connected and disconnected, the block index and    *)
(* the coins are flushed in batches, the node crashes at any point, and on  *)
(* restart ReplayBlocks finishes an interrupted flush.                      *)
(*                                                                          *)
(* pcoinsTip is the map coins: CoinsCache shows that its layers and flags do *)
(* not matter.  A coin is the height it was created at.  Which chain is      *)
(* activated is left open (BlockTree): any tip may be disconnected and any   *)
(* child of the tip connected.  Scripts, amounts and maturity are checks     *)
(* that the blocks of Bad fail after their inputs were found.                *)
(***************************************************************************)
EXTENDS Integers, SequencesExt

CONSTANTS
  Blocks, Genesis,
  pprev,           \* the parent of each other block
  vtx,             \* the transactions of each block, in block order
  Outpoints,
  vin, vout,       \* the outpoints each transaction spends and creates
  Stake,           \* the transactions that are not TX_Regular
  Disapproving,    \* the blocks whose votes do not accept the parent's regular transactions
  Bad,             \* the blocks that fail a later check of ConnectBlock
  Mined,           \* the blocks this node assembles and tests
  MaxCrashes

Spent == -1
None == "none"

\* A block and the blocks below it: what the walk along pprev from it reaches.
Closed(S) == \A x \in S \ {Genesis} : pprev[x] \in S
Ancestors ==
  [b \in Blocks |-> {x \in Blocks : \A S \in SUBSET Blocks : b \in S /\ Closed(S) => x \in S}]

\* The blocks form a tree.
ASSUME ChainCoinsAssumption ==
  /\ Genesis \in Blocks /\ None \notin Blocks /\ pprev \in [Blocks \ {Genesis} -> Blocks]
  /\ \A b \in Blocks : Genesis \in Ancestors[b]

VARIABLES
  coins, best,         \* pcoinsTip and its best block
  tip,                 \* chainActive.Tip()
  index,               \* block index: blocks with data, with undo data and which, failed blocks
  disk,                \* coin database: coins, best block or None, the head blocks
  diskIndex,           \* block index database
  pc,                  \* where FlushStateToDisk or the start of the node is
  crashes

vars == <<coins, best, tip, index, disk, diskIndex, pc, crashes>>

nHeight[b \in Blocks] == IF b = Genesis THEN 0 ELSE nHeight[pprev[b]] + 1
CoinMap == [Outpoints -> {nHeight[b] : b \in Blocks} \cup {Spent}]
Index == [data : SUBSET Blocks, haveUndo : SUBSET Blocks, undo : [Blocks -> CoinMap],
          failed : SUBSET Blocks]

Txs(b) == {vtx[b][i] : i \in DOMAIN vtx[b]}

-----------------------------------------------------------------------------
(* A block and the coins.                                                   *)

\* The order in which ConnectBlock takes the transactions: the regular ones first, as
\* ticket purchases may be funded by them.  DisconnectBlock makes the same list.
Order(b) == SelectSeq(vtx[b], LAMBDA t : t \notin Stake) \o SelectSeq(vtx[b], LAMBDA t : t \in Stake)
UndoOrder(b) == SelectSeq(vtx[b], LAMBDA t : t \notin Stake) \o SelectSeq(vtx[b], LAMBDA t : t \in Stake)

SetAll(c, S, coin) == [o \in Outpoints |-> IF o \in S THEN coin ELSE c[o]]

\* UpdateCoins, after CheckTxInputs; undo collects the coins spent.
UpdateCoins_late(s, t, h) ==
  [ok    |-> s.ok /\ \A o \in vin[t] : s.coins[o] # Spent,
   undo  |-> s.undo,
   coins |-> SetAll(SetAll(s.coins, vin[t], Spent), vout[t], h)]
UpdateCoins(s, t, h) ==
  [ok    |-> s.ok /\ \A o \in vin[t] : s.coins[o] # Spent,
   undo  |-> [o \in Outpoints |-> IF o \in vin[t] THEN s.coins[o] ELSE s.undo[o]],
   coins |-> SetAll(SetAll(s.coins, vin[t], Spent), vout[t], h)]

ConnectTxs(b, c) ==
  FoldLeft(LAMBDA s, t : UpdateCoins(s, t, nHeight[b]),
           [ok |-> TRUE, undo |-> [o \in Outpoints |-> Spent], coins |-> c], Order(b))

\* One transaction of DisconnectBlock, with ApplyTxInUndo for its inputs.
UndoTx(s, t, h, undo) ==
  LET c == SetAll(s.coins, vout[t], Spent)
  IN  [clean |-> /\ s.clean
                 /\ \A o \in vout[t] : s.coins[o] = h
                 /\ \A o \in vin[t] : c[o] = Spent,
       coins |-> [o \in Outpoints |-> IF o \in vin[t] THEN undo[o] ELSE c[o]]]

DisconnectBlock(b, c, undo, onlyRegular) ==
  FoldRight(LAMBDA t, s : IF onlyRegular /\ t \in Stake THEN s ELSE UndoTx(s, t, nHeight[b], undo),
            UndoOrder(b), [clean |-> TRUE, coins |-> c])

\* RollforwardBlock: in block order, whatever is there already.
RollforwardBlock(b, c) ==
  FoldLeft(LAMBDA s, t : SetAll(SetAll(s, vin[t], Spent), vout[t], nHeight[b]), c, vtx[b])

-----------------------------------------------------------------------------
Init ==
  /\ coins = ConnectTxs(Genesis, [o \in Outpoints |-> Spent]).coins /\ best = Genesis /\ tip = Genesis
  /\ index = [data |-> {Genesis}, failed |-> {},
              haveUndo |-> {Genesis}, undo |-> [b \in Blocks |-> [o \in Outpoints |-> Spent]]]
  /\ disk = [coins |-> coins, best |-> Genesis, heads |-> <<>>]
  /\ diskIndex = index
  /\ pc = "idle" /\ crashes = 0

\* AcceptBlock stores the block; of the blocks below it the headers are enough.
AcceptBlock(b) ==
  /\ pc = "idle"
  /\ b \notin index.data
  /\ index' = [index EXCEPT !.data = @ \cup {b}]
  /\ UNCHANGED <<coins, best, tip, disk, diskIndex, pc, crashes>>

\* DisconnectDisapprovedTip works on pcoinsTip, before the block is checked.
Disapprove(b, c) ==
  LET r == DisconnectBlock(tip, c, index.undo[tip], TRUE)
  IN  IF b \in Disapproving /\ nHeight[b] > 1 /\ r.clean THEN r.coins ELSE c

\* BIP30: none of the outputs is there yet.
Fresh(b) == \A t \in Txs(b) : \A o \in vout[t] : coins[o] = Spent

\* ConnectTip and ConnectBlock
ConnectTip(b) ==
  /\ pc = "idle"
  /\ b \in index.data \ index.failed /\ b # Genesis /\ pprev[b] = tip
  /\ \E c \in {IF Fresh(b) THEN Disapprove(b, coins) ELSE coins} :
     \E r \in {ConnectTxs(b, c)} :
       \/ /\ Fresh(b) /\ r.ok /\ b \notin Bad
          /\ coins' = r.coins /\ best' = b /\ tip' = b
          /\ index' = [index EXCEPT !.haveUndo = @ \cup {b},
                                    !.undo[b] = IF b \in index.haveUndo THEN @ ELSE r.undo]
       \/ /\ ~(Fresh(b) /\ r.ok /\ b \notin Bad)
          /\ coins' = c
          /\ index' = [index EXCEPT !.failed = @ \cup {b}]
          /\ UNCHANGED <<best, tip>>
  /\ UNCHANGED <<disk, diskIndex, pc, crashes>>

\* TestBlockValidity: ConnectBlock with fJustCheck, on the tip or a side tip; of
\* the block only what was done to pcoinsTip remains.  (Blocks on a genesis tip
\* have nothing to disapprove.)
TestBlockValidity(b) ==
  /\ pc = "idle"
  /\ b \in Mined /\ tip # Genesis /\ pprev[b] \in index.data /\ nHeight[pprev[b]] >= nHeight[tip]
  /\ coins' = IF Fresh(b) THEN Disapprove(b, coins) ELSE coins
  /\ UNCHANGED <<best, tip, index, disk, diskIndex, pc, crashes>>

\* DisconnectTip gives up, without a change, if the coins are not as expected.
DisconnectTip ==
  /\ pc = "idle" /\ tip # Genesis
  /\ LET r == DisconnectBlock(tip, coins, index.undo[tip], FALSE)
     IN  r.clean /\ coins' = r.coins
  /\ best' = pprev[tip] /\ tip' = pprev[tip]
  /\ UNCHANGED <<index, disk, diskIndex, pc, crashes>>

-----------------------------------------------------------------------------
(* FlushStateToDisk: the index, and then the coins in one or more batches.  *)

WriteIndex_none == pc = "idle" /\ pc' = "coins" /\ UNCHANGED <<coins, best, tip, index, disk, diskIndex, crashes>>
WriteIndex ==
  /\ pc = "idle"
  /\ diskIndex' = index /\ pc' = "coins"
  /\ UNCHANGED <<coins, best, tip, index, disk, crashes>>

\* It was only time to write the index.
SkipCoins == pc = "coins" /\ pc' = "idle" /\ UNCHANGED <<coins, best, tip, index, disk, diskIndex, crashes>>

\* CCoinsViewDB::BatchWrite: a partial batch; the first one marks the transition.
OldTip == IF disk.best # None THEN disk.best ELSE disk.heads[2]
PartialBatch_unmarked ==
  /\ pc \in {"coins", "batch", "replay"}
  /\ \E S \in SUBSET {o \in Outpoints : disk.coins[o] # coins[o]} :
       disk' = [disk EXCEPT !.coins = [o \in Outpoints |-> IF o \in S THEN coins[o] ELSE disk.coins[o]]]
  /\ pc' = IF pc = "coins" THEN "batch" ELSE pc
  /\ UNCHANGED <<coins, best, tip, index, diskIndex, crashes>>
PartialBatch ==
  /\ pc \in {"coins", "batch", "replay"}
  /\ \E S \in SUBSET {o \in Outpoints : disk.coins[o] # coins[o]} :
       disk' = [coins |-> [o \in Outpoints |-> IF o \in S THEN coins[o] ELSE disk.coins[o]],
                best |-> None, heads |-> <<best, OldTip>>]
  /\ pc' = IF pc = "coins" THEN "batch" ELSE pc
  /\ UNCHANGED <<coins, best, tip, index, diskIndex, crashes>>

\* The last batch.
FinalBatch ==
  /\ pc \in {"coins", "batch", "replay"}
  /\ disk' = [coins |-> coins, best |-> best, heads |-> <<>>]
  /\ pc' = "idle"
  /\ UNCHANGED <<coins, best, tip, index, diskIndex, crashes>>

Crash ==
  /\ pc \notin {"down", "failed"} /\ crashes < MaxCrashes
  /\ pc' = "down" /\ crashes' = crashes + 1
  /\ UNCHANGED <<coins, best, tip, index, disk, diskIndex>>

\* ReplayBlocks from the old head to the new one: roll back to the fork, where the
\* blocks and their undo data must be known, and roll forward.
Rollback_clean(c, b, x) ==
  LET r == DisconnectBlock(b, c, x.undo[b], FALSE) IN IF r.clean THEN r.coins ELSE c
Rollback(c, b, x) == DisconnectBlock(b, c, x.undo[b], FALSE).coins

RollbackAll(c, old, new, x) ==
  FoldLeft(LAMBDA s, b : Rollback(s, b, x), c,
           SetToSortSeq(Ancestors[old] \ Ancestors[new], LAMBDA a, b : nHeight[a] > nHeight[b]))
RollforwardAll(c, old, new) ==
  FoldLeft(LAMBDA s, b : RollforwardBlock(b, s), c,
           SetToSortSeq(Ancestors[new] \ Ancestors[old], LAMBDA a, b : nHeight[a] < nHeight[b]))

Replayable(old, new, x) ==
  /\ Ancestors[old] \cup Ancestors[new] \subseteq x.data
  /\ Ancestors[old] \ Ancestors[new] \subseteq x.haveUndo

\* LoadBlockIndex, ReplayBlocks up to its flush, and LoadChainTip (which follows the
\* flush; nothing looks at the tip before).
Restart ==
  /\ pc = "down"
  /\ index' = diskIndex
  /\ LET new == disk.heads[1]
         old == disk.heads[2]
         b == disk.best
     IN  \/ /\ disk.heads = <<>> /\ b \in diskIndex.data
            /\ coins' = disk.coins /\ best' = b /\ tip' = b /\ pc' = "idle"
         \/ /\ disk.heads # <<>> /\ Replayable(old, new, diskIndex)
            /\ coins' = RollforwardAll(RollbackAll(disk.coins, old, new, diskIndex), old, new)
            /\ best' = new /\ tip' = new /\ pc' = "replay"
         \/ /\ IF disk.heads = <<>> THEN b \notin diskIndex.data ELSE ~Replayable(old, new, diskIndex)
            /\ pc' = "failed" /\ UNCHANGED <<coins, best, tip>>
  /\ UNCHANGED <<disk, diskIndex, crashes>>

Next ==
  \/ \E b \in Blocks : AcceptBlock(b) \/ ConnectTip(b) \/ TestBlockValidity(b)
  \/ DisconnectTip \/ WriteIndex \/ SkipCoins \/ PartialBatch \/ FinalBatch \/ Crash \/ Restart

Spec == Init /\ [][Next]_vars

-----------------------------------------------------------------------------
TypeOK ==
  /\ coins \in CoinMap /\ best \in Blocks /\ tip \in Blocks
  /\ {index, diskIndex} \subseteq Index
  /\ disk.coins \in CoinMap /\ disk.best \in Blocks \cup {None}
  /\ disk.heads \in {<<>>} \cup (Blocks \X Blocks)
  /\ pc \in {"idle", "coins", "batch", "replay", "down", "failed"}
  /\ crashes \in 0..MaxCrashes

\* The coins of the chain that ends with b: what its transactions created and did
\* not spend.  The regular transactions of a block do not count if the next one
\* disapproves them.
Disapproved(a, b) == \E k \in Ancestors[b] \cap Disapproving : nHeight[k] > 1 /\ pprev[k] = a
Counted(a, b) == {t \in Txs(a) : Disapproved(a, b) => t \in Stake}
CoinsOf(b) ==
  [o \in Outpoints |->
     LET made == {a \in Ancestors[b] : \E t \in Counted(a, b) : o \in vout[t]}
         used == \E a \in Ancestors[b] : \E t \in Counted(a, b) : o \in vin[t]
     IN  IF made = {} \/ used THEN Spent ELSE nHeight[CHOOSE a \in made : TRUE]]

Running == pc \in {"idle", "coins", "batch"}

\* pcoinsTip has the coins of the active chain, and no others: after any connects
\* and disconnects, failed and tested blocks, crashes in the middle of a flush or
\* of a replay, and restarts.
CoinsMatchChain == Running => coins = CoinsOf(tip) /\ best = tip

\* The coin database is that of its best block, unless it says that a flush is
\* under way, and then between which blocks.
DiskMatchesBest ==
  IF disk.heads = <<>> THEN disk.coins = CoinsOf(disk.best)
  ELSE /\ disk.best = None
       /\ pc \in {"batch", "replay"} => disk.heads[1] = best
       /\ \A o \in Outpoints :
            disk.coins[o] \in {CoinsOf(b)[o] : b \in Ancestors[disk.heads[1]] \cup Ancestors[disk.heads[2]]}

\* The node starts from what a crash left: the index was written before the coins
\* that refer to it, with the undo data of every block to be rolled back.
AlwaysStarts == pc # "failed"

\* VerifyDB, level 3: every block of the active chain can be disconnected, the tip
\* first, finding the coins as the block left them, down to those of the genesis
\* block.
VerifyDown[b \in Blocks] ==
  IF b = tip THEN [clean |-> TRUE, coins |-> coins]
  ELSE LET kids == {k \in Ancestors[tip] : k # Genesis /\ pprev[k] = b}
           k == CHOOSE k \in kids : TRUE
           s == VerifyDown[k]
       IN  IF ~s.clean \/ k \notin index.haveUndo THEN [clean |-> FALSE, coins |-> s.coins]
           ELSE DisconnectBlock(k, s.coins, index.undo[k], FALSE)
VerifiesClean ==
  Running => VerifyDown[Genesis].clean /\ VerifyDown[Genesis].coins = CoinsOf(Genesis)
=============================================================================
