# Verification of bwscoin

TLA+ modules, TLC configurations and TLAPS proofs for bwscoin: a Bitcoin Core
(0.15/0.16) fork that adds a Decred-style proof-of-stake layer (tickets, votes,
revocations, a ticket lottery, stake difficulty, stake versions) and a
proof-of-useful-work client. Source paths below are relative to `src/src/`.

## 1. The system and its parts

The node is one process. Its state is guarded by a few global locks (`cs_main`,
`mempool.cs`, `cs_wallet`, `cs_vNodes`), and these threads work on it: the
message handler and the socket handler (`net.cpp`), script-check workers
(`checkqueue.h`), the scheduler (`scheduler.cpp`), RPC/HTTP workers, and, in the
wallet, the auto-voter, the auto-revoker and the ticket buyer.

| Part | Source | Operations that change state | Modelled by |
|---|---|---|---|
| Stake node | `stake/stakenode.{h,cpp}` | `genesisNode`, `ConnectNode`, `DisconnectNode` | `StakeNode` |
| Stake view of the active chain | `validation.cpp` (`ContextualCheckBlock`, `AcceptBlock`, `FetchStakeNode`, `MaybeFetchNewTickets`), `chain.{h,cpp}` | connect and disconnect of a block | `StakeChain`; with side chains `BlockTree` |
| Ticket treap | `stake/treap/*` | `put`, `deleteKey`, the `ParentStack` | `TicketTreap`, `ParentStack`; as a function in `StakeNode` |
| Lottery generator | `stake/hash256prng.cpp` | `Hash256Rand`, `UniformRandom`, `FindTicketIdxs` | `Lottery`; its promise (`DrawSelects`) in `StakeNode` |
| Stake transactions | `stake/staketx.cpp`, `stake/votebits.cpp`, `stake/extendedvotebits.cpp` | none: parsing and checking | not modelled: no state |
| Stake versions | `stake/stakeversion.cpp`, `versionbits.cpp` | caches | not modelled |
| Difficulty, subsidy, remuneration | `pow.cpp`, `validation.cpp`, `stake/stakepoolfee.cpp` | none: functions of the chain | not modelled; the stake difficulty is a parameter of `Mempool` |
| Block storage and activation | `validation.cpp`, `chain.h` | `AcceptBlockHeader`, `AcceptBlock`, `ActivateBestChain`, `InvalidateBlock`, `PreciousBlock`, pruning | `BlockTree`; pruning not |
| Coins and their undo | `coins.cpp`, `txdb.cpp`, `undo.h`, `validation.cpp` | `ConnectBlock`, `DisconnectBlock`, flush, replay after a crash | `CoinsCache`, `ChainCoins`; abstractly `CoinsView` |
| Memory pool | `txmempool.cpp`, `validation.cpp` (`AcceptToMemoryPool`) | add, remove, expire, trim, reorganise | `Mempool` |
| Block assembly | `miner.cpp` | none: `CreateNewBlock` reads pool and chain | not modelled |
| Peer protocol | `net.cpp`, `net_processing.cpp`, `blockencodings.cpp` | handlers of each message, eviction, bans | not modelled; `BlockTree` takes headers and blocks in any order |
| Address manager | `addrman.cpp`, `addrdb.cpp` | `Add`, `Good`, `Attempt`, `Select` | not modelled |
| Wallet | `wallet/*` | keys, transactions, coin selection, rescans | not modelled |
| Wallet automation | `wallet/auto-voter`, `wallet/auto-revoker`, `wallet/ticket-buyer` | one loop or callback each | not modelled; two of the three are dormant |
| Scheduler, check queue, locks | `scheduler.cpp`, `checkqueue.h`, `sync.cpp` | queues of work between threads | `CheckQueue`; the scheduler not |
| Proof of useful work client | `ml/*` | none: blocking calls | not modelled |
| RPC, REST, ZMQ, Qt, command line | `rpc/*`, `rest.cpp`, `zmq/*`, `qt/*` | front ends | not modelled |
| Script, signatures, hashing, serialisation | `script/*`, `crypto/*`, `key.cpp`, `serialize.h` | none | not modelled |
| Bundled libraries | `leveldb`, `secp256k1`, `univalue` | | not modelled |

### How a ticket lives

A ticket is bought by a transaction. `nTicketMaturity` blocks later it matures:
`MaybeFetchNewTickets` reads the old block and the new block's stake node gets
the ticket in its live treap. From the block before `nStakeValidationHeight` on,
every block draws `nTicketsPerBlock` live tickets; the next block must contain
votes of a majority of them. A drawn ticket that does not vote is missed; a live
ticket that reaches `nTicketExpiry` is expired and missed; a missed ticket may be
revoked. Every block index entry of the active chain points to the stake node
(the three treaps, undo data, winners, lottery state) as of that block, and a
block is checked against the stake node of its parent.

### What no network has switched on

`nStakeValidationHeight` is 2147483647 on all networks of `chainparams.cpp`: no
block carries votes yet, no ticket is called or missed, and the auto-voter and
the auto-revoker never act. The stake node, the checks of votes and disapproval
are modelled all the same, with the height a parameter; where a disagreement
below needs votes it says so. The memory pool is modelled as it is used, with
tickets and without votes.


## 2. Modules and the code they model

| Module | What it is |
|---|---|
| `StakeNode` | operators `ConnectNode` and `DisconnectNode` on stake node records |
| `StakeChain` | the state machine: a chain of blocks with their stake nodes; `Connect`, `DisconnectTip` |
| `TicketLifecycle` | abstract specification: the status of each ticket at each block |
| `MCStakeChain` | the small instance of `StakeChain` |
| `TicketTreap` | the treap as shared nodes in a store; `Put`, `DeleteKey`, `Snapshot` |
| `ParentStack` | the stack of ancestors used by the walks of the treap |
| `Lottery` | the index generator, one action per word |
| `StakeNodeProofs`, `StakeChainProofs` | proofs about stake nodes and about the chain; the second extends the first |
| `ParentStackProofs`, `LotteryProofs` | proofs about the stack and the generator |
| `BlockTree`, `MCBlockTree` | the block index and the choice of the active chain; trees for TLC |
| `CoinsView` | abstract specification: coins on disk, of the chain, and in a draft |
| `CoinsCache` | the two cache layers with their flags; implements `CoinsView` |
| `ChainCoins`, `MCChainCoins` | coins and undo data of the active chain, flushes, crashes and replay; chains for TLC |
| `Mempool`, `MCMempool` | the memory pool and its part in chain changes; transactions for TLC |
| `CheckQueue` | the queue of script checks |
| `BlockTreeProofs`, `CoinsCacheProofs`, `ChainCoinsProofs`, `CheckQueueProofs` | proofs about the block index, the caches, the start after a crash, and the queue |

The modules meet where the code does: `StakeChain` uses the operators of
`StakeNode`; `TicketTreap` and `Lottery` justify what `StakeNode` takes a treap
and a draw to be; `ChainCoins` takes `pcoinsTip` to be a map because
`CoinsCache` implements one; which blocks it connects and disconnects is what
`BlockTree` decides; `Mempool` follows any such connects and disconnects.

**StakeNode.** A treap is a function from tickets to values (height and the four
flags `missed`, `revoked`, `spent`, `expired`). `ConnectNode` makes four passes:
winners of the parent become spent or missed, overdue live tickets expire, missed
tickets are revoked, new tickets become live. Each pass appends to the undo
vector. The model keeps the four stretches as four functions (`CalledRun`,
`ExpiredRun`, `RevokedRun`, `NewRun`); the keys of one stretch are distinct, so
within a stretch only the order of the called tickets can be observed, and
`called` keeps it. `DisconnectNode` runs forward over the same data and decides
by the flags alone (`UndoRun`). `nullptr` is `NoNode`. The lottery state is a
hash of the winners and the generator's state, and the generator's state is
determined by the seed and the pool size: the model keeps these three.

An entry of the undo data in none of the four states the loop knows fails an
assertion; that there is none is part of `UndoRestoresTreaps`.

**StakeChain.** One variable, `chain`. `Connect` takes any votes and revocations
of tickets whose coins can be spent, applies the checks of
`ContextualCheckBlock`, and then, as `AcceptBlock` and `ConnectTip` do, gives the
block its stake node and makes it the tip; a block for which `ConnectNode`
returns `nullptr` is refused. `MaturingAt` is `MaybeFetchNewTickets`; it asserts that
the block `nTicketMaturity` below is there, which holds as no network enables stake
earlier than that. The votes of a block are a set: of two votes for one ticket the
second spends a coin that is gone, and the block is not connected.
`DisconnectTip` drops the tip. Since the parent's stake node is immutable and
stays loaded, disconnecting does not call `DisconnectNode`; what that function
would return is checked as a property of every reachable chain
(`UndoRestoresTreaps`, `UndoRestoresLottery`).

**TicketTreap** grounds the abstraction of treaps as functions. Nodes are cells
of a store, shared between treaps through pointers. `put` clones the search path,
hangs the new node and rotates it up; `deleteKey` clones the path, rotates the
node down with cloned children and cuts it off. `Hold` renumbers the cells after
each operation, since an address is only compared with another. `ParentStack` is
modelled apart: within `TicketTreap` the stack is a sequence.

**Lottery** grounds `DrawSelects`. The words a hash yields are arbitrary, so the
properties hold for every hash; `NoWordTwice` identifies a hash by what was
hashed.

**BlockTree.** The blocks that exist form a fixed tree; `index` holds those whose
header was accepted, `data` those received, and the other variables are the status
flags and derived sets of `validation.cpp` under their names there. `Header` and
`Block` are `ProcessNewBlockHeaders` and `ProcessNewBlock` up to its call of
`ActivateBestChain`, which then runs in rounds (`ActivateBestChain(t)`), since the
code releases `cs_main` between them and keeps `pindexMostWork`. One round holds
`FindMostWorkChain`, the disconnects and connects of `ActivateBestChainStep` and
the update of the candidates. The loop of `FindMostWorkChain` is given by its result
(`FindMostWork`): the candidates it tries and drops, in the order `Sooner`, and the
one it ends with. `InvalidateBlock`, `ResetBlockFailureFlags` and
`PreciousBlock` are the RPC calls, each followed by an activation. `Restart` keeps
what is on disk and rebuilds the rest as `LoadBlockIndexDB` does. Ties between
equal sequence numbers go by the address of the entry, so `address` is an order
that a restart may change. A stake node is there and complete, there without the
votes of its block, or missing.

**CoinsCache.** An entry is a coin with `DIRTY` and `FRESH`. Every operation of
`CCoinsViewCache` is one action on the top cache, and look-ups fill the caches
they pass. `FlushTip` and `Uncache` are enabled under an open view, as
re-admission to the memory pool may do both. There is at most one view on top of
`pcoinsTip` that has entries: the disapproval of a parent flushes a view of its own
before that of `ConnectTip` has any. For undo data without a height `ApplyTxInUndo`
first looks for another output of the transaction: look-ups and then `Restore`.

**ChainCoins.** Blocks are stored in any order (`AcceptBlock`). `ConnectTip` is `ConnectBlock` in the order the code uses (regular
transactions first), with the undo data it writes; a block that fails is marked
and leaves the coins alone, except for the disapproval of its parent, which is
done in `pcoinsTip` at once. A flush writes the index (`WriteIndex`), then any
part of the changed coins per batch (`PartialBatch`) under the mark of the head
blocks, then the rest (`FinalBatch`). `Crash` keeps what was written. `Restart`
is `ReplayBlocks`: it rolls back to the fork and forward again. The index says which
blocks have undo data (`haveUndo`, the code's `BLOCK_HAVE_UNDO`).

**Mempool.** `pool` is `mapTx`, `mapLinks` and `mapNextTx` with the ancestor and
descendant counts. `AcceptToMemoryPool` takes `mempool.cs` several times, so it is
one action per section, and the clean-up of stale tickets, which runs without
`cs_main`, may come between them. `DisconnectTip`, `ConnectTip`, `EndStep`,
`Readd`, `UpdateLinks`, `Tidy` (`removeForReorg`), `Expire` and `TrimToSize` follow a
reorganisation through `UpdateMempoolForReorg`, again one action per section under
`mempool.cs`. Expiry and trimming may take any entries with their descendants, until
the pool fits. Relative lock times (`CheckSequenceLocks`) are left out, and so is the
end of a step after a failing disconnect, when the queue is dropped without being added
back: the node is then shutting down on a system error.

**CheckQueue.** One action per critical section of `Loop`, `Add` and the control
object; checks run outside. A notification wakes any one waiter, a wait may end
without one, and a thread may be interrupted in its wait: a worker is then gone, and a
master leaves `Loop` by the exception, after which the queue still counts it among its
threads (`interrupted`) and the destructor of the control object waits again.

Definitions whose name ends in a lower-case suffix after an underscore
(`ExpiredRun_late`) are deliberately wrong variants. They are used to confirm that
a property notices the fault; no specification uses them.

## 3. Runs

| Run | Configuration | Shows |
|---|---|---|
| `stake_chain` | `MCStakeChain.cfg` | all properties of `StakeChain` and the refinement of `TicketLifecycle` |
| `early_purchase` | `MCStakeChainEarly.cfg` | a counterexample to `EveryTicketMatures` |
| `ticket_treap` | `MCTicketTreap.cfg` | the treap is a map with order statistics, a heap, and immutable |
| `parent_stack` | `MCParentStack.cfg` | the stack is one for walks that push before they pop |
| `parent_stack_deep` | `MCParentStackDeep.cfg` | a counterexample to `StackAgrees` for other walks |
| `lottery` | `MCLottery.cfg` | unbiased indexes; the draw can finish; no word is reused |
| `block_tree` | `MCBlockTree.cfg` | the block index stays consistent, the best chain is active after an activation |
| `activation_ends` | `MCBlockTreeEnds.cfg` | two threads activate beside each other: both end, and the chains chosen are complete |
| `coins_cache` | `CoinsCache.cfg` | the flags are sound; the caches implement `CoinsView` |
| `coins_crash` | `MCCoinsCrash.cfg` | coins, undo data and database match the chain across crashes |
| `mempool` | `MCMempool.cfg` | links and counts stay exact; entries can be mined; stale tickets go |
| `check_queue` | `MCCheckQueue.cfg` | every block gets its own verdict, and gets it |

`stake_chain`: `FlagsMatchTreaps` (flags say which treap a value is in),
`TicketsConserved` (matured tickets are exactly the voted, live, missed and
revoked ones, each once), `WinnersAreLive` (the assertion in `ConnectNode`),
`SpentOnce`, `SpendsAreMature` (the maturity check on a ticket's coin agrees with
the pools), `LiveWithinExpiry`, the two undo properties, and `LifecycleSpec`.

`block_tree`: `CheckBlockIndex` (the assertions of the function of that name, when
no thread is in an activation), `BestChainActive` and `ActiveHasStakeNode` (what
`FetchStakeNode` relies on). `activation_ends`: `ActivationEnds`, although the choice a
thread keeps between its rounds may be overtaken by another thread's blocks, steps or
RPC call, and `ChainsComplete` (the candidates and the active chain have the data of
all their blocks, as `FindMostWorkChain` asserts).

`coins_cache`: `FlagsSound`, `NothingThrown` (the two `logic_error`s) and the
refinement `CoinsViewSpec`. `coins_crash`: `CoinsMatchChain`, `DiskMatchesBest`,
`AlwaysStarts` (the index was written before the coins that refer to it) and
`VerifiesClean` (`VerifyDB` down to the genesis block).

`mempool`: `PackagesMatchLinks` and `LinksMatchInputs` (what `CTxMemPool::check`
asserts, and more of it half-way through a reorganisation), `EntriesSpendable`,
`FundingFirst` and `TicketsCurrent`. `check_queue`: `TodoExact`, `ResultExact`,
`QueueUnused` and `WaitReturns`.

The type invariants of the modules other than `StakeChain` are not among the
properties of the runs; those of `CoinsCache` and `CheckQueue` are proved.

**Bounds.** `stake_chain` has 13 tickets in three batches, two seeds that draw
from opposite ends of the pool, three tickets per block, maturity 1, expiry 2,
stake enabled at height 2 and validated from 3, heights up to 5. Three is the
least number of called tickets for which a block may miss one and still have a
majority. With expiry 2 and two batches in the pool, one block can have votes, a
miss, an expiry, revocations and new tickets together, which is the case the undo
data must tell apart; the largest height is two blocks past the first votes, so a
ticket can be missed, then revoked, and the chain reorganised over it.
`ticket_treap` has four keys and three heights: treaps of up to four
nodes, with equal priorities and rotations over several levels, each together
with the older treaps it can have grown out of. `lottery` has eight words,
which puts pool sizes on both sides of half the word range and on it, two words
per hash and two blocks per seed, so that one draw passes both roll overs.
`parent_stack` has an array of two and depth five.

`block_tree` has a chain of three and a rival of its first block; the first or the
second block of the chain, or the rival, fails to connect, and the third has a
wrong vote. So a reorganisation can fail half-way and have to come back, headers
can arrive above a failed block, and blocks before their parents. Two RPC calls and
one restart may come anywhere; the calls left out (`Beside`) are those that lead to
the disagreements below: `reconsiderblock` on a block of the chain, and
`invalidateblock` on its middle block. There is one thread, for the same reason.
`activation_ends` has two threads, a chain of two and a rival of its first block, any
RPC call on any block, and the second block of the chain or the rival fails: a thread
can be one block short of its choice when the other thread receives a block, activates,
invalidates the choice or a block below it, or prefers the rival.
`coins_cache` has two outpoints with two coins each: entries are independent of
each other, and two coins tell a stale entry from a current one. `coins_crash` has
two chains of two blocks and a fifth block that spends a coin of the other chain,
one transaction that is on both chains at different heights, and two crashes, the
second possibly during the replay after the first; no ticket is funded in its own
block (`MCCoinsReplayOrder.cfg`) and no block disapproves its parent. `mempool` has four
transactions: one that feeds a second, a ticket fed by both, and a conflict; blocks
of up to two transactions and chains of up to three blocks. With a descendant limit
of two an acceptance is refused for it, and a reorganisation still makes packages of
three, as the code lets it; the disconnect queue of four overflows. Trimming and
expiry may remove entries at any acceptance, so the pool limit does not matter. The
stake difficulty changes once, downwards, and the ticket pays the earlier value:
with one that pays the later value, `invalidateblock` leads to a disagreement
below (`MCMempoolInvalidate.cfg`). For the same reason nothing spends the change of
the ticket (`MCMempoolOrphan.cfg`, `MCMempoolRace.cfg`). `check_queue` has three checks, one
master and two workers with batches of at most two, so that a block's checks are
split between threads and a second block follows the first.

**Deadlock and fairness.** Deadlock is checked except in `lottery`, where the draw
ends, and in `block_tree` and `activation_ends`, where all blocks may have arrived. Two runs assume
fairness. In `check_queue` every thread that can take its next step in `Loop`
takes it (weak fairness of `Loop` per thread): a thread that holds or can get the
mutex is scheduled, and checks terminate. Nothing makes a master start, a waiter
wake up without a notification, or an interrupt happen. In `activation_ends` a thread
that is in `ActivateBestChain` goes on with the next round (weak fairness per
thread), as `cs_main` is free between rounds and is not kept by another thread for
ever; blocks, calls and restarts need not happen. The draw of `Lottery` terminates
only if the hash eventually yields a useful word; `CanFinish` checks the part the
code is responsible for.

### Disagreements found

- **Early tickets** (`early_purchase`). `consensus/params.h:111` calls
  `nTicketMaturity` the "Number of blocks for tickets to mature". A ticket bought
  so early that this falls below `nStakeEnabledHeight` never matures
  (`validation.cpp:5584`): its coin can neither vote nor be revoked.
- **Deep walks** (`parent_stack_deep`). Past 128 items `pop` and `push` of
  `ParentStack` disagree on where the top is. Random keys make treaps that deep
  improbable.

The following configurations are further instances of the same modules. They are
not among the runs above and are run by hand, for instance
`tlc -config MCBlockTreeStale.cfg MCBlockTree`. In the three of the table the
properties hold; in the others TLC finds the property violated by what the code does.

| Configuration | Property | Result |
|---|---|---|
| `MCBlockTreeThreads.cfg` | `NoAbort` | holds: two threads, valid blocks |
| `MCCoinsFunded.cfg` | `CoinsMatchChain`, `VerifiesClean` | hold: a ticket funded in its own block, no crash |
| `MCMempoolTickets.cfg` | `EntriesSpendable`, `FundingFirst`, `TicketsCurrent` | hold: two clean-ups under way |

- **`MCTicketTreapReheight.cfg`** (module `TicketTreap`), `ByHeightComplete`. `put` on a
  stored key with a new height keeps the old priority, so `forEachByHeight`, which prunes
  on priorities, goes by the old height (stake/treap/tickettreap.cpp:137). The stake node
  never does this to the live treap.
- **`MCBlockTreeSibling.cfg`**, `NoAbort`. A reorganisation that fails at its second
  block ends on an assertion when the block at hand is a sibling of the old tip.
  ActivateBestChain passes the block at hand to ActivateBestChainStep also when it only
  has the same parent as pindexMostWork. When b1 arrives after its child b2 and b2 fails
  to connect, the next round goes back to a1 with the block b1, and ConnectBlock's
  assertion (validation.cpp:2145) that the block has the hash of the entry fails.
  validation.cpp:2938 says: "pblock is either nullptr or a pointer to a CBlock
  corresponding to pindexMostWork."
- **`MCBlockTreeStale.cfg`**, `BestChainActive`. Two threads in ActivateBestChain leave
  a chain active that is not the best. pindexMostWork is kept from one round to the next
  while cs_main is free. If another thread has connected a further block meanwhile, the
  round disconnects that block to get back to the remembered one, and both threads end
  there. validation.cpp:3043 says: "The result is either failure or an activated best
  chain."
- **`MCBlockTreeReconsider.cfg`**, `CheckBlockIndex`. reconsiderblock on a child of an
  invalidated block leaves the index in a state CheckBlockIndex refuses.
  ResetBlockFailureFlags clears the flags of the ancestors of the block but does not
  make them candidates again, so the chain up to them is valid and not activated.
  validation.cpp:5265 says: "If this block sorts at least as good as the current tip and
  is valid and we have all data for its parents, it must be in setBlockIndexCandidates."
- **`MCBlockTreeLateChild.cfg`**, `CheckBlockIndex`. A block received after its parent
  was invalidated, and before its grandparent, is never linked.
  ReceivedBlockTransactions does not remember a block whose parent has failed; when the
  grandparent arrives the parent is linked and the block is not, although all blocks
  below it were processed. validation.cpp:5250 says of nChainTx: "nChainTx != 0 is used
  to signal that all parent blocks have been processed".
- **`MCBlockTreeFailedSet.cfg`**, `NoAbort`. After reconsiderblock on a child of an
  invalidated block, a further header ends on an assertion. ResetBlockFailureFlags
  clears BLOCK_FAILED_VALID of the ancestors but leaves them in g_failed_blocks, and
  AcceptBlockHeader asserts the flag of the entries it finds there
  (validation.cpp:4096). validation.cpp:177 says of the set: "blocks which we tried to
  connect and found to be invalid here (ie which were set to BLOCK_FAILED_VALID since
  the last restart)".
- **`MCBlockTreeVotes.cfg`**, `VotesChecked`. A block with a vote its parent does not
  allow becomes active when its data came before its parent's. The check is skipped when
  the parent has no stake node yet, and nothing repeats it when the parent's block has
  arrived and the block is connected. validation.cpp:3989 says: "Ensure that votes and
  revocations refer only to tickets that are valid from the perspective of this block".
- **`MCBlockTreeSideTips.cfg`**, `SideTipsHaveNodes`. A complete side chain as good as
  the active one has a tip without a stake node. AcceptBlock builds a stake node only if
  the parent has one and does not come back to the blocks that waited for their parent,
  so a side chain tip received before its parent has none until it is activated;
  getblocktemplate throws for it (rpc/mining.cpp:648). validation.cpp:4216 says: "build
  the stake node information when a block is accepted, as it is needed in case a side
  chain tip is checked for votes either in autovoter, either in getblocktemplate rpc
  implementation".
- **`MCBlockTreeBareNodes.cfg`**, `NodesComplete`. A block whose header was there before
  a restart and whose data came after it has a stake node without its votes. At start-up
  every entry gets a stake node, entries without block data one built from empty lists
  of votes; when the block arrives, FetchStakeNode returns that node.
  validation.cpp:5621 says: "Populate the prunable ticket information as needed."
- **`MCBlockTreeFarHeaders.cfg`**, `NoAbort`. A restart with headers more than
  nTicketMaturity ahead of the blocks ends on an assertion. LoadBlockIndexDB builds a
  stake node for every entry of the index, and MaybeFetchNewTickets asserts that the
  block nTicketMaturity below it can be read, although header-first download leaves
  entries far ahead of the blocks. validation.cpp:5607 states that the block is there:
  assert(!"Could not read block from disk").
- **`MCCoinsReplayOrder.cfg`**, `CoinsMatchChain`. A crash during a flush revives the
  coin that a ticket purchase took from a regular transaction of its own block.
  RollforwardBlock takes the transactions in block order. The ticket purchase spends a
  coin that is not there yet, and the regular transaction after it then adds that coin,
  which stays in the coin database as unspent. ConnectBlock takes the regular
  transactions first (validation.cpp:2281). validation.cpp:4778 says: "Apply the effects
  of a block on the utxo cache, ignoring that it may already have been applied."
- **`MCCoinsDisapproved.cfg`**, `CoinsMatchChain`. Disconnecting a block that
  disapproved its parent leaves the parent's regular transactions undone. ConnectBlock
  undoes the parent's regular transactions when the votes disapprove them;
  DisconnectBlock undoes only the block's own transactions, so with the parent as tip
  its regular transactions are missing from the coins. validation.cpp:1857 says: "Undo
  the effects of this block (with given index) on the UTXO set represented by coins." No
  network of chainparams.cpp has voting active yet, so no such block can be accepted
  today (validation.cpp:3915).
- **`MCCoinsDisapproveFails.cfg`**, `CoinsMatchChain`. A block that disapproves its
  parent and then fails a check leaves the coins changed. DisconnectDisapprovedTip
  flushes its view into pcoinsTip before ConnectBlock checks the block; when a check
  fails ConnectTip drops its own view, and the parent stays the tip without its regular
  transactions. validation.cpp:2813 says: "Apply the block atomically to the chain
  state." No network has voting active yet.
- **`MCCoinsDisapproveTest.cfg`**, `CoinsMatchChain`. Testing a block that disapproves
  its parent changes the coins of the chain. TestBlockValidity gives ConnectBlock a view
  of its own and fJustCheck, and DisconnectDisapprovedTip changes pcoinsTip all the
  same. validation.cpp:2136 says of ConnectBlock: "Apply the effects of this block (with
  given index) on the UTXO set represented by coins", that is to the view it is given.
  No network has voting active yet.
- **`MCMempoolOrphan.cfg`**, `EntriesSpendable`. Dropping a stale ticket leaves what
  spends its change in the pool. The stale ticket is inserted into txToRemove before
  CalculateDescendants is called, which then finds it there and adds nothing;
  RemoveStaged takes out the ticket alone and the transaction that spends its change
  stays without its input. txmempool.cpp:454 says of CalculateDescendants: "Also assumes
  that if an entry is in setDescendants already, then all in-mempool descendants of it
  are already in setDescendants as well", and txmempool.cpp:810 asserts of every entry
  whose parent is not in the pool: "assert(pcoins->HaveCoin(txin.prevout));".
- **`MCMempoolRace.cfg`**, `AcceptNeverFails`. A clean-up between two sections of an
  acceptance removes the ticket whose change the accepted transaction spends.
  ActivateBestChain calls removeExpiredTickets without cs_main. Another thread in
  AcceptToMemoryPoolWorker has released mempool.cs after it looked up the inputs; the
  ticket it found there is removed, and the assertion validation.cpp:485
  "assert(!coinFromDisk.IsSpent());" fails.
- **`MCMempoolStale.cfg`**, `CleanUpDropsStale`. A clean-up with a difficulty read
  before the next block drops a ticket bought for the block after it. Height and
  difficulty are read under cs_main at validation.cpp:3119 and used after it is
  released; a block connected and a ticket accepted in between, the ticket is compared
  with the earlier difficulty and dropped. txmempool.cpp:611 says: "Remove the tickets
  that have low stake difficulty according to the current value."
- **`MCMempoolInvalidate.cfg`**, `TicketsCurrent`. After invalidateblock a ticket that
  pays the difficulty of the abandoned tip stays in the pool. InvalidateBlock calls
  UpdateMempoolForReorg, which looks at maturity and finality and not at ticket prices;
  ActivateBestChain then finds nothing to activate and returns at validation.cpp:3074
  before removeExpiredTickets. validation.cpp:402 says of UpdateMempoolForReorg: "and
  also removing any other transactions from the mempool that are no longer valid given
  the new tip/height."
- **`MCMempoolLoad.cfg`**, `LoadReplacesOne`. Loading a transaction that is already in
  the pool drops its descendants. The entry is removed with removeRecursive, and its
  descendants with it; they come back only if the file has them too. validation.cpp:531
  says: "Here we just remove the existing mempool entry. The insertion will be done
  further in the code."

## 4. What is proved

For all values of the constants that satisfy the assumptions of the modules
(`ParamsAssumption`, `DrawAssumption` and `ChainAssumption`; `StackAssumption`;
`LotteryAssumption`; `BlockTreeAssumption`; `CoinsAssumption`;
`ChainCoinsAssumption`; `QueueAssumption`), TLAPS checks:

| Theorem | Statement |
|---|---|
| `TypeCorrect` | `Spec => []TypeOK` |
| `FlagsCorrect` | `Spec => []FlagsMatchTreaps` |
| `Conservation` | `Spec => []TicketsConserved` |
| `WinnersLive` | `Spec => []WinnersAreLive` |
| `ExpiryInTime` | `Spec => []LiveWithinExpiry` |
| `NoDoubleSpend` | `Spec => []SpentOnce` |
| `MaturityRespected` | `Spec => []SpendsAreMature` |
| `UndoCorrect`, `UndoLotteryCorrect` | `Spec => []UndoRestoresTreaps`, `Spec => []UndoRestoresLottery` |
| `Refinement` | `Spec => LifecycleSpec`: the chain implements `TicketLifecycle` |
| `StackCorrect` | `Spec => []StackAgrees` (`ParentStack`, for walks that push before they pop: `SafeCaller`) |
| `StreamIsFresh` | `Spec => []NoWordTwice` (`Lottery`) |
| `DrawIsUnbiased`, `DrawCanFinish` | `Spec => []Unbiased`, `Spec => []CanFinish` (`Lottery`) |
| `ActiveNodes` | `Spec => []ActiveHasStakeNode` (`BlockTree`) |
| `Complete` | `Spec => []ChainsComplete` (`BlockTree`) |
| `StartsAlways` | `Spec => []AlwaysStarts` (`ChainCoins`) |
| `FlagsAlwaysSound`, `NeverThrown` | `Spec => []FlagsSound`, `Spec => []NothingThrown` (`CoinsCache`) |
| `Implements` | `Spec => CoinsViewSpec`: the caches implement `CoinsView` |
| `TodoIsExact`, `ResultIsExact`, `LeftUnused` | `Spec => []TodoExact`, `[]ResultExact`, `[]QueueUnused` (`CheckQueue`) |

**Assumptions.** The parameters are positive where the code divides or compares
by them, and stake is enabled no later than it is validated and no earlier than
a ticket can mature. A draw from a large
enough pool gives `nTicketsPerBlock` distinct tickets of it: the promise that
`Lottery` and `TicketTreap` check for the index generator and for `getByIndex`.
The blocks form a finite tree with the genesis block at its root, every block adds
work, and no two entries of the index lie at the same address; nothing is assumed of
which blocks fail, what they contain, or how many threads, RPC calls, restarts and
crashes there are. A word is one of an even number, a hash has at least one.
The spent coin is not one of the coins. There are finitely many checks, masters and
workers, masters are no workers, and a batch is at least one check.

**The argument.** None of the properties is inductive alone. `SpentOnce`, for
instance, needs that what a block spends was in its parent's treaps, that a
ticket which voted is in no treap any more, and that the revoked treap holds
exactly what was revoked. `IInv` (`StakeChainProofs`) states this for every
block: types, flags and disjointness of the treaps, winners, expiry, which
tickets mature, conservation, what its votes and revocations may spend, that its
node is `ConnectNode` of its parent's, and that no ticket is bought twice.
`StakeNodeProofs` says what each of the four passes contains and
combines them into `ConnectNodeGood`, by which a good node has a good child;
`ConnectBlockInv` lifts this to the chain, using `MaturingDisjoint` (what matures
now is in no treap yet, as each ticket is bought once and matures at one height).
`UndoCorrect` follows the undo data pass by pass: `DisconnectConnect` shows that
undoing the four passes in the order they were made still restores the treaps,
because the tickets they touch do not overlap; in particular a revoked ticket
was missed before this block. `UndoLotteryCorrect` adds that the called tickets in
the undo data are exactly the parent's winners (`CalledWereWinners`), so that keeping
those the flags call winners keeps all of them, in order (`KeepAll`).

*The life of a ticket.* `Refinement` maps a chain to the status of every ticket at
every block. `TicketMoves` shows from `ConnectNode` what one block does to one
ticket, `CallsCounted` that as many tickets are called as the abstract step demands,
and `History` that earlier blocks keep their statuses, so that connecting a block
appends to the abstract history and disconnecting cuts it.

*Stack and draw.* The array and the overflow of `ParentStack` hold the items by their
index (`SlotsHold`), as long as nothing is popped that was not pushed. For `Lottery`
the invariant places every used word before the generator's position in the stream
(`UsedBefore`); that the draw is unbiased is arithmetic on the two formulas of
`UniformRandom`, and that it can finish a count: there are more indexes than are
listed, and each has a word.

*The block index.* That an active block has a stake node is not inductive: a
reorganisation connects blocks below the chosen one, so they must be known to be
complete, and the choice may be one of an earlier round. `IInv` (`BlockTreeProofs`)
says that the linked entries have their data and are closed under `pprev`, and that
candidates, the tip and what every thread has chosen are linked. `TipConnected` shows
that a step leaves between the old chain and the new tip only blocks it connected, to
which `ConnectBlock` gave a stake node; `FoundOK` that `FindMostWorkChain` yields a
candidate, which needs that the comparator is a total order (`WorseOrder`);
`RestartInv` that a restart links at least what was linked.

*The start.* `AlwaysStarts` holds because of the order of the writes: the index in
memory never loses blocks or undo data, the index on disk is a part of it, and when
coins are written for a block the index on disk already has the chain of that block
with its undo data (`FlushOK`). So both heads of an interrupted flush, and the best
block otherwise, are known at the start (`DiskOK`), also if the replay itself is
interrupted. What the coins are does not matter for this.

*The caches.* `FlagsSound` speaks of each entry and the coin the layer below shows
for it. It is inductive with `TypeOK`, `ClosedEmpty` (a closed view has no
entries) and `NothingThrown`: a flush of `pcoinsTip` or an eviction changes what
is stored below a view and not what it shows, and a flush of the view writes
entries that are sound over `pcoinsTip`, which makes them sound over the database.
`Implements` maps every action to a step of `CoinsView` or a stutter; a look-up and an
eviction of an entry are stutters because of `FlagsSound`.

*The check queue.* `TodoExact` alone is not inductive: the size of the batch a thread
reports is subtracted from `nTodo`, so a thread must hold a batch exactly while it
runs or reports it (`BatchHeld`). `ResultExact` needs what the verdicts mean before
the end (`Verdicts`: as long as `fAllOk` is true every finished check passed, and a
false `fAllOk` or `fOk` means that some check of this block fails), that only the
owner of the control is inside (`Placed`), and that no work and no failure is left
when the control is free (`Clean`), for otherwise the next block would inherit
them. `CountsExact` ties `nIdle` and `nTotal` to the threads, those interrupted in
their wait included, so that the counters never become negative.

**Only model-checked.** Of `BlockTree`, `CheckBlockIndex` and `BestChainActive`:
they fail for some values of the constants (the disagreements above), so that no
theorem for all of them exists. Of `ChainCoins`, `CoinsMatchChain`,
`DiskMatchesBest` and `VerifiesClean`: what the transactions of a block do to the
coins is a fold over a sequence, and what a fold computes for every sequence needs an
induction over data, which the provers used here cannot do. The properties of
`Mempool`, for the same reason: descendants and counters are found by walks over the
links. Everything about `TicketTreap`, whose walks are recursive operators. The two
liveness properties, `ActivationEnds` and `WaitReturns`, as liveness is out of the
provers' reach.

## 5. What is not modelled

- *Stake chain*: side chains, late block data and restarts. They are in
  `BlockTree`, where stake nodes are reduced to being there and complete.
- *Block tree*: pruning, failing disks, block files, checkpoints and the minimum
  chain work; headers are correct; the limit on blocks far ahead of the tip.
- *Coins*: scripts, amounts and maturity, except as blocks that fail; the memory
  limit that decides when to flush, so that a flush may come at any time; the
  serialised and compressed forms; the first flush of an empty database.
- *Memory pool*: votes and revocations, which no network admits yet; fees, sizes
  and signature operations, so that any acceptance may be refused and any entry be
  trimmed; priorities, the rolling minimum fee and fee estimation.
- *Check queue*: nothing but the content of the checks; `fQuit` is never set.
- *Stake versions, deployments, stake difficulty, targets, subsidy, block
  assembly*: functions of the chain or the pool with at most a cache.
- *Peers, addresses, bans, scheduler, ticket buyer*: independent of the parts
  above, which take what they deliver in any order; see the plan.
- *Stake transactions*: parsing and checks without state, and arithmetic on 64-bit
  amounts beyond TLC's integers.
- *Wallet*: it follows Bitcoin Core; keys, encryption and its database.
- Cryptography, scripts, encodings, sockets, databases as such, the user
  interfaces, and the proof-of-useful-work client, which only makes blocking calls
  to an outside service.

## 6. Plan

1. The scheduler with its single-threaded callback queue, one action per critical
   section, against an abstract queue that runs callbacks one by one and in order.
2. Block download: requests in flight, stalling, timeouts, compact blocks and the
   eviction of outbound peers.
3. Stake versions and version bits with their caches, against definitions without.
4. The ticket buyer: its thread, notifications and configuration.
5. The stake difficulty and the proof-of-work targets as integer functions; block
   assembly over the memory pool; the address manager and the ban list.
6. Proofs: the parts of the memory pool's invariants that do not depend on walks
   (which inputs an entry has, and which entries it is linked to).
