------------------------------- MODULE Mempool -------------------------------
\* The memory pool: CTxMemPool (txmempool.cpp) with its links and package counts,
\* AcceptToMemoryPool, the pool side of connecting and disconnecting blocks and the
\* removal of stale tickets after an activation (validation.cpp).
\* cs_main covers an acceptance or a chain step as a whole; mempool.cs covers one
\* action.  ActivateBestChain drops stale tickets under mempool.cs alone.
EXTENDS Integers, SequencesExt

CONSTANTS
  Tx,              \* transaction |-> [spends, ticket, replaceable, lock, expiry, paid]
  CbHeight,        \* coinbase transaction |-> height of its block
  Price,           \* tip height |-> stake difficulty of the next block
  Hybrid,          \* nHybridConsensusHeight
  Maturity,        \* COINBASE_MATURITY
  Residence,       \* nMempoolResidence
  AncestorLimit, DescendantLimit,
  PoolLimit,       \* entries that fit -maxmempool
  DisconnectLimit, \* transactions that fit MAX_DISCONNECTED_TX_POOL_SIZE
  Loads,           \* <<transaction, height>> pairs of mempool.dat
  Invalidates,     \* whether invalidateblock is called
  MaxHeight, BlockSize, Cleaners   \* bounds: chain, transactions per block, clean-ups under way

Txs == DOMAIN Tx
Coinbases == DOMAIN CbHeight
Tickets == {t \in Txs : Tx[t].ticket}
Outpoints == UNION {Tx[t].spends : t \in Txs}
Base == "base"
None == "none"

ASSUME MempoolAssumption ==
  /\ None \notin Txs \cup Coinbases /\ Base \notin Txs \cup Coinbases
  /\ Txs \cap Coinbases = {} /\ DOMAIN Price = 0 .. MaxHeight
  /\ \A o \in Outpoints : o[1] \in Txs \cup Coinbases \cup {Base}

VARIABLES
  pool,      \* mapTx, mapLinks, mapNextTx and the package counts
  chain,     \* blocks of the active chain above the genesis block
  phase,     \* what the holder of cs_main is doing, "free" if nobody holds it
  atmp,      \* locals of AcceptToMemoryPoolWorker
  queued,    \* disconnectpool.queuedTx in insertion order
  readded,   \* vHashUpdate
  due,       \* an activation still has to read height and difficulty for its clean-up
  cleanups,  \* heights and difficulties read, clean-up not yet done
  failed     \* "no", or what stopped the node
vars == <<pool, chain, phase, atmp, queued, readded, due, cleanups, failed>>

-----------------------------------------------------------------------------
\* The chain as the pool sees it

Height == Len(chain)
BlockTxs(b) == <<b.cb>> \o b.vtx
Mined == {Base} \cup UNION {ToSet(BlockTxs(chain[i])) : i \in DOMAIN chain}
Coins == {o \in Outpoints : o[1] \in Mined} \ UNION {Tx[t].spends : t \in Mined \cap Txs}
Mature(o, h) == o[1] \in Coinbases => h - CbHeight[o[1]] >= Maturity
IsFinalTx(t, h) == h >= Tx[t].lock
IsExpiredTx(t, h) == Tx[t].expiry # 0 /\ h >= Tx[t].expiry

\* ConnectBlock takes the regular transactions first, wherever they stand: the check that
\* stake transactions precede them applies from nStakeValidationHeight only.
Regular(t) == t \notin Tickets
Reordered(vtx) == SelectSeq(vtx, Regular) \o SelectSeq(vtx, LAMBDA t : ~Regular(t))
ConnectBlock(b) ==
  LET order == Reordered(b.vtx)
      before(i) == {order[j] : j \in 1 .. i - 1}
  IN \A i \in DOMAIN order :
       /\ order[i] \notin before(i)
       /\ IsFinalTx(order[i], Height + 1) /\ ~IsExpiredTx(order[i], Height + 1)
       /\ order[i] \in Tickets => Tx[order[i]].paid >= Price[Height]
       /\ \A o \in Tx[order[i]].spends :
            /\ o \in Coins \/ o[1] \in before(i)
            /\ \A t \in before(i) : o \notin Tx[t].spends
            /\ Mature(o, Height + 1)
Blocks == [cb : {c \in Coinbases : CbHeight[c] = Height + 1},
           vtx : UNION {[1 .. n -> Txs] : n \in 0 .. BlockSize}]

-----------------------------------------------------------------------------
\* CTxMemPool

\* What next leads to from S in any number of steps, without entering barred.
Reach(S, next, barred) ==
  LET within[n \in 0 .. Cardinality(Txs)] ==
        IF n = 0 THEN S
        ELSE within[n - 1] \cup (UNION {next[t] : t \in within[n - 1]} \ barred)
  IN within[Cardinality(Txs)]

CalculateDescendants(p, t, found) ==
  IF t \in found THEN found ELSE found \cup Reach({t}, p.chi, found)
Descendants(p, S) == FoldSet(LAMBDA t, found : CalculateDescendants(p, t, found), {}, S)

ParentsInPool(p, t) == {o[1] : o \in Tx[t].spends} \cap p.in
\* fSearchForParents distinguishes the two callers: by inputs or by mapLinks
Ancestors(p, parents) == Reach(parents, p.par, {})
WithinLimits(p, ancestors) ==
  /\ Cardinality(ancestors) + 1 <= AncestorLimit
  /\ \A a \in ancestors : p.desc[a] + 1 <= DescendantLimit

UpdateForRemoveFromMempool(p, stage, updateDescendants) ==
  LET below(d) == {r \in stage : d \in CalculateDescendants(p, r, {}) \ {r}}
      above(a) == {r \in stage : a \in Ancestors(p, p.par[r])}
  IN [p EXCEPT
        !.anc = [t \in Txs |-> @[t] - IF updateDescendants THEN Cardinality(below(t)) ELSE 0],
        !.desc = [t \in Txs |-> @[t] - Cardinality(above(t))],
        !.chi = [t \in Txs |-> {c \in @[t] : ~(c \in stage /\ t \in p.par[c])}],
        !.par = [t \in Txs |-> {u \in @[t] : ~(u \in stage /\ t \in p.chi[u] \ stage)}]]
RemoveStaged(p, stage, updateDescendants) ==
  LET q == UpdateForRemoveFromMempool(p, stage, updateDescendants)
      erased == UNION {Tx[r].spends : r \in stage}
      none == [t \in stage |-> {}]
      zero == [t \in stage |-> 0]
  IN [q EXCEPT !.in = @ \ stage, !.par = none @@ @, !.chi = none @@ @,
               !.anc = zero @@ @, !.desc = zero @@ @, !.hgt = zero @@ @,
               !.next = [o \in Outpoints |-> IF o \in erased THEN None ELSE @[o]]]

addUnchecked(p, t, ancestors, height) ==
  LET parents == ParentsInPool(p, t)
  IN [p EXCEPT
        !.in = @ \cup {t}, !.hgt[t] = height,
        !.next = [o \in Outpoints |-> IF o \in Tx[t].spends /\ @[o] = None THEN t ELSE @[o]],
        !.par[t] = parents,
        !.chi = [u \in Txs |-> IF u \in parents THEN @[u] \cup {t} ELSE @[u]],
        !.desc = [u \in Txs |-> IF u = t THEN 1 ELSE IF u \in ancestors THEN @[u] + 1 ELSE @[u]],
        !.anc[t] = 1 + Cardinality(ancestors)]

Spenders(p, t) == {p.next[o] : o \in {x \in Outpoints : x[1] = t}} \ {None}
removeRecursive(p, t) ==
  LET first == IF t \in p.in THEN {t} ELSE Spenders(p, t)
  IN RemoveStaged(p, Descendants(p, first), FALSE)
Conflicts(p, t) == {p.next[o] : o \in Tx[t].spends} \ {None, t}
removeConflicts(p, t) == FoldSet(LAMBDA c, q : removeRecursive(q, c), p, Conflicts(p, t))
removeForBlock(p, b) ==
  LET remove(q, t) ==
        IF t \in Coinbases THEN q
        ELSE removeConflicts(IF t \in q.in THEN RemoveStaged(q, {t}, TRUE) ELSE q, t)
  IN FoldLeft(remove, p, BlockTxs(b))

DidResidenceExpire(p, t, height) ==
  Tx[t].expiry = 0 /\ Residence >= 0 /\ height >= p.hgt[t] + Residence
removeExpiredTickets_low(p, height, difficulty) ==
  LET stale == {t \in p.in \cap Tickets : IsExpiredTx(t, height + 1) \/ Tx[t].paid < difficulty}
  IN IF height < Hybrid THEN p ELSE RemoveStaged(p, stale, TRUE)
removeExpiredTickets(p, height, difficulty) ==
  LET stale == {t \in p.in \cap Tickets : \/ IsExpiredTx(t, height + 1)
                                          \/ DidResidenceExpire(p, t, height)
                                          \/ Tx[t].paid # difficulty}
      \* each ticket is inserted before its descendants are asked for
      staged == FoldSet(LAMBDA t, found : CalculateDescendants(p, t, found \cup {t}), {}, stale)
  IN IF height < Hybrid THEN p ELSE RemoveStaged(p, staged, TRUE)

\* The descendants of t outside included, with the ones found for earlier entries in
\* cache: an empty set there is an entry not cached.
UpdateForDescendants_all(p, t, cache, included) ==
  LET new == Reach(p.chi[t], p.chi, {})
  IN [pool |-> [p EXCEPT !.anc = [c \in Txs |-> IF c \in new THEN @[c] + 1 ELSE @[c]],
                         !.desc[t] = @ + Cardinality(new)],
      cache |-> cache]
UpdateForDescendants(p, t, cache, included) ==
  LET cached == {c \in Txs : cache[c] # {}}
      walked == Reach(p.chi[t], p.chi, cached)
      seen == UNION {p.chi[c] : c \in walked} \cap cached
      new == (walked \cup UNION {cache[c] : c \in seen}) \ included
  IN [pool |-> [p EXCEPT !.anc = [c \in Txs |-> IF c \in new THEN @[c] + 1 ELSE @[c]],
                         !.desc[t] = @ + Cardinality(new)],
      cache |-> [cache EXCEPT ![t] = new]]
UpdateTransactionsFromBlock_none(p, hashes) == p
UpdateTransactionsFromBlock(p, hashes) ==
  LET included == ToSet(hashes)
      link(q, t) ==
        LET children == Spenders(q, t) \ included
        IN [q EXCEPT !.chi[t] = @ \cup children,
                     !.par = [c \in Txs |-> IF c \in children THEN @[c] \cup {t} ELSE @[c]]]
      update(acc, t) ==
        IF t \notin acc.pool.in THEN acc
        ELSE UpdateForDescendants(link(acc.pool, t), t, acc.cache, included)
      start == [pool |-> p, cache |-> [t \in Txs |-> {}]]
  IN FoldLeft(update, start, Reverse(hashes)).pool

removeForReorg_final(p) ==
  RemoveStaged(p, Descendants(p, {t \in p.in : ~IsFinalTx(t, Height + 1)}), FALSE)
removeForReorg(p) ==
  LET rescanned(t) == \E o \in Tx[t].spends : o[1] \in Coinbases \cup Tickets
      gone(t) ==
        \/ ~IsFinalTx(t, Height + 1)
        \/ /\ rescanned(t)
           /\ \E o \in Tx[t].spends : o[1] \notin p.in /\ (o \notin Coins \/ ~Mature(o, Height + 1))
  IN RemoveStaged(p, Descendants(p, {t \in p.in : gone(t)}), FALSE)

\* Expire and TrimToSize remove the entries they pick, here gone, with their descendants.
LimitMempoolSize(p, gone) == RemoveStaged(p, Descendants(p, gone), FALSE)
Limited(p) ==
  {q \in {LimitMempoolSize(p, gone) : gone \in SUBSET p.in} : Cardinality(q.in) <= PoolLimit}

-----------------------------------------------------------------------------
\* AcceptToMemoryPool, one action per section under mempool.cs

NoAtmp == [tx |-> None, conflicts |-> {}, ancestors |-> {}, bypass |-> FALSE, height |-> 0]
EmptyPool ==
  [in |-> {}, next |-> [o \in Outpoints |-> None],
   par |-> [t \in Txs |-> {}], chi |-> [t \in Txs |-> {}],
   anc |-> [t \in Txs |-> 0], desc |-> [t \in Txs |-> 0], hgt |-> [t \in Txs |-> 0]]

Init ==
  /\ pool = EmptyPool /\ chain = <<>> /\ phase = "free" /\ atmp = NoAtmp
  /\ queued = <<>> /\ readded = <<>> /\ due = FALSE /\ cleanups = {} /\ failed = "no"

\* The checks up to the first use of the coins, for a transaction not in the pool
PreChecks(p, t) ==
  /\ \A c \in Conflicts(p, t) : Tx[c].replaceable
  /\ t \in Tickets => ~IsExpiredTx(t, Height + 1) /\ Tx[t].paid = Price[Height]
Begin(p, t, bypass, height) ==
  /\ phase' = "inputs"
  /\ atmp' = [NoAtmp EXCEPT !.tx = t, !.conflicts = Conflicts(p, t), !.bypass = bypass, !.height = height]

Accept(t) ==
  /\ phase = "free" /\ IsFinalTx(t, Height + 1) /\ t \notin pool.in /\ PreChecks(pool, t)
  /\ Begin(pool, t, FALSE, Height)
  /\ UNCHANGED <<pool, chain, queued, readded, due, cleanups, failed>>

\* LoadMempool: an entry not older than the one in the file is dropped first.
Load(t, h) ==
  /\ phase = "free" /\ IsFinalTx(t, Height + 1)
  /\ t \in pool.in => h <= Height /\ (pool.hgt[t] = 0 \/ pool.hgt[t] >= h)
  /\ pool' = IF t \in pool.in THEN removeRecursive(pool, t) ELSE pool
  /\ IF PreChecks(pool', t) THEN Begin(pool', t, FALSE, h) ELSE UNCHANGED <<phase, atmp>>
  /\ UNCHANGED <<chain, queued, readded, due, cleanups, failed>>

\* UpdateMempoolForReorg erases what depends on a transaction it cannot add back.
Reject ==
  /\ pool' = IF atmp.bypass THEN removeRecursive(pool, atmp.tx) ELSE pool
  /\ phase' = IF atmp.bypass THEN "readd" ELSE "free"
  /\ atmp' = NoAtmp
  /\ UNCHANGED <<chain, queued, readded, due, cleanups, failed>>

InputFound(p, o) == o[1] \in p.in \/ o \in Coins
AcceptInputs ==
  /\ phase = "inputs"
  /\ \/ /\ \A o \in Tx[atmp.tx].spends : InputFound(pool, o) /\ Mature(o, Height + 1)
        /\ phase' = "ancestors"
        /\ UNCHANGED <<pool, chain, atmp, queued, readded, due, cleanups, failed>>
     \/ /\ ~\A o \in Tx[atmp.tx].spends : InputFound(pool, o) /\ Mature(o, Height + 1)
        /\ Reject

AcceptAncestors ==
  /\ phase = "ancestors"
  /\ \E ancestors \in {Ancestors(pool, ParentsInPool(pool, atmp.tx))} :
       IF WithinLimits(pool, ancestors) /\ ancestors \cap atmp.conflicts = {}
       THEN /\ phase' = "commit" /\ atmp' = [atmp EXCEPT !.ancestors = ancestors]
            /\ UNCHANGED <<pool, chain, queued, readded, due, cleanups, failed>>
       ELSE Reject

\* The last section: a replacement must add no unconfirmed input; fees and scripts may
\* also refuse it.  CheckInputsFromMempoolAndCache asserts that the inputs are still
\* there, and addUnchecked goes through the iterators of the ancestors found before.
ConflictParents == {o[1] : o \in UNION {Tx[c].spends : c \in atmp.conflicts \cap pool.in}}
AddsUnconfirmed ==
  atmp.conflicts # {} /\ \E o \in Tx[atmp.tx].spends : o[1] \in pool.in \ ConflictParents
Fail(why) ==
  /\ failed' = why
  /\ UNCHANGED <<pool, chain, phase, atmp, queued, readded, due, cleanups>>
Added ==
  addUnchecked(RemoveStaged(pool, Descendants(pool, atmp.conflicts \cap pool.in), FALSE),
               atmp.tx, atmp.ancestors, atmp.height)
AcceptRefuse == phase = "commit" /\ Reject
AcceptCommit ==
  /\ phase = "commit" /\ ~AddsUnconfirmed
  /\ IF \E o \in Tx[atmp.tx].spends : ~InputFound(pool, o) THEN Fail("coin is spent")
     ELSE IF ~(atmp.ancestors \subseteq pool.in) THEN Fail("dangling iterator")
     ELSE /\ pool' \in IF atmp.bypass THEN {Added} ELSE Limited(Added)
          /\ phase' = IF atmp.bypass THEN "readd" ELSE "free"
          /\ readded' = IF atmp.bypass THEN Append(readded, atmp.tx) ELSE readded
          /\ atmp' = NoAtmp
          /\ UNCHANGED <<chain, queued, due, cleanups, failed>>

-----------------------------------------------------------------------------
\* ActivateBestChain and InvalidateBlock

Queue_block(b) == Reverse(BlockTxs(b))
\* DisconnectTip queues the stake transactions before the regular ones, each in reverse,
\* so that the reverse walk of UpdateMempoolForReorg meets funding transactions first.
Queue(b) == Reverse(SelectSeq(b.vtx, LAMBDA t : ~Regular(t))) \o Reverse(SelectSeq(BlockTxs(b), Regular))
DisconnectTip ==
  /\ phase \in {"free", "down"} /\ chain # <<>>
  /\ phase' = "down"
  /\ chain' = Front(chain)
  /\ \E all \in {queued \o Queue(Last(chain))} :
     \E dropped \in {IF Len(all) > DisconnectLimit THEN Len(all) - DisconnectLimit ELSE 0} :
       /\ queued' = SubSeq(all, dropped + 1, Len(all))
       /\ pool' = FoldLeft(removeRecursive, pool, SubSeq(all, 1, dropped))
  /\ UNCHANGED <<atmp, readded, due, cleanups, failed>>

ConnectTip(b) ==
  /\ phase \in {"free", "up", "down", "across"} /\ Height < MaxHeight
  /\ ConnectBlock(b)
  /\ phase' = IF phase \in {"free", "up"} THEN "up" ELSE "across"
  /\ chain' = Append(chain, b)
  /\ pool' = removeForBlock(pool, b)
  /\ queued' = SelectSeq(queued, LAMBDA t : t \notin ToSet(BlockTxs(b)))
  /\ UNCHANGED <<atmp, readded, due, cleanups, failed>>

\* ActivateBestChainStep ends; invalidateblock leaves no clean-up to do if there is no
\* other block to activate.
EndStep ==
  /\ phase \in {"up", "down", "across"}
  /\ phase' = IF phase = "up" THEN "free" ELSE "readd"
  /\ \/ due' = TRUE
     \/ phase = "down" /\ Invalidates /\ due' = due
  /\ UNCHANGED <<pool, chain, atmp, queued, readded, cleanups, failed>>

\* UpdateMempoolForReorg
Readd ==
  /\ phase = "readd" /\ queued # <<>>
  /\ queued' = Front(queued)
  /\ \E t \in {Last(queued)} :
       IF t \in Coinbases \/ t \in pool.in
       THEN pool' = removeRecursive(pool, t) /\ UNCHANGED <<phase, atmp>>
       ELSE IF IsFinalTx(t, Height + 1) /\ PreChecks(pool, t)
       THEN Begin(pool, t, TRUE, Height) /\ UNCHANGED pool
       ELSE pool' = removeRecursive(pool, t) /\ UNCHANGED <<phase, atmp>>
  /\ UNCHANGED <<chain, readded, due, cleanups, failed>>
UpdateLinks ==
  /\ phase = "readd" /\ queued = <<>>
  /\ pool' = UpdateTransactionsFromBlock(pool, readded)
  /\ readded' = <<>> /\ phase' = "tidy"
  /\ UNCHANGED <<chain, atmp, queued, due, cleanups, failed>>
\* mempool.cs is free between removeForReorg, Expire and TrimToSize.
Tidy ==
  /\ phase = "tidy" /\ phase' = "expire"
  /\ pool' = removeForReorg(pool)
  /\ UNCHANGED <<chain, atmp, queued, readded, due, cleanups, failed>>
Expire ==
  /\ phase = "expire" /\ phase' = "trim"
  /\ \E gone \in SUBSET pool.in : pool' = LimitMempoolSize(pool, gone)
  /\ UNCHANGED <<chain, atmp, queued, readded, due, cleanups, failed>>
TrimToSize ==
  /\ phase = "trim" /\ phase' = "free"
  /\ pool' \in Limited(pool)
  /\ UNCHANGED <<chain, atmp, queued, readded, due, cleanups, failed>>

\* The end of ActivateBestChain: height and difficulty under cs_main, then the removal
ReadTip ==
  /\ phase = "free" /\ due /\ Cardinality(cleanups) < Cleaners
  /\ cleanups' = cleanups \cup {[height |-> Height, difficulty |-> Price[Height]]}
  /\ due' = FALSE
  /\ UNCHANGED <<pool, chain, phase, atmp, queued, readded, failed>>
CleanUp ==
  \E c \in cleanups :
    /\ pool' = removeExpiredTickets(pool, c.height, c.difficulty)
    /\ cleanups' = cleanups \ {c}
    /\ UNCHANGED <<chain, phase, atmp, queued, readded, due, failed>>

Next ==
  /\ failed = "no"
  /\ \/ \E t \in Txs : Accept(t)
     \/ \E l \in Loads : Load(l[1], l[2])
     \/ AcceptInputs \/ AcceptAncestors \/ AcceptRefuse \/ AcceptCommit
     \/ DisconnectTip \/ (\E b \in Blocks : ConnectTip(b)) \/ EndStep
     \/ Readd \/ UpdateLinks \/ Tidy \/ Expire \/ TrimToSize \/ ReadTip \/ CleanUp

Spec == Init /\ [][Next]_vars

-----------------------------------------------------------------------------
\* Properties

TypeOK ==
  /\ pool.in \subseteq Txs /\ pool.next \in [Outpoints -> Txs \cup {None}]
  /\ pool.par \in [Txs -> SUBSET Txs] /\ pool.chi \in [Txs -> SUBSET Txs]
  /\ \A t \in Txs : {pool.anc[t], pool.desc[t]} \subseteq IF t \in pool.in THEN 1 .. Cardinality(Txs) ELSE {0}
  /\ DOMAIN pool.hgt = Txs /\ \A t \in Txs : pool.hgt[t] \in Nat
  /\ Len(chain) <= MaxHeight
  /\ phase \in {"free", "inputs", "ancestors", "commit", "up", "down", "across", "readd",
                "tidy", "expire", "trim"}
  /\ atmp.tx \in Txs \cup {None} /\ atmp.conflicts \cup atmp.ancestors \subseteq Txs
  /\ ToSet(queued) \cup ToSet(readded) \subseteq Txs \cup Coinbases
  /\ due \in BOOLEAN /\ Cardinality(cleanups) <= Cleaners
  /\ failed \in {"no", "coin is spent", "dangling iterator"}

\* UpdateForRemoveFromMempool relies on it in the middle of a reorganisation too: the
\* entries reachable through mapLinks are exactly those whose package counts include the
\* transaction, parents and children mirror each other, and all of it is in the pool.
PackagesMatchLinks ==
  /\ \A t, u \in Txs : t \in pool.par[u] <=> u \in pool.chi[t]
  /\ \A t \in pool.in :
       /\ pool.par[t] \cup pool.chi[t] \subseteq pool.in
       /\ pool.anc[t] = 1 + Cardinality(Ancestors(pool, pool.par[t]))
       /\ pool.desc[t] = Cardinality(CalculateDescendants(pool, t, {}))

\* CTxMemPool::check: mapNextTx holds exactly the inputs of the entries, whatever is under
\* way, and once a reorganisation is over mapLinks holds exactly the parents by inputs.
Reorganising == phase \in {"down", "across", "readd", "tidy"} \/ atmp.bypass
LinksMatchInputs ==
  /\ \A o \in Outpoints, t \in Txs : pool.next[o] = t <=> t \in pool.in /\ o \in Tx[t].spends
  /\ ~Reorganising => \A t \in pool.in : pool.par[t] = ParentsInPool(pool, t)

\* CTxMemPool::check: every input of an entry is an unspent coin of the chain or an output
\* of another entry; and, as UpdateMempoolForReorg promises, every entry is mature and
\* final for the next block.
EntriesSpendable ==
  ~Reorganising => \A t \in pool.in :
    /\ IsFinalTx(t, Height + 1)
    /\ \A o \in Tx[t].spends : InputFound(pool, o) /\ Mature(o, Height + 1)

\* UpdateMempoolForReorg tries a transaction only after everything it spends from the
\* disconnected blocks, the funding of tickets in the same block included.
FundingFirst ==
  phase = "inputs" /\ atmp.bypass => \A o \in Tx[atmp.tx].spends : o[1] \notin ToSet(queued)

\* Once the clean-ups of all activations are done, the tickets in the pool pay the stake
\* difficulty of the next block and have not expired for it.
TicketsCurrent ==
  phase = "free" /\ ~due /\ cleanups = {} /\ Height >= Hybrid =>
    \A t \in pool.in \cap Tickets : Tx[t].paid = Price[Height] /\ ~IsExpiredTx(t, Height + 1)

\* CheckInputsFromMempoolAndCache finds every input it asserts to be there, and the
\* ancestors given to addUnchecked are still entries.
AcceptNeverFails == failed = "no"

\* removeExpiredTickets takes out tickets that are stale "according to the current value".
CleanUpDropsStale ==
  [][\A t \in (pool.in \ pool'.in) \cap Tickets :
       cleanups' # cleanups =>
         \/ Tx[t].paid # Price[Height] \/ IsExpiredTx(t, Height + 1)
         \/ DidResidenceExpire(pool, t, Height)]_vars

\* AcceptToMemoryPool replaces the entry of a loaded transaction and no other entry.
LoadReplacesOne ==
  [][phase = "free" /\ phase' = "inputs" => pool.in \ pool'.in \subseteq {atmp'.tx}]_vars
=============================================================================
