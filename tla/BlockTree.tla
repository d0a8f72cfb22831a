----------------------------- MODULE BlockTree -----------------------------
(***************************************************************************)
(* The block index and the choice of the active chain (validation.cpp):     *)
(* headers and blocks arrive in any order, from several threads; the chain  *)
(* with the most work is activated in steps, between which cs_main is free; *)
(* RPC calls mark blocks as invalid, valid again or precious; the node is   *)
(* stopped and started again.  Every entry of the index has a stake node,   *)
(* or none yet.                                                             *)
(*                                                                          *)
(* The blocks that exist form a fixed tree.  Headers are correct; a block   *)
(* may fail in ConnectBlock (failing), or have a vote or revocation that its    *)
(* parent's stake node does not allow (BadVotes).  Nothing is pruned, and   *)
(* the disk does not fail.                                                  *)
(***************************************************************************)
EXTENDS Integers, Sequences, FiniteSets

CONSTANTS
  Blocks, Genesis,
  pprev,                  \* the parent of every block but Genesis
  nChainWork,             \* the work in a block and all blocks below it
  Bad,                    \* the sets of blocks that may be the ones to fail in ConnectBlock
  BadVotes,
  Orders,                 \* the orders in which entries may lie in memory
  Threads,
  Rpcs,                   \* the RPC calls made: <<"invalidate", block>>, "reconsider" or "precious"
  MaxRpcs, MaxRestarts,   \* how many, and how many restarts
  nStakeEnabledHeight, nTicketMaturity

None == "none"
Int32Min == -2147483647 - 1

\* A block and the blocks below it: what the walk along pprev from it reaches.
Closed(S) == \A x \in S \ {Genesis} : pprev[x] \in S
Chain == [b \in Blocks |-> {x \in Blocks : \A S \in SUBSET Blocks : b \in S /\ Closed(S) => x \in S}]
nHeight == [b \in Blocks |-> Cardinality(Chain[b]) - 1]

\* The work of a block is positive, and no two entries lie at the same address.
ASSUME BlockTreeAssumption ==
  /\ IsFiniteSet(Blocks) /\ None \notin Blocks
  /\ Genesis \in Blocks \ ((UNION Bad) \cup BadVotes) /\ pprev \in [Blocks \ {Genesis} -> Blocks]
  /\ nChainWork \in [Blocks -> Nat]
  /\ \A b \in Blocks \ {Genesis} : nChainWork[pprev[b]] < nChainWork[b]
  /\ \A b \in Blocks : Genesis \in Chain[b]
  /\ (UNION Bad) \subseteq Blocks /\ BadVotes \subseteq Blocks
  /\ \A o \in Orders : o \in [Blocks -> Int] /\ \A a, b \in Blocks : o[a] = o[b] => a = b
  /\ nTicketMaturity \in Nat \ {0} /\ nStakeEnabledHeight >= nTicketMaturity

VARIABLES
  index,          \* mapBlockIndex: the blocks whose header was accepted
  data,           \* BLOCK_HAVE_DATA, and with it BLOCK_VALID_TRANSACTIONS
  scripts,        \* BLOCK_VALID_SCRIPTS
  failedValid, failedChild,
  linked,         \* nChainTx is set
  nSequenceId, nBlockSequenceId, nBlockReverseSequenceId, nLastPreciousChainwork,
  failing,        \* the blocks that fail in ConnectBlock, whenever it looks at them
  address,        \* the order of the addresses of the entries
  candidates,     \* setBlockIndexCandidates
  unlinked,       \* mapBlocksUnlinked, as the set of the later blocks of its pairs
  failedBlocks,   \* g_failed_blocks
  tip,            \* of chainActive
  pstakeNode,     \* None, "full", or "bare": built without the votes in the block
  thread,         \* what a thread does: the block it was given, pindexMostWork
  abort,          \* the assertion that ended the process, or None
  rpcs, restarts

flags == <<data, scripts, failedValid, failedChild, linked>>
order == <<nSequenceId, nBlockSequenceId, nBlockReverseSequenceId, nLastPreciousChainwork, address>>
bounds == <<rpcs, restarts, failing>>
vars == <<index, flags, order, candidates, unlinked, failedBlocks, tip, pstakeNode, thread, abort, bounds>>

Idle == [busy |-> FALSE, pblock |-> None, most |-> None]
Activate(pblock) == [busy |-> TRUE, pblock |-> pblock, most |-> None]

failed == failedValid \cup failedChild
Active(b) == b \in Chain[tip]

\* CBlockIndexWorkComparator, for entries with the sequence numbers seq.
Worse(a, b, seq) ==
  \/ nChainWork[a] < nChainWork[b]
  \/ nChainWork[a] = nChainWork[b] /\ seq[a] > seq[b]
  \/ nChainWork[a] = nChainWork[b] /\ seq[a] = seq[b] /\ address[a] > address[b]

Init ==
  /\ index = {Genesis} /\ data = {Genesis} /\ scripts = {Genesis} /\ linked = {Genesis}
  /\ failedValid = {} /\ failedChild = {} /\ failedBlocks = {}
  /\ nSequenceId = [b \in Blocks |-> 0] /\ nBlockSequenceId = 1
  /\ nBlockReverseSequenceId = -1 /\ nLastPreciousChainwork = 0
  /\ address \in Orders /\ failing \in Bad
  /\ candidates = {Genesis} /\ unlinked = {} /\ tip = Genesis
  /\ pstakeNode = [b \in Blocks |-> IF b = Genesis THEN "full" ELSE None]
  /\ thread = [t \in Threads |-> Idle] /\ abort = None /\ rpcs = 0 /\ restarts = 0

-----------------------------------------------------------------------------
(* Headers.                                                                 *)

\* The failed blocks that AcceptBlockHeader may find below a new header.
FailedBelow(b) == IF pprev[b] \in scripts THEN {} ELSE failedBlocks \cap Chain[pprev[b]]

\* A new header is refused at once: its parent is missing or failed.
Refused(b) == b \in failed \/ (b \notin index /\ (pprev[b] \notin index \/ pprev[b] \in failed))

\* AcceptBlockHeader walks up to a failed block, and marks what it passes.
MarkBelow(b) ==
  \E f \in FailedBelow(b) :
    IF f \in failedValid
    THEN failedChild' = failedChild \cup (Chain[pprev[b]] \ Chain[f]) /\ UNCHANGED abort
    ELSE abort' = "failedit->nStatus & BLOCK_FAILED_VALID" /\ UNCHANGED failedChild

\* AcceptBlockHeader leaves the header in the index.
HeaderAccepted(b) == ~Refused(b) /\ (b \in index \/ FailedBelow(b) = {})

\* ProcessNewBlockHeaders with one header.
Header(t, b) ==
  /\ abort = None /\ ~thread[t].busy /\ b \notin index
  /\ \/ HeaderAccepted(b) /\ index' = index \cup {b} /\ UNCHANGED <<failedChild, abort>>
     \/ ~Refused(b) /\ FailedBelow(b) # {} /\ MarkBelow(b) /\ UNCHANGED index
  /\ UNCHANGED <<data, scripts, failedValid, linked, order, candidates, unlinked, failedBlocks,
                 tip, pstakeNode, thread, bounds>>

-----------------------------------------------------------------------------
(* Blocks.                                                                  *)

\* The blocks that follow b and wait for the data of b.
Waiting_headers(b) == {b} \cup {x \in index : b \in Chain[x]}
Waiting(b) == {b} \cup {x \in unlinked : b \in Chain[x] /\ Chain[x] \ (Chain[b] \cup unlinked) = {}}

\* The sequence numbers the queue of ReceivedBlockTransactions may give out.
Numberings(new) ==
  {f \in [new -> nBlockSequenceId..(nBlockSequenceId + Cardinality(new) - 1)] :
     \A a, b \in new : a # b => f[a] # f[b] /\ (nHeight[a] < nHeight[b] => f[a] < f[b])}

ReceivedBlockTransactions(b) ==
  /\ data' = data \cup {b}
  /\ IF pprev[b] \in linked
     THEN \E f \in Numberings(Waiting(b)) :
            /\ linked' = linked \cup Waiting(b)
            /\ nSequenceId' = [x \in Blocks |-> IF x \in Waiting(b) THEN f[x] ELSE nSequenceId[x]]
            /\ nBlockSequenceId' = nBlockSequenceId + Cardinality(Waiting(b))
            /\ candidates' = candidates \cup {x \in Waiting(b) : ~Worse(x, tip, nSequenceId')}
            /\ unlinked' = unlinked \ Waiting(b)
     ELSE /\ unlinked' = unlinked \cup (IF pprev[b] \in failed THEN {} ELSE {b})
          /\ UNCHANGED <<linked, nSequenceId, nBlockSequenceId, candidates>>

\* FetchStakeNode for an entry whose parent has a stake node: the votes are read
\* from the block, unless the entry has a stake node already.
Fetch(b) == [pstakeNode EXCEPT ![b] = IF @ = None THEN "full" ELSE @]

\* MaybeFetchNewTickets cannot read the block whose tickets mature in b.
Unreadable(b) ==
  /\ nHeight[b] >= nStakeEnabledHeight
  /\ \E x \in Chain[b] \ data : nHeight[x] = nHeight[b] - nTicketMaturity

\* AcceptBlock does not look at the block: it has it, or did not ask for it and
\* it has less work than the tip.
NotWanted(b, requested) == b \in data \/ (~requested /\ nChainWork[b] < nChainWork[tip])

\* ContextualCheckBlock looks at votes only if the parent has a stake node.
BadReference(b) == b \in BadVotes /\ pstakeNode[pprev[b]] # None

\* ProcessNewBlock up to ActivateBestChain.  (A block whose header is new and
\* refused has the effect of the header alone.)
Block(t, b, requested) ==
  /\ abort = None /\ ~thread[t].busy /\ b # Genesis
  /\ HeaderAccepted(b)
  /\ index' = index \cup {b}
  /\ \/ /\ NotWanted(b, requested)
        /\ thread' = [thread EXCEPT ![t] = Activate(b)]
        /\ UNCHANGED <<data, linked, nSequenceId, nBlockSequenceId, candidates, unlinked,
                       failedValid, pstakeNode, abort>>
     \/ /\ ~NotWanted(b, requested) /\ BadReference(b)
        /\ failedValid' = failedValid \cup {b}
        /\ UNCHANGED <<data, linked, nSequenceId, nBlockSequenceId, candidates, unlinked,
                       pstakeNode, thread, abort>>
     \/ /\ ~NotWanted(b, requested) /\ ~BadReference(b)
        /\ ReceivedBlockTransactions(b)
        /\ pstakeNode' = IF pstakeNode[pprev[b]] # None THEN Fetch(b) ELSE pstakeNode
        /\ abort' = IF pstakeNode' # pstakeNode /\ Unreadable(b)
                    THEN "Could not read block from disk" ELSE None
        /\ thread' = [thread EXCEPT ![t] = Activate(b)]
        /\ UNCHANGED failedValid
  /\ UNCHANGED <<scripts, failedChild, nBlockReverseSequenceId, nLastPreciousChainwork, address,
                 failedBlocks, tip, bounds>>

-----------------------------------------------------------------------------
(* The active chain.                                                        *)

\* The greatest of a set of candidates.
Best(cands) == CHOOSE c \in cands : \A x \in cands : x = c \/ Worse(x, c, nSequenceId)

\* The blocks from the active chain up to b, b first on the walk down.
Ahead(b) == Chain[b] \ Chain[tip]

\* The order in which FindMostWorkChain tries candidates: the block just received
\* before others with as much work.
Sooner(a, b, preferred) ==
  \/ nChainWork[a] > nChainWork[b]
  \/ nChainWork[a] = nChainWork[b] /\ b # preferred /\ (a = preferred \/ Worse(b, a, nSequenceId))

\* FindMostWorkChain: the first candidate with no failed block on the walk down to
\* the active chain.  For each one tried before it, the walk stops at the first
\* failed block; the blocks above that are marked BLOCK_FAILED_CHILD, and with it
\* they are no candidates any more.
FindMostWork(preferred) ==
  LET bad == {c \in candidates : Ahead(c) \cap failed # {}}
      good == candidates \ bad
      most == IF good = {} THEN None
              ELSE CHOOSE c \in good : \A x \in good \ {c} : Sooner(c, x, preferred)
      tried == {c \in bad : good # {} => Sooner(c, most, preferred)}
      first == [c \in tried |-> Best(Ahead(c) \cap failed)]
      above == UNION {Chain[c] \ Chain[first[c]] : c \in tried}
  IN  [most |-> most,
       candidates |-> candidates \ (above \cup {first[c] : c \in tried}),
       children |-> failedChild \cup above]

\* PruneBlockIndexCandidates
Pruned_equal(cands, newTip, seq) == {c \in cands : Worse(newTip, c, seq)}
Pruned(cands, newTip, seq) == {c \in cands : ~Worse(c, newTip, seq)}

\* The blocks ActivateBestChainStep connects on the way to most, lowest first: up
\* to the first that makes the chain better than it was.
ToConnect(most) ==
  LET path == Ahead(most)
      better == {x \in path : nChainWork[x] > nChainWork[tip]}
  IN  {x \in path : \A y \in better : y \in Chain[x] => y = x}

\* Whether the block at hand is passed on as that of most.
PassedOn(pblock, most) ==
  pblock # None /\ (pblock = most \/ (most # Genesis /\ pblock # Genesis /\ pprev[pblock] = pprev[most]))

\* ConnectBlock builds the stake nodes AcceptBlock did not build.
NodesAfter_none(connected) == pstakeNode
NodesAfter(connected) ==
  [b \in Blocks |-> IF b \in connected /\ pstakeNode[b] = None THEN "full" ELSE pstakeNode[b]]

\* The loop of ActivateBestChain ends when its choice is the tip; an invalid block
\* wipes the choice.
GoesOn_once(state, most, newTip, invalidFound) == Idle
GoesOn_keep(state, most, newTip, invalidFound) ==
  IF newTip = most THEN Idle ELSE [state EXCEPT !.most = most]
GoesOn(state, most, newTip, invalidFound) ==
  IF invalidFound THEN [state EXCEPT !.most = None]
  ELSE IF newTip = most THEN Idle ELSE [state EXCEPT !.most = most]

\* ActivateBestChainStep, and the end of the loop of ActivateBestChain.
ActivateBestChainStep(t, pblock, most, cands) ==
  LET wanted == ToConnect(most)
      wrong == most \in wanted /\ PassedOn(pblock, most) /\ pblock # most
      bad == wanted \cap failing
      connected == {x \in wanted : Chain[x] \cap bad = {}}
      fork == Best(Chain[tip] \cap Chain[most])
      newTip == IF connected = {} THEN fork ELSE Best(connected)
      culprits == {x \in bad : pprev[x] = newTip}
      left == IF connected = {} THEN cands ELSE Pruned(cands, newTip, nSequenceId)
  IN  /\ tip' = newTip
      /\ scripts' = scripts \cup (connected \ failed)
      /\ pstakeNode' = NodesAfter(connected)
      /\ failedValid' = failedValid \cup culprits
      /\ failedBlocks' = failedBlocks \cup culprits
      /\ candidates' = left \ culprits
      /\ abort' = IF wrong /\ bad \subseteq {most} THEN "*pindex->phashBlock == block.GetHash()"
                  ELSE IF connected # {} /\ left = {} THEN "!setBlockIndexCandidates.empty()"
                  ELSE None
      /\ thread' = [thread EXCEPT ![t] = GoesOn(@, most, newTip, culprits # {})]

\* One round of ActivateBestChain, under cs_main.
ActivateBestChain(t) ==
  /\ abort = None /\ thread[t].busy
  /\ \E found \in {IF thread[t].most = None
                   THEN FindMostWork(thread[t].pblock)
                   ELSE [most |-> thread[t].most, candidates |-> candidates, children |-> failedChild]} :
       /\ failedChild' = found.children
       /\ IF found.most \in {None, tip}
          THEN /\ candidates' = found.candidates
               /\ thread' = [thread EXCEPT ![t] = Idle]
               /\ UNCHANGED <<tip, scripts, pstakeNode, failedValid, failedBlocks, abort>>
          ELSE ActivateBestChainStep(t, thread[t].pblock, found.most, found.candidates)
  /\ UNCHANGED <<index, data, linked, order, unlinked, bounds>>

-----------------------------------------------------------------------------
(* RPC calls, each followed by ActivateBestChain.                           *)

\* The entries with data for the whole chain, in an index with the failed blocks f.
Connectable(f) == {x \in (index \cap linked) \ f : x \in data}

Call(t, name, b) ==
  /\ abort = None /\ ~thread[t].busy /\ <<name, b>> \in Rpcs /\ rpcs < MaxRpcs
  /\ rpcs' = rpcs + 1
  /\ thread' = [thread EXCEPT ![t] = Activate(None)]
  /\ UNCHANGED <<index, data, scripts, linked, nBlockSequenceId, address, unlinked, pstakeNode,
                 abort, restarts, failing>>

InvalidateBlock(t, b) ==
  LET off == IF Active(b) THEN Chain[tip] \ Chain[b] ELSE {}
  IN  /\ Call(t, "invalidate", b) /\ b \in index \ {Genesis}
      /\ tip' = IF Active(b) THEN pprev[b] ELSE tip
      /\ failedChild' = failedChild \cup off
      /\ failedValid' = failedValid \cup {b}
      /\ failedBlocks' = failedBlocks \cup {b}
      /\ candidates' = (candidates \ (off \cup {b}))
                         \cup Pruned(Connectable(failed'), tip', nSequenceId)
      /\ UNCHANGED <<nSequenceId, nBlockReverseSequenceId, nLastPreciousChainwork>>

ResetBlockFailureFlags(t, b) ==
  LET above == {x \in index : b \in Chain[x] /\ (x \in failed \/ x \notin data)}
  IN  /\ Call(t, "reconsider", b) /\ b \in index
      /\ failedValid' = failedValid \ (above \cup Chain[b])
      /\ failedChild' = failedChild \ (above \cup Chain[b])
      /\ failedBlocks' = failedBlocks \ above
      /\ candidates' = candidates \cup
           {x \in above \cap data \cap linked : Worse(tip, x, nSequenceId)}
      /\ UNCHANGED <<tip, nSequenceId, nBlockReverseSequenceId, nLastPreciousChainwork>>

PreciousBlock(t, b) ==
  LET id == IF nChainWork[tip] > nLastPreciousChainwork THEN -1 ELSE nBlockReverseSequenceId
  IN  /\ Call(t, "precious", b) /\ b \in index /\ nChainWork[b] >= nChainWork[tip]
      /\ nLastPreciousChainwork' = nChainWork[tip]
      /\ nBlockReverseSequenceId' = IF id > Int32Min THEN id - 1 ELSE id
      /\ nSequenceId' = [nSequenceId EXCEPT ![b] = id]
      /\ candidates' = IF b \in Connectable(failed)
                       THEN Pruned(candidates \cup {b}, tip, nSequenceId') ELSE candidates \ {b}
      /\ UNCHANGED <<tip, failedValid, failedChild, failedBlocks>>

-----------------------------------------------------------------------------
\* The node is stopped and started.  LoadBlockIndexDB reads the entries, marks
\* what descends from failed blocks and gives every entry a stake node, with the
\* votes of its block if it has the block; LoadChainTip sets the tip, and the
\* thread that imports blocks activates the best chain.
Restart(t) ==
  LET all == {x \in data : Chain[x] \subseteq data}
      bad == {x \in index : Chain[x] \cap failed # {}}
      zero == [b \in Blocks |-> 0]
  IN  /\ abort = None /\ restarts < MaxRestarts
      /\ UNCHANGED <<index, data, scripts, failedValid, tip, rpcs, failing>>
      /\ restarts' = restarts + 1
      /\ linked' = all /\ unlinked' = data \ all
      /\ failedChild' = failedChild \cup (bad \ failed)
      /\ failedBlocks' = {}
      /\ nSequenceId' = zero /\ nBlockSequenceId' = 1
      /\ nBlockReverseSequenceId' = -1 /\ nLastPreciousChainwork' = 0
      /\ address' \in Orders
      /\ candidates' = {x \in all \ bad : ~Worse(x, tip, zero)'}
      /\ pstakeNode' = [b \in Blocks |-> IF b \in data THEN "full" ELSE IF b \in index THEN "bare" ELSE None]
      /\ abort' = IF \E x \in index : Unreadable(x) THEN "Could not read block from disk"
                  ELSE IF candidates' = {} THEN "!setBlockIndexCandidates.empty()" ELSE None
      /\ thread' = [x \in Threads |-> IF x = t THEN Activate(None) ELSE Idle]

Next ==
  \E t \in Threads :
    \/ \E b \in Blocks \ {Genesis} :
         \/ Header(t, b)
         \/ \E requested \in BOOLEAN : Block(t, b, requested)
         \/ InvalidateBlock(t, b) \/ ResetBlockFailureFlags(t, b) \/ PreciousBlock(t, b)
    \/ ActivateBestChain(t)
    \/ Restart(t)

Spec == Init /\ [][Next]_vars

\* A thread that activates the best chain goes on.
FairSpec == Spec /\ \A t \in Threads : WF_vars(ActivateBestChain(t))

-----------------------------------------------------------------------------
TypeOK ==
  /\ tip \in index /\ data \cup failed \cup scripts \cup candidates \cup failedBlocks \subseteq index
  /\ unlinked \subseteq data /\ linked \subseteq data
  /\ pstakeNode \in [Blocks -> {None, "full", "bare"}]

\* No thread is in ActivateBestChain.
Quiet == abort = None /\ \A t \in Threads : ~thread[t].busy

\* What CheckBlockIndex asserts, when the best chain is active: which entries are
\* failed, linked, candidates and unlinked follows from the blocks received and
\* found invalid, whatever the order in which that happened.
CheckBlockIndex ==
  Quiet => \A b \in index :
    LET complete == Chain[b] \subseteq data
        invalid == Chain[b] \cap failedValid # {}
    IN  /\ b \in failed => invalid
        /\ complete <=> b \in linked
        /\ ~complete => nSequenceId[b] <= 0 /\ b \notin candidates
        /\ b \in scripts => Chain[b] \subseteq scripts
        /\ complete /\ ~Worse(b, tip, nSequenceId) /\ ~invalid => b \in candidates
        /\ Worse(b, tip, nSequenceId) => b \notin candidates
        /\ b \in data /\ ~complete /\ ~invalid => b \in unlinked
        /\ b \in unlinked => b \in data /\ ~complete

\* "The result is either failure or an activated best chain": when no thread is
\* in ActivateBestChain, no chain with all its blocks and none known to fail is
\* better than the active one, and the active one has no failed block.
BestChainActive ==
  Quiet =>
    /\ Chain[tip] \cap failed = {}
    /\ \A b \in index : Chain[b] \subseteq data /\ Chain[b] \cap failed = {} => ~Worse(tip, b, nSequenceId)

\* No assertion fails.
NoAbort == abort = None

\* Every block of the active chain has a stake node, as ConnectBlock asserts of
\* the parent and the walk of FetchStakeNode back from the tip relies on.
ActiveHasStakeNode == \A b \in Chain[tip] : pstakeNode[b] # None

\* FindMostWorkChain asserts nChainTx of every block it walks over, and ConnectTip
\* reads the block it connects: the candidates and the active chain have the data
\* of all their blocks.
ChainsComplete == \A b \in candidates \cup {tip} : Chain[b] \subseteq data

\* "Ensure that votes and revocations refer only to tickets that are valid from
\* the perspective of this block": no such block gets into the active chain.
VotesChecked == Chain[tip] \cap BadVotes = {}

\* The stake nodes of the active chain were built with the votes and revocations
\* in their blocks ("Populate the prunable ticket information as needed").
NodesComplete == \A b \in Chain[tip] : pstakeNode[b] = "full"

\* The stake node is there "in case a side chain tip is checked for votes either in
\* autovoter, either in getblocktemplate": every block with as much work as the tip
\* whose whole chain was received has one.
SideTipsHaveNodes ==
  Quiet => \A b \in index : Chain[b] \subseteq data /\ Chain[b] \cap failed = {}
                           /\ nChainWork[b] >= nChainWork[tip] => pstakeNode[b] # None

\* ActivateBestChain comes to an end: a choice that another thread's blocks, steps or
\* RPC calls made stale while cs_main was free does not keep its loop going (or an
\* assertion ends the process).
ActivationEnds == \A t \in Threads : thread[t].busy ~> ~thread[t].busy \/ abort # None
=============================================================================
