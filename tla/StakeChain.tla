----------------------------- MODULE StakeChain -----------------------------
(***************************************************************************)
(* The active chain with the stake node of every block in it: what         *)
(* ContextualCheckBlock admits, what FetchStakeNode builds for it, and     *)
(* what reorganisations do to it (src/validation.cpp, src/chain.h).        *)
(*                                                                         *)
(* chain[i] is the block at height i - 1.  A block records the tickets it  *)
(* buys, the tickets its votes and revocations spend, and the tickets that *)
(* mature in it.  Here the stake node of the parent is loaded whenever a   *)
(* block is checked, so every check that depends on it is made.            *)
(***************************************************************************)
EXTENDS StakeNode

CONSTANTS
  PurchaseSets,            \* the sets of tickets one block may buy
  nTicketMaturity,         \* blocks between purchase and maturity
  nMaxFreshStakePerBlock,  \* ticket purchases allowed in a block
  MaxHeight                \* bound: the height at which the chain stops growing

ASSUME ChainAssumption ==
  /\ PurchaseSets \subseteq SUBSET Tickets
  /\ nTicketMaturity \in Nat \ {0} /\ nTicketMaturity <= nStakeEnabledHeight
  /\ nMaxFreshStakePerBlock \in Nat
  /\ MaxHeight \in Nat
  /\ IVs # {}

VARIABLE chain

vars == <<chain>>

Tip == chain[Len(chain)]

genesisBlock ==
  [iv |-> CHOOSE iv \in IVs : TRUE, bought |-> {}, voted |-> {}, revoked |-> {},
   node |-> genesisNode]

-----------------------------------------------------------------------------
(* What the chain determines for the next block.                           *)

Purchased == UNION {chain[i].bought : i \in DOMAIN chain}

\* No ticket matures below nStakeEnabledHeight; from there on the tickets bought
\* nTicketMaturity blocks earlier do.  The code asserts that there is such a
\* block, as nTicketMaturity <= nStakeEnabledHeight has it.
MaturingAt(height) ==
  IF height < nStakeEnabledHeight
    THEN {}
    ELSE chain[height - nTicketMaturity + 1].bought

\* Tickets whose stake output is unspent and mature: what a vote or a
\* revocation can spend at all.
Spendable(node) == DOMAIN node.live \cup DOMAIN node.missed

checkAllowedVotes(voted, node) == voted \subseteq Elems(node.nextWinners)

\* Fault: a ticket may be revoked by the block that misses it.
checkAllowedRevocations_now(revoked, node) ==
  revoked \subseteq DOMAIN node.missed \cup Elems(node.nextWinners)

checkAllowedRevocations(revoked, node) == revoked \subseteq DOMAIN node.missed

\* Fault: half of the called tickets is taken for a majority.
CheckVotes_half(voted, node) ==
  IF node.height + 1 < nStakeValidationHeight
    THEN voted = {}
    ELSE /\ Cardinality(voted) >= nTicketsPerBlock \div 2
         /\ checkAllowedVotes(voted, node)

\* The stake checks of ContextualCheckBlock, votes and revocations apart.
CheckVotes(voted, node) ==
  IF node.height + 1 < nStakeValidationHeight
    THEN voted = {}
    ELSE /\ Cardinality(voted) >= (nTicketsPerBlock \div 2) + 1
         /\ Cardinality(voted) <= nTicketsPerBlock
         /\ checkAllowedVotes(voted, node)

CheckRevocations(revoked, node) ==
  IF node.height + 1 < nStakeValidationHeight
    THEN revoked = {}
    ELSE checkAllowedRevocations(revoked, node)

-----------------------------------------------------------------------------
Init == chain = <<genesisBlock>>

\* A block that extends the tip passed the checks: it is stored, given its
\* stake node and connected.  When ConnectNode returns nullptr AcceptBlock fails
\* ("bad-stake-data").  The votes are a set: a block with two votes for one ticket
\* passes the checks above and fails when its transactions are connected, for the
\* second one's input is spent, so that it is never the tip.
ConnectBlock(iv, bought, voted, revoked) ==
  LET height == Tip.node.height + 1
      node   == ConnectNode(Tip.node, iv, voted, revoked, MaturingAt(height))
  IN /\ height <= MaxHeight
     /\ bought \cap Purchased = {}
     /\ Cardinality(bought) <= nMaxFreshStakePerBlock
     /\ node # NoNode
     /\ chain' = Append(chain, [iv |-> iv, bought |-> bought, voted |-> voted,
                                revoked |-> revoked, node |-> node])

\* Fault: the genesis block is disconnected too.
DisconnectTip_genesis ==
  /\ Len(chain) > 0
  /\ chain' = SubSeq(chain, 1, Len(chain) - 1)

\* DisconnectTip moves the tip back; the parent still has its stake node.
DisconnectTip ==
  /\ Len(chain) > 1
  /\ chain' = SubSeq(chain, 1, Len(chain) - 1)

Connect ==
  \E voted \in SUBSET Spendable(Tip.node) :
    /\ CheckVotes(voted, Tip.node)
    /\ \E revoked \in SUBSET (Spendable(Tip.node) \ voted) :
         /\ CheckRevocations(revoked, Tip.node)
         /\ \E iv \in IVs, bought \in PurchaseSets :
              ConnectBlock(iv, bought, voted, revoked)

Next == Connect \/ DisconnectTip

Spec == Init /\ [][Next]_vars

-----------------------------------------------------------------------------
(* Properties.                                                             *)

NodeTypeOK(node) ==
  /\ node.height \in Nat
  /\ IsTreap(node.live) /\ IsTreap(node.missed) /\ IsTreap(node.revoked)
  /\ DOMAIN node.undo = 1..4 /\ \A k \in 1..4 : IsTreap(node.undo[k])
  /\ Elems(node.called) \subseteq Tickets
  /\ Elems(node.nextWinners) \subseteq Tickets
  /\ node.newTickets \subseteq Tickets

\* Every block of the active chain has a stake node, of its own height
\* (CBlockIndex::pstakeNode is not null there), whose treaps hold tickets.
TypeOK ==
  /\ Len(chain) > 0
  /\ \A i \in DOMAIN chain :
       /\ chain[i].iv \in IVs
       /\ chain[i].bought \subseteq Tickets
       /\ chain[i].voted \subseteq Tickets
       /\ chain[i].revoked \subseteq Tickets
       /\ NodeTypeOK(chain[i].node)
       /\ chain[i].node.height = i - 1

FlagsOK(node) ==
  /\ \A t \in DOMAIN node.live :
       /\ ~node.live[t].missed /\ ~node.live[t].revoked
       /\ ~node.live[t].spent  /\ ~node.live[t].expired
  /\ \A t \in DOMAIN node.missed :
       node.missed[t].missed /\ ~node.missed[t].revoked /\ ~node.missed[t].spent
  /\ \A t \in DOMAIN node.revoked :
       node.revoked[t].missed /\ node.revoked[t].revoked /\ ~node.revoked[t].spent

\* The flags of a value say which treap it is in: DisconnectNode decides by
\* them where a ticket came from.
FlagsMatchTreaps == \A i \in DOMAIN chain : FlagsOK(chain[i].node)

MaturedBy(i) == UNION {chain[j].node.newTickets : j \in 1..i}

VotedBy(i) == UNION {chain[j].voted : j \in 1..i}

Pooled(node) == DOMAIN node.live \cup DOMAIN node.missed \cup DOMAIN node.revoked

PoolsDisjoint(node) ==
  /\ DOMAIN node.live \cap DOMAIN node.missed = {}
  /\ DOMAIN node.live \cap DOMAIN node.revoked = {}
  /\ DOMAIN node.missed \cap DOMAIN node.revoked = {}

\* No ticket is lost, duplicated or invented by ConnectNode: at every block the
\* tickets that have matured are exactly those that voted and those in the
\* live, missed and revoked treaps, and none is in two of these.
TicketsConserved ==
  \A i \in DOMAIN chain :
    /\ Pooled(chain[i].node) \cup VotedBy(i) = MaturedBy(i)
    /\ Pooled(chain[i].node) \cap VotedBy(i) = {}
    /\ PoolsDisjoint(chain[i].node)

WinnersOK(node) ==
  /\ Elems(node.nextWinners) \subseteq DOMAIN node.live
  /\ \A j, k \in DOMAIN node.nextWinners :
       node.nextWinners[j] = node.nextWinners[k] => j = k
  /\ node.height > 0 /\ node.height >= nStakeValidationHeight - 1
       => DOMAIN node.nextWinners = 1..nTicketsPerBlock

\* ConnectNode asserts that each ticket called by the parent is live: the
\* winners of a node are distinct live tickets of that node, and from the block
\* before nStakeValidationHeight on (genesis apart) there are nTicketsPerBlock.
WinnersAreLive == \A i \in DOMAIN chain : WinnersOK(chain[i].node)

\* A ticket's coin is spent by at most one block, by a vote or a revocation.
SpentOnce ==
  \A i, j \in DOMAIN chain :
    i < j => (chain[i].voted \cup chain[i].revoked)
               \cap (chain[j].voted \cup chain[j].revoked) = {}

\* checkVoteOrRevokeTicketInputs wants nTicketMaturity + 1 blocks between a
\* purchase and its vote, and one more before its revocation, because a miss
\* "can't possibly happen for another block after that": the stake nodes never
\* let a ticket vote or be revoked earlier, so that check refuses no ticket
\* that was called or missed.
SpendsAreMature ==
  \A i, j \in DOMAIN chain : \A t \in chain[i].bought :
    /\ t \in chain[j].voted   => j - i >= nTicketMaturity + 1
    /\ t \in chain[j].revoked => j - i >= nTicketMaturity + 2

NoneOverdue(node) ==
  node.height >= nStakeEnabledHeight =>
    \A t \in DOMAIN node.live : node.height - node.live[t].height < nTicketExpiry

\* No live ticket is older than nTicketExpiry: a ticket is called or expires in
\* time, whatever else the block that is due to expire it does.
LiveWithinExpiry == \A i \in DOMAIN chain : NoneOverdue(chain[i].node)

PoolsOf(node) ==
  [live |-> node.live, missed |-> node.missed, revoked |-> node.revoked]

\* DisconnectNode's loop over the undo data inverts ConnectNode: from any
\* block's node it rebuilds the treaps of the parent, values included, and meets
\* no entry that fails its assertion ("unknown ticket state in undo data").
UndoRestoresTreaps ==
  \A i \in DOMAIN chain \ {1} :
    /\ DisconnectPools(chain[i].node) = PoolsOf(chain[i - 1].node)
    /\ UndoKnown(chain[i].node)

\* The rest of what DisconnectNode returns is the parent's too: the winners in
\* their order, picked from the undo data by their flags, and the lottery state
\* computed again from the restored pool.
UndoRestoresLottery ==
  \A i \in DOMAIN chain \ {1} :
    LET parent == chain[i - 1]
        back   == DisconnectNode(chain[i].node, parent.iv, parent.node.undo,
                                 parent.node.called, parent.node.newTickets)
    IN /\ back # NoNode
       /\ back.nextWinners = parent.node.nextWinners
       /\ back.finalState = parent.node.finalState

-----------------------------------------------------------------------------
(* Refinement: what the nodes of the chain say about each ticket.          *)

BoughtBy(i) == UNION {chain[j].bought : j \in 1..i}

StatusAt(i, t) ==
  LET node == chain[i].node IN
  CASE t \in DOMAIN node.live    -> "live"
    [] t \in DOMAIN node.missed  -> IF node.missed[t].expired THEN "expired" ELSE "missed"
    [] t \in DOMAIN node.revoked -> "revoked"
    [] t \in VotedBy(i)          -> "voted"
    [] t \in BoughtBy(i) \ MaturedBy(i) -> "immature"
    [] OTHER -> "unbought"

Lifecycle ==
  INSTANCE TicketLifecycle WITH
    history <- [i \in DOMAIN chain |-> [t \in Tickets |-> StatusAt(i, t)]]

\* Connecting blocks with ConnectNode and disconnecting them implements the
\* ticket life cycle.
LifecycleSpec == Lifecycle!Spec

\* params.h: nTicketMaturity is the "Number of blocks for tickets to mature".
\* Every ticket bought on the chain matures that many blocks later.
EveryTicketMatures ==
  \A i \in DOMAIN chain :
    i + nTicketMaturity \in DOMAIN chain =>
      chain[i].bought \subseteq chain[i + nTicketMaturity].node.newTickets
=============================================================================
