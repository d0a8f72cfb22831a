-------------------------- MODULE StakeChainProofs --------------------------
(***************************************************************************)
(* Proofs about StakeChain for every value of its constants: the treaps of *)
(* every stake node partition the matured tickets, the tickets a block     *)
(* calls are live, and no ticket is spent twice or stays live past its     *)
(* expiry.                                                                 *)
(***************************************************************************)
EXTENDS StakeNodeProofs

(***************************************************************************)
(* The inductive invariant.  SpentOnce and TicketsConserved are not        *)
(* inductive: they need to know what a block spends is in its parent's     *)
(* treaps, which tickets mature in each block, that no ticket is bought    *)
(* twice, and that the revoked treap holds exactly the revoked tickets.    *)
(***************************************************************************)

RevokedBy(i) == UNION {chain[j].revoked : j \in 1..i}

BlockInv(i) ==
  LET b == chain[i] IN
  /\ b.iv \in IVs
  /\ b.bought \subseteq Tickets /\ b.voted \subseteq Tickets /\ b.revoked \subseteq Tickets
  /\ NodeTypeOK(b.node) /\ b.node.height = i - 1
  /\ GoodTreaps(b.node) /\ WinnersOK(b.node) /\ NoneOverdue(b.node)
  /\ b.node.newTickets = MaturingAt(i - 1)
  /\ Pooled(b.node) \cup VotedBy(i) = MaturedBy(i)
  /\ Pooled(b.node) \cap VotedBy(i) = {}
  /\ DOMAIN b.node.revoked = RevokedBy(i)
  /\ i > 1 => /\ b.voted \subseteq DOMAIN chain[i - 1].node.live
              /\ b.revoked \subseteq DOMAIN chain[i - 1].node.missed
              /\ b.node.newTickets \cap Pooled(chain[i - 1].node) = {}
              /\ b.node = ConnectNode(chain[i - 1].node, b.iv, b.voted, b.revoked,
                                      b.node.newTickets)

IsChain == (\E S : chain \in Seq(S)) /\ Len(chain) > 0

BoughtOnce ==
  \A i, j \in DOMAIN chain : i # j => chain[i].bought \cap chain[j].bought = {}

IInv == IsChain /\ BoughtOnce /\ \A i \in DOMAIN chain : BlockInv(i)

\* The genesis block satisfies the invariant.
LEMMA InitInv == Init => IInv
<1> SUFFICES ASSUME Init PROVE IInv
  OBVIOUS
<1>1. chain = <<genesisBlock>> /\ Len(chain) = 1 /\ DOMAIN chain = {1} /\ chain[1] = genesisBlock
  BY DEF Init
<1>2. chain \in Seq({genesisBlock})
  BY <1>1
<1>3. IsChain
  <2>1. \E S : chain \in Seq(S)
    BY <1>2, Zenon
  <2>2. QED
    BY <1>1, <2>1 DEF IsChain
<1>4. BoughtOnce
  BY <1>1 DEF BoughtOnce
<1>5. genesisBlock.iv \in IVs
  BY ChainAssumption DEF genesisBlock
<1>6. Elems(<< >>) = {}
  BY DEF Elems
<1>7. NodeTypeOK(genesisNode)
  <2>1. \A k \in 1..4 : IsTreap(NoUndo[k])
    BY EmptyIsTreap DEF NoUndo
  <2>2. DOMAIN NoUndo = 1..4
    BY DEF NoUndo
  <2>3. QED
    BY <1>6, <2>1, <2>2, EmptyIsTreap DEF NodeTypeOK, genesisNode
<1>8. GoodTreaps(genesisNode) /\ Pooled(genesisNode) = {}
  BY <1>6, EmptyIsTreap DEF GoodTreaps, genesisNode, FlagsOK, PoolsDisjoint, Pooled
<1>9. WinnersOK(genesisNode) /\ NoneOverdue(genesisNode)
  BY <1>6, ParamsAssumption DEF WinnersOK, NoneOverdue, genesisNode
<1>10. MaturingAt(0) = {}
  BY ParamsAssumption DEF MaturingAt
<1>11. VotedBy(1) = {} /\ MaturedBy(1) = {} /\ RevokedBy(1) = {}
  BY <1>1 DEF VotedBy, MaturedBy, RevokedBy, genesisBlock, genesisNode
<1>12. BlockInv(1)
  <2>1. /\ chain[1].node = genesisNode /\ genesisNode.height = 0
        /\ genesisNode.newTickets = {} /\ DOMAIN genesisNode.revoked = {}
        /\ chain[1].bought = {} /\ chain[1].voted = {} /\ chain[1].revoked = {}
    BY <1>1, EmptyIsTreap, Zenon DEF genesisBlock, genesisNode
  <2>2. QED
    BY <1>1, <2>1, <1>5, <1>7, <1>8, <1>9, <1>10, <1>11 DEF BlockInv
<1>13. QED
  BY <1>1, <1>3, <1>4, <1>12 DEF IInv

\* What the invariant says of a block depends only on the blocks up to it.
LEMMA PrefixInv ==
  ASSUME NEW i \in Nat \ {0}, \A j \in 1..i : chain'[j] = chain[j], BlockInv(i)
  PROVE  BlockInv(i)'
<1>1. chain'[i] = chain[i] /\ (i > 1 => chain'[i - 1] = chain[i - 1])
  OBVIOUS
<1>2. VotedBy(i)' = VotedBy(i) /\ RevokedBy(i)' = RevokedBy(i) /\ MaturedBy(i)' = MaturedBy(i)
  BY DEF VotedBy, RevokedBy, MaturedBy
<1>3. MaturingAt(i - 1)' = MaturingAt(i - 1)
  <2>1. /\ nTicketMaturity \in Nat \ {0} /\ nStakeEnabledHeight \in Nat
        /\ nTicketMaturity <= nStakeEnabledHeight
    BY ChainAssumption, ParamsAssumption
  <2>2. i - 1 >= nStakeEnabledHeight => ((i - 1) - nTicketMaturity) + 1 \in 1..i
    BY <2>1
  <2>3. QED
    BY <2>1, <2>2 DEF MaturingAt
<1>4. QED
  BY <1>1, <1>2, <1>3 DEF BlockInv

\* Disconnecting the tip leaves a prefix of the chain.
LEMMA DisconnectInv == IInv /\ DisconnectTip => IInv'
<1> SUFFICES ASSUME IInv, DisconnectTip PROVE IInv'
  OBVIOUS
<1> DEFINE n == Len(chain)
<1>1. PICK S : chain \in Seq(S)
  BY DEF IInv, IsChain
<1>2. n \in Nat /\ n > 1 /\ DOMAIN chain = 1..n
  BY <1>1 DEF DisconnectTip
<1>3. /\ chain' \in Seq(S) /\ Len(chain') = n - 1 /\ DOMAIN chain' = 1..(n - 1)
      /\ \A i \in 1..(n - 1) : chain'[i] = chain[i]
  BY <1>1, <1>2 DEF DisconnectTip
<1>4. IsChain'
  <2>1. \E T : chain' \in Seq(T)
    BY <1>3, Zenon
  <2>2. QED
    BY <1>2, <1>3, <2>1 DEF IsChain
<1>5. BoughtOnce'
  BY <1>2, <1>3 DEF IInv, BoughtOnce
<1>6. ASSUME NEW i \in 1..(n - 1)
      PROVE  BlockInv(i)'
  <2>1. BlockInv(i) /\ i \in Nat \ {0} /\ \A j \in 1..i : chain'[j] = chain[j]
    BY <1>2, <1>3 DEF IInv
  <2>2. QED
    BY <2>1, PrefixInv
<1>7. QED
  BY <1>3, <1>4, <1>5, <1>6 DEF IInv

\* Different heights mature different tickets.
LEMMA MaturingDisjoint ==
  ASSUME BoughtOnce, NEW n \in Nat, DOMAIN chain = 1..n,
         NEW h \in 0..n, NEW k \in 0..n, h # k
  PROVE  MaturingAt(h) \cap MaturingAt(k) = {}
<1>1. /\ nTicketMaturity \in Nat \ {0} /\ nStakeEnabledHeight \in Nat
      /\ nTicketMaturity <= nStakeEnabledHeight
  BY ChainAssumption, ParamsAssumption
<1>2. CASE MaturingAt(h) = {} \/ MaturingAt(k) = {}
  BY <1>2
<1>3. CASE MaturingAt(h) # {} /\ MaturingAt(k) # {}
  <2>1. /\ h - nTicketMaturity >= 0 /\ k - nTicketMaturity >= 0
        /\ MaturingAt(h) = chain[(h - nTicketMaturity) + 1].bought
        /\ MaturingAt(k) = chain[(k - nTicketMaturity) + 1].bought
    BY <1>1, <1>3 DEF MaturingAt
  <2>2. /\ (h - nTicketMaturity) + 1 \in DOMAIN chain
        /\ (k - nTicketMaturity) + 1 \in DOMAIN chain
        /\ (h - nTicketMaturity) + 1 # (k - nTicketMaturity) + 1
    BY <1>1, <2>1
  <2>3. QED
    BY <2>1, <2>2 DEF BoughtOnce
<1>4. QED
  BY <1>2, <1>3

\* The block that is connected keeps the invariant.
LEMMA ConnectBlockInv ==
  ASSUME IInv,
         NEW voted, CheckVotes(voted, Tip.node),
         NEW revoked, CheckRevocations(revoked, Tip.node),
         NEW iv \in IVs, NEW bought \in PurchaseSets,
         ConnectBlock(iv, bought, voted, revoked)
  PROVE  IInv'
<1>0. /\ nTicketMaturity \in Nat \ {0} /\ nStakeEnabledHeight \in Nat \ {0}
      /\ nTicketMaturity <= nStakeEnabledHeight
      /\ nStakeValidationHeight \in Nat /\ nStakeEnabledHeight <= nStakeValidationHeight
  BY ChainAssumption, ParamsAssumption
<1>1. PICK S : chain \in Seq(S)
  BY DEF IInv, IsChain
<1>2. PICK n \in Nat \ {0} : n = Len(chain) /\ DOMAIN chain = 1..n
  BY <1>1 DEF IInv, IsChain
<1> DEFINE node == Tip.node
           new == MaturingAt(n)
           child == ConnectNode(node, iv, voted, revoked, new)
           b == [iv |-> iv, bought |-> bought, voted |-> voted, revoked |-> revoked,
                 node |-> child]
<1>3. BlockInv(n) /\ node = chain[n].node
  BY <1>2 DEF IInv, Tip
<1>4. node.height + 1 = n /\ GoodTreaps(node)
  BY <1>2, <1>3 DEF BlockInv
<1>5. /\ chain' = Append(chain, b) /\ child # NoNode
      /\ bought \cap Purchased = {}
  BY <1>4 DEF ConnectBlock
<1>6. /\ voted \subseteq Elems(node.nextWinners)
      /\ voted \subseteq DOMAIN node.live
      /\ voted # {} => n >= nStakeEnabledHeight
  BY <1>0, <1>4 DEF CheckVotes, checkAllowedVotes, GoodTreaps
<1>7. /\ revoked \subseteq DOMAIN node.missed
      /\ revoked # {} => n >= nStakeEnabledHeight
  BY <1>0, <1>4 DEF CheckRevocations, checkAllowedRevocations
<1>8. new \cap MaturedBy(n) = {}
  <2>1. ASSUME NEW t \in new, NEW j \in 1..n PROVE t \notin chain[j].node.newTickets
    <3>1. chain[j].node.newTickets = MaturingAt(j - 1)
      BY <1>2 DEF IInv, BlockInv
    <3>2. n \in 0..n /\ j - 1 \in 0..n /\ n # j - 1
      BY <1>2
    <3>3. MaturingAt(n) \cap MaturingAt(j - 1) = {}
      BY <1>2, <3>2, MaturingDisjoint DEF IInv
    <3>4. QED
      BY <3>1, <3>3
  <2>2. QED
    BY <2>1 DEF MaturedBy
<1>9. GoodBlock(node, revoked, new)
  <2>1. new \subseteq Tickets
    <3>1. CASE new = {}
      BY <3>1
    <3>2. CASE new # {}
      <4>1. new = chain[(n - nTicketMaturity) + 1].bought /\ n - nTicketMaturity >= 0
        BY <1>0, <1>2, <3>2 DEF MaturingAt
      <4>2. (n - nTicketMaturity) + 1 \in DOMAIN chain
        BY <1>0, <1>2, <4>1
      <4>3. QED
        BY <4>1, <4>2 DEF IInv, BlockInv
    <3>3. QED
      BY <3>1, <3>2
  <2>2. Pooled(node) \subseteq MaturedBy(n)
    BY <1>3 DEF BlockInv
  <2>3. QED
    BY <1>7, <1>8, <2>1, <2>2 DEF GoodBlock
<1> HIDE DEF node, new
<1>10. ChildOK(node, voted, revoked, new, child)
  BY <1>4, <1>5, <1>9, ConnectNodeGood
<1>11. DOMAIN CalledOf(node, voted) \cap voted = voted
  <2>1. CalledExpiredOK(node, voted, CalledOf(node, voted), ExpiredOf(node, voted))
    BY <1>4, CalledExpired
  <2>2. CASE voted = {}
    BY <2>2
  <2>3. CASE voted # {}
    <3>1. DOMAIN CalledOf(node, voted) = Elems(node.nextWinners)
      BY <1>4, <1>6, <2>1, <2>3 DEF CalledExpiredOK
    <3>2. QED
      BY <1>6, <3>1
  <2>4. QED
    BY <2>2, <2>3
<1> HIDE DEF child
<1>12. /\ Len(chain') = n + 1 /\ DOMAIN chain' = 1..(n + 1) /\ chain'[n + 1] = b
       /\ \A i \in 1..n : chain'[i] = chain[i]
  BY <1>1, <1>2, <1>5
<1>13. IsChain'
  <2>1. chain \in Seq(S \cup {b})
    BY <1>1
  <2>2. chain' \in Seq(S \cup {b})
    BY <1>5, <2>1
  <2>3. \E T : chain' \in Seq(T)
    BY <2>2, Zenon
  <2>4. QED
    BY <1>2, <1>12, <2>3 DEF IsChain
<1>14. BoughtOnce'
  <2>1. \A i \in 1..n : chain[i].bought \cap bought = {}
    BY <1>2, <1>5 DEF Purchased
  <2>2. QED
    BY <1>2, <1>12, <2>1 DEF IInv, BoughtOnce
<1>15. ASSUME NEW i \in 1..n PROVE BlockInv(i)'
  <2>1. BlockInv(i) /\ i \in Nat \ {0} /\ \A j \in 1..i : chain'[j] = chain[j]
    BY <1>2, <1>12 DEF IInv
  <2>2. QED
    BY <2>1, PrefixInv
<1>16. BlockInv(n + 1)'
  <2>1. /\ chain'[n + 1].iv = iv /\ chain'[n + 1].bought = bought
        /\ chain'[n + 1].voted = voted /\ chain'[n + 1].revoked = revoked
        /\ chain'[n + 1].node = child
    BY <1>12
  <2>2. /\ bought \subseteq Tickets /\ voted \subseteq Tickets /\ revoked \subseteq Tickets
    BY <1>4, <1>6, <1>7, ChainAssumption DEF GoodTreaps, IsTreap
  <2>3. MaturingAt(n)' = new
    <3>1. n >= nStakeEnabledHeight => (n - nTicketMaturity) + 1 \in 1..n
      BY <1>0, <1>2
    <3>2. QED
      BY <1>0, <1>2, <1>12, <3>1, SMTT(30) DEF MaturingAt, new
  <2>4. VotedBy(n + 1)' = VotedBy(n) \cup voted
    BY <1>2, <1>12, <2>1, SMTT(30) DEF VotedBy
  <2>5. RevokedBy(n + 1)' = RevokedBy(n) \cup revoked
    BY <1>2, <1>12, <2>1 DEF RevokedBy
  <2>6. MaturedBy(n + 1)' = MaturedBy(n) \cup new
    <3>1. child.newTickets = new
      BY <1>10 DEF ChildOK
    <3>2. QED
      BY <1>2, <1>12, <2>1, <3>1 DEF MaturedBy
  <2>7. /\ NodeTypeOK(child) /\ child.height = n
        /\ GoodTreaps(child) /\ WinnersOK(child) /\ NoneOverdue(child)
        /\ child.newTickets = new
        /\ Pooled(child) = (Pooled(node) \ voted) \cup new
        /\ DOMAIN child.revoked =
             DOMAIN node.revoked \cup (IF n >= nStakeEnabledHeight THEN revoked ELSE {})
    BY <1>4, <1>11, <1>10 DEF ChildOK
  <2>8. /\ Pooled(node) \cup VotedBy(n) = MaturedBy(n)
        /\ Pooled(node) \cap VotedBy(n) = {}
        /\ DOMAIN node.revoked = RevokedBy(n)
    BY <1>3 DEF BlockInv
  <2>9. voted \subseteq Pooled(node) /\ new \cap Pooled(node) = {}
    BY <1>6, <1>9 DEF Pooled, GoodBlock
  <2>11. /\ Pooled(child) \cup VotedBy(n + 1)' = MaturedBy(n + 1)'
         /\ Pooled(child) \cap VotedBy(n + 1)' = {}
    BY <1>8, <2>4, <2>6, <2>7, <2>8, <2>9
  <2>12. DOMAIN child.revoked = RevokedBy(n + 1)'
    BY <1>7, <2>5, <2>7, <2>8
  <2>10. /\ child.newTickets \cap Pooled(node) = {}
         /\ child = ConnectNode(node, iv, voted, revoked, child.newTickets)
    <3>1. child = ConnectNode(node, iv, voted, revoked, new)
      BY DEF child
    <3>2. QED
      BY <2>7, <2>9, <3>1
  <2>13. (n + 1) - 1 = n /\ chain'[n].node = node
    BY <1>2, <1>3, <1>12
  <2>14. QED
    BY <1>6, <1>7, <2>1, <2>2, <2>3, <2>7, <2>10, <2>11, <2>12, <2>13 DEF BlockInv
<1>17. QED
  BY <1>2, <1>12, <1>13, <1>14, <1>15, <1>16 DEF IInv

\* Every step keeps the invariant.
LEMMA NextInv == IInv /\ [Next]_vars => IInv'
<1> SUFFICES ASSUME IInv, [Next]_vars PROVE IInv'
  OBVIOUS
<1>1. CASE Connect
  <2>1. PICK voted \in SUBSET Spendable(Tip.node) :
          /\ CheckVotes(voted, Tip.node)
          /\ \E revoked \in SUBSET (Spendable(Tip.node) \ voted) :
               /\ CheckRevocations(revoked, Tip.node)
               /\ \E iv \in IVs, bought \in PurchaseSets :
                    ConnectBlock(iv, bought, voted, revoked)
    BY <1>1 DEF Connect
  <2>2. PICK revoked \in SUBSET (Spendable(Tip.node) \ voted) :
          /\ CheckRevocations(revoked, Tip.node)
          /\ \E iv \in IVs, bought \in PurchaseSets :
               ConnectBlock(iv, bought, voted, revoked)
    BY <2>1
  <2>3. PICK iv \in IVs, bought \in PurchaseSets : ConnectBlock(iv, bought, voted, revoked)
    BY <2>2
  <2>4. QED
    BY <2>1, <2>2, <2>3, ConnectBlockInv
<1>2. CASE DisconnectTip
  BY <1>2, DisconnectInv
<1>3. CASE UNCHANGED vars
  <2>1. chain' = chain
    BY <1>3 DEF vars
  <2>2. IsChain' /\ BoughtOnce' /\ DOMAIN chain' = DOMAIN chain
    BY <2>1 DEF IInv, IsChain, BoughtOnce
  <2>3. ASSUME NEW i \in DOMAIN chain PROVE BlockInv(i)'
    <3>1. BlockInv(i) /\ i \in Nat \ {0} /\ \A j \in 1..i : chain'[j] = chain[j]
      BY <2>1 DEF IInv, IsChain
    <3>2. QED
      BY <3>1, PrefixInv
  <2>4. QED
    BY <2>2, <2>3 DEF IInv
<1>4. QED
  BY <1>1, <1>2, <1>3 DEF Next

\* The invariant holds throughout.
THEOREM Invariance == Spec => []IInv
BY InitInv, NextInv, PTL DEF Spec

-----------------------------------------------------------------------------
(* The properties that follow from the invariant.                          *)

\* TypeOK: every block of the active chain has a well-formed stake node of its
\* own height.
THEOREM TypeCorrect == Spec => []TypeOK
<1>1. IInv => TypeOK
  <2> SUFFICES ASSUME IInv PROVE TypeOK
    OBVIOUS
  <2>1. Len(chain) > 0
    BY DEF IInv, IsChain
  <2>2. QED
    BY <2>1 DEF IInv, BlockInv, TypeOK
<1>2. QED
  BY <1>1, Invariance, PTL

\* FlagsMatchTreaps: the flags ConnectNode sets say which treap a value is in.
THEOREM FlagsCorrect == Spec => []FlagsMatchTreaps
<1>1. IInv => FlagsMatchTreaps
  BY DEF IInv, BlockInv, GoodTreaps, FlagsMatchTreaps
<1>2. QED
  BY <1>1, Invariance, PTL

\* TicketsConserved: ConnectNode loses, duplicates and invents no ticket.
THEOREM Conservation == Spec => []TicketsConserved
<1>1. IInv => TicketsConserved
  BY DEF IInv, BlockInv, GoodTreaps, TicketsConserved
<1>2. QED
  BY <1>1, Invariance, PTL

\* WinnersAreLive: the assertion in ConnectNode that every called ticket is live.
THEOREM WinnersLive == Spec => []WinnersAreLive
<1>1. IInv => WinnersAreLive
  BY DEF IInv, BlockInv, WinnersAreLive
<1>2. QED
  BY <1>1, Invariance, PTL

\* LiveWithinExpiry: ConnectNode leaves no overdue ticket in the live treap.
THEOREM ExpiryInTime == Spec => []LiveWithinExpiry
<1>1. IInv => LiveWithinExpiry
  BY DEF IInv, BlockInv, LiveWithinExpiry
<1>2. QED
  BY <1>1, Invariance, PTL

\* SpentOnce: the checks of votes and revocations against the parent's node let
\* no ticket be spent by two blocks.
THEOREM NoDoubleSpend == Spec => []SpentOnce
<1>1. IInv => SpentOnce
  <2> SUFFICES ASSUME IInv, NEW i \in DOMAIN chain, NEW j \in DOMAIN chain, i < j
               PROVE  (chain[i].voted \cup chain[i].revoked)
                        \cap (chain[j].voted \cup chain[j].revoked) = {}
    BY DEF SpentOnce
  <2>1. PICK n \in Nat \ {0} : DOMAIN chain = 1..n
    BY DEF IInv, IsChain
  <2>2. i \in Nat \ {0} /\ j \in Nat \ {0} /\ j > 1 /\ j - 1 \in DOMAIN chain /\ i \in 1..(j - 1)
    BY <2>1
  <2> DEFINE parent == chain[j - 1].node
  <2>3. /\ chain[j].voted \subseteq DOMAIN parent.live
        /\ chain[j].revoked \subseteq DOMAIN parent.missed
    BY <2>2 DEF IInv, BlockInv
  <2>4. chain[i].voted \subseteq VotedBy(j - 1) /\ chain[i].revoked \subseteq RevokedBy(j - 1)
    BY <2>2 DEF VotedBy, RevokedBy
  <2>5. /\ Pooled(parent) \cap VotedBy(j - 1) = {}
        /\ DOMAIN parent.revoked = RevokedBy(j - 1)
        /\ PoolsDisjoint(parent)
    BY <2>2 DEF IInv, BlockInv, GoodTreaps
  <2>6. QED
    BY <2>3, <2>4, <2>5 DEF Pooled, PoolsDisjoint
<1>2. QED
  BY <1>1, Invariance, PTL

(***************************************************************************)
(* The two ways in which the code enforces ticket maturity agree: a ticket *)
(* the stake nodes let vote or be revoked is old enough for                *)
(* checkVoteOrRevokeTicketInputs.                                          *)
(***************************************************************************)

\* ConnectNode puts the tickets that mature in a block into its live treap.
LEMMA NewTicketsLive ==
  ASSUME NEW node, NEW iv, NEW V, NEW R, NEW N,
         ConnectNode(node, iv, V, R, N) # NoNode
  PROVE  N \subseteq DOMAIN ConnectNode(node, iv, V, R, N).live
<1>1. ConnectNode(node, iv, V, R, N).live = ConnectPools(node, V, R, N).live
  BY ConnectFields, SMTT(30) DEF FieldsOK
<1>2. \A f : N \subseteq DOMAIN putAll(f, NewRun(N, node.height + 1))
  BY DEF putAll, NewRun
<1>3. QED
  BY <1>1, <1>2 DEF ConnectPools

\* A ticket bought in block i that has matured by block k is at least
\* nTicketMaturity blocks old there.
LEMMA MaturedAge ==
  ASSUME IInv, NEW i \in DOMAIN chain, NEW k \in DOMAIN chain,
         NEW t \in chain[i].bought, t \in MaturedBy(k)
  PROVE  k - i >= nTicketMaturity
<1>1. PICK n \in Nat \ {0} : DOMAIN chain = 1..n
  BY DEF IInv, IsChain
<1>2. PICK m \in 1..k : t \in chain[m].node.newTickets
  BY DEF MaturedBy
<1>3. m \in Nat \ {0} /\ m \in DOMAIN chain /\ i \in Nat /\ k \in Nat /\ m <= k
  BY <1>1
<1>4. t \in MaturingAt(m - 1)
  BY <1>2, <1>3 DEF IInv, BlockInv
<1>5. /\ nTicketMaturity \in Nat \ {0} /\ nStakeEnabledHeight \in Nat
      /\ nTicketMaturity <= nStakeEnabledHeight
  BY ChainAssumption, ParamsAssumption
<1> DEFINE s == ((m - 1) - nTicketMaturity) + 1
<1>6. (m - 1) - nTicketMaturity >= 0 /\ t \in chain[s].bought
  BY <1>3, <1>4, <1>5 DEF MaturingAt
<1>7. s \in DOMAIN chain /\ s = m - nTicketMaturity
  BY <1>1, <1>3, <1>5, <1>6
<1>8. s = i
  BY <1>6, <1>7 DEF IInv, BoughtOnce
<1>9. QED
  BY <1>3, <1>5, <1>7, <1>8

\* SpendsAreMature: votes are at least nTicketMaturity + 1 blocks after the
\* purchase, because what votes was live at the parent, and revocations one
\* more, because what matures in a block is live there and not missed.
THEOREM MaturityRespected == Spec => []SpendsAreMature
<1>1. IInv => SpendsAreMature
  <2> SUFFICES ASSUME IInv, NEW i \in DOMAIN chain, NEW j \in DOMAIN chain,
                      NEW t \in chain[i].bought
               PROVE  /\ t \in chain[j].voted   => j - i >= nTicketMaturity + 1
                      /\ t \in chain[j].revoked => j - i >= nTicketMaturity + 2
    BY DEF SpendsAreMature
  <2>0. nTicketMaturity \in Nat \ {0}
    BY ChainAssumption
  <2>1. PICK n \in Nat \ {0} : DOMAIN chain = 1..n
    BY DEF IInv, IsChain
  <2>2. j > 1 \/ (chain[j].voted = {} /\ chain[j].revoked = {})
    <3>1. chain[1].voted \subseteq VotedBy(1) /\ chain[1].revoked \subseteq RevokedBy(1)
      BY DEF VotedBy, RevokedBy
    <3>2. 1 \in DOMAIN chain /\ BlockInv(1)
      BY <2>1 DEF IInv
    <3>3. chain[1].node.newTickets = {}
      BY <3>2, ParamsAssumption DEF BlockInv, MaturingAt
    <3>4. MaturedBy(1) = {}
      BY <3>3 DEF MaturedBy
    <3>5. VotedBy(1) = {} /\ RevokedBy(1) = {}
      BY <3>2, <3>4 DEF BlockInv, Pooled
    <3>6. QED
      BY <2>1, <3>1, <3>5
  <2>3. CASE j > 1
    <3> DEFINE k == j - 1
    <3>1. k \in DOMAIN chain /\ k \in Nat \ {0} /\ i \in Nat /\ j \in Nat /\ j = k + 1
      BY <2>1, <2>3
    <3>2. BlockInv(j) /\ BlockInv(k)
      BY <3>1 DEF IInv
    <3>3. /\ chain[j].voted \subseteq DOMAIN chain[k].node.live
          /\ chain[j].revoked \subseteq DOMAIN chain[k].node.missed
      BY <2>3, <3>2 DEF BlockInv
    <3>4. /\ Pooled(chain[k].node) \subseteq MaturedBy(k)
          /\ PoolsDisjoint(chain[k].node)
      BY <3>2 DEF BlockInv, GoodTreaps
    <3> HIDE DEF k
    <3>5. ASSUME t \in chain[j].voted
          PROVE  j - i >= nTicketMaturity + 1
      <4>1. t \in MaturedBy(k)
        BY <3>3, <3>4, <3>5 DEF Pooled
      <4>2. k - i >= nTicketMaturity
        BY <3>1, <4>1, MaturedAge
      <4>3. QED
        BY <2>0, <3>1, <4>2
    <3>6. ASSUME t \in chain[j].revoked
          PROVE  j - i >= nTicketMaturity + 2
      <4>1. t \in DOMAIN chain[k].node.missed /\ t \in MaturedBy(k)
        BY <3>3, <3>4, <3>6 DEF Pooled
      <4>2. t \notin chain[k].node.newTickets
        <5>1. CASE k = 1
          <6>1. chain[k].node.newTickets = MaturingAt(k - 1)
            BY <3>2 DEF BlockInv
          <6>2. MaturingAt(k - 1) = {}
            BY <5>1, ParamsAssumption DEF MaturingAt
          <6>3. QED
            BY <6>1, <6>2
        <5>2. CASE k > 1
          <6>1. chain[k].node = ConnectNode(chain[k - 1].node, chain[k].iv, chain[k].voted,
                                            chain[k].revoked, chain[k].node.newTickets)
            BY <3>2, <5>2 DEF BlockInv
          <6>2. chain[k].node # NoNode
            <7>1. chain[k].node.height = k - 1
              BY <3>2 DEF BlockInv
            <7>2. QED
              BY <3>1, <5>2, <7>1 DEF NoNode
          <6>3. chain[k].node.newTickets \subseteq DOMAIN chain[k].node.live
            BY <6>1, <6>2, NewTicketsLive
          <6>4. QED
            BY <3>4, <4>1, <6>3 DEF PoolsDisjoint
        <5>3. QED
          BY <3>1, <5>1, <5>2
      <4>3. k > 1 /\ k - 1 \in DOMAIN chain /\ t \in MaturedBy(k - 1)
        <5>1. PICK m \in 1..k : t \in chain[m].node.newTickets
          BY <4>1 DEF MaturedBy
        <5>2. m # k /\ m \in 1..(k - 1)
          BY <3>1, <4>2, <5>1
        <5>3. QED
          BY <2>1, <3>1, <5>1, <5>2 DEF MaturedBy
      <4>4. (k - 1) - i >= nTicketMaturity
        BY <4>3, MaturedAge
      <4>5. QED
        BY <2>0, <3>1, <4>4
    <3>7. QED
      BY <3>5, <3>6
  <2>4. QED
    BY <2>2, <2>3
<1>2. QED
  BY <1>1, Invariance, PTL

(***************************************************************************)
(* Blocks are taken back by their undo data.                               *)
(***************************************************************************)

\* Every node of the chain is undone to its parent's treaps.
LEMMA TreapsRestored == IInv => UndoRestoresTreaps
<1> SUFFICES ASSUME IInv, NEW i \in DOMAIN chain \ {1}
             PROVE  /\ DisconnectPools(chain[i].node) = PoolsOf(chain[i - 1].node)
                    /\ UndoKnown(chain[i].node)
  BY DEF UndoRestoresTreaps
<1> DEFINE b == chain[i]
           node == chain[i - 1].node
           N == b.node.newTickets
           p == ConnectPools(node, b.voted, b.revoked, N)
<1>1. i \in Nat /\ i > 1 /\ i - 1 \in DOMAIN chain
  BY DEF IInv, IsChain
<1>2. /\ GoodTreaps(node) /\ NodeTypeOK(b.node) /\ b.node.height = i - 1
      /\ b.revoked \subseteq DOMAIN node.missed
      /\ N \cap Pooled(node) = {}
      /\ b.node = ConnectNode(node, b.iv, b.voted, b.revoked, N)
  BY <1>1 DEF IInv, BlockInv
<1>3. GoodBlock(node, b.revoked, N)
  BY <1>2 DEF GoodBlock, NodeTypeOK
<1>4. DisconnectPools(p) = PoolsOf(node) /\ UndoKnown(p)
  BY <1>2, <1>3, DisconnectConnect, ConnectKnown
<1>5. b.node # NoNode
  BY <1>1, <1>2 DEF NoNode
<1>6. /\ b.node.live = p.live /\ b.node.missed = p.missed /\ b.node.revoked = p.revoked
      /\ b.node.undo = p.undo
  <2>1. FieldsOK(node, b.iv, b.voted, b.revoked, N, b.node)
    BY <1>2, <1>5, ConnectFields
  <2>2. QED
    BY <2>1, Zenon DEF FieldsOK
<1>7. DisconnectPools(b.node) = DisconnectPools(p) /\ (UndoKnown(b.node) <=> UndoKnown(p))
  BY <1>6 DEF DisconnectPools, UndoKnown
<1>8. QED
  BY <1>4, <1>7

\* UndoRestoresTreaps: a reorganisation can take any number of blocks back by
\* their undo data alone.
THEOREM UndoCorrect == Spec => []UndoRestoresTreaps
  BY TreapsRestored, Invariance, PTL

\* The first block stays the genesis block, whose node is genesisNode.
GInv == IInv /\ chain[1] = genesisBlock

\* UndoRestoresLottery: the node that DisconnectNode makes is not null and has
\* the winners and the lottery state of the parent, whatever the draw selects.
THEOREM UndoLotteryCorrect == Spec => []UndoRestoresLottery
<1>1. Init => GInv
  BY InitInv DEF GInv, Init
<1>2. GInv /\ [Next]_vars => GInv'
  <2> SUFFICES ASSUME GInv, [Next]_vars PROVE GInv'
    OBVIOUS
  <2>1. PICK S : chain \in Seq(S) /\ Len(chain) > 0
    BY DEF GInv, IInv, IsChain
  <2>2. chain'[1] = chain[1]
    <3>1. CASE Connect
      <4>1. PICK b : chain' = Append(chain, b)
        BY <3>1 DEF Connect, ConnectBlock
      <4>2. chain \in Seq(S \cup {b})
        BY <2>1
      <4>3. QED
        BY <2>1, <4>1, <4>2
    <3>2. CASE DisconnectTip
      BY <2>1, <3>2 DEF DisconnectTip
    <3>3. CASE UNCHANGED vars
      BY <3>3 DEF vars
    <3>4. QED
      BY <3>1, <3>2, <3>3 DEF Next
  <2>3. genesisBlock' = genesisBlock
    BY DEF genesisBlock, genesisNode
  <2>4. QED
    BY <2>2, <2>3, NextInv DEF GInv
<1>3. GInv => UndoRestoresLottery
  <2> SUFFICES ASSUME GInv, NEW i \in DOMAIN chain \ {1}
               PROVE  LET parent == chain[i - 1]
                          back == DisconnectNode(chain[i].node, parent.iv, parent.node.undo,
                                                 parent.node.called, parent.node.newTickets)
                      IN /\ back # NoNode
                         /\ back.nextWinners = parent.node.nextWinners
                         /\ back.finalState = parent.node.finalState
    BY DEF UndoRestoresLottery
  <2> DEFINE b == chain[i]
             parent == chain[i - 1]
  <2>1. i \in Nat /\ i > 1 /\ i - 1 \in DOMAIN chain /\ i - 1 \in Nat
    BY DEF GInv, IInv, IsChain
  <2>2. /\ GoodTreaps(parent.node) /\ NodeTypeOK(parent.node) /\ parent.iv \in IVs
        /\ NodeTypeOK(b.node) /\ b.node.height = i - 1
        /\ parent.node.height = (i - 1) - 1
        /\ b.node = ConnectNode(parent.node, b.iv, b.voted, b.revoked, b.node.newTickets)
    BY <2>1 DEF GInv, IInv, BlockInv
  <2>3. b.node # NoNode
    BY <2>1, <2>2 DEF NoNode
  <2>4. CASE i = 2
    <3>1. parent.node = genesisNode /\ b.node.height = 1
      BY <2>2, <2>4, SMTT(30) DEF GInv, genesisBlock
    <3>2. DisconnectNode(b.node, parent.iv, parent.node.undo, parent.node.called,
                         parent.node.newTickets) = genesisNode
      BY <3>1 DEF DisconnectNode
    <3>3. genesisNode.height = 0
      BY DEF genesisNode
    <3>4. genesisNode # NoNode
      BY <3>3 DEF NoNode
    <3>5. QED
      BY <3>1, <3>2, <3>4
  <2>5. CASE i > 2
    <3> DEFINE grand == chain[(i - 1) - 1]
    <3>1. /\ parent.node = ConnectNode(grand.node, parent.iv, parent.voted, parent.revoked,
                                       parent.node.newTickets)
          /\ parent.node # NoNode /\ parent.node.height > 0
      <4>1. BlockInv(i - 1) /\ i - 1 > 1
        BY <2>1, <2>5 DEF GInv, IInv
      <4>2. parent.node.height > 0 /\ NoNode.height = -1
        BY <2>1, <2>2, <2>5 DEF NoNode
      <4>3. parent.node = ConnectNode(grand.node, parent.iv, parent.voted, parent.revoked,
                                      parent.node.newTickets)
        BY <4>1 DEF BlockInv
      <4>4. QED
        BY <4>2, <4>3
    <3>2. DOMAIN parent.node.live \subseteq Tickets
      BY <2>2 DEF NodeTypeOK, IsTreap
    <3>3. DisconnectPools(b.node) = PoolsOf(parent.node)
      BY TreapsRestored DEF GInv, UndoRestoresTreaps
    <3> HIDE DEF b, parent, grand
    <3>4. LotteryOK(parent.node, parent.iv)
      BY <2>2, <3>1, <3>2, LotteryFields
    <3>5. LET back == DisconnectNode(b.node, parent.iv, parent.node.undo,
                                     parent.node.called, parent.node.newTickets)
          IN /\ back # NoNode
             /\ back.nextWinners = parent.node.nextWinners
             /\ back.finalState = parent.node.finalState
      <4>1. GoodTreaps(parent.node) /\ NodeTypeOK(parent.node) /\ parent.node.height > 0
        BY <2>2, <3>1
      <4>2. b.node = ConnectNode(parent.node, b.iv, b.voted, b.revoked, b.node.newTickets)
        BY <2>2
      <4>3. PICK node, child : node = parent.node /\ child = b.node
        OBVIOUS
      <4>4. /\ GoodTreaps(node) /\ NodeTypeOK(node) /\ node.height > 0 /\ LotteryOK(node, parent.iv)
            /\ child = ConnectNode(node, b.iv, b.voted, b.revoked, b.node.newTickets)
            /\ child # NoNode /\ DisconnectPools(child) = PoolsOf(node)
        BY <2>3, <3>3, <3>4, <4>1, <4>2, <4>3
      <4>5. LET back == DisconnectNode(child, parent.iv, node.undo, node.called, node.newTickets)
            IN /\ back # NoNode
               /\ back.nextWinners = node.nextWinners
               /\ back.finalState = node.finalState
        BY <4>4, DisconnectLottery
      <4>6. QED
        BY <4>3, <4>5
    <3>6. QED
      BY <3>5 DEF b, parent
  <2>6. i = 2 \/ i > 2
    BY <2>1
  <2>7. QED
    BY <2>4, <2>5, <2>6, Zenon
<1>4. QED
  BY <1>1, <1>2, <1>3, PTL DEF Spec

(***************************************************************************)
(* The life cycle of tickets: the chain of stake nodes implements          *)
(* TicketLifecycle.  What a block does to the statuses is first read off   *)
(* any two neighbouring blocks of a chain; a step then only adds or drops  *)
(* a block.                                                                *)
(***************************************************************************)

\* Every block but the first passed the check of its votes against its parent.
CheckedVotes == \A i \in DOMAIN chain \ {1} : CheckVotes(chain[i].voted, chain[i - 1].node)

LInv == IInv /\ CheckedVotes

\* The five places a ticket can be in determine its status.
LEMMA StatusCases ==
  ASSUME IInv, NEW i \in DOMAIN chain, NEW t \in Tickets
  PROVE  LET node == chain[i].node IN
         /\ t \in DOMAIN node.live => StatusAt(i, t) = "live"
         /\ t \in DOMAIN node.missed =>
              StatusAt(i, t) = IF node.missed[t].expired THEN "expired" ELSE "missed"
         /\ t \in DOMAIN node.revoked => StatusAt(i, t) = "revoked"
         /\ t \in VotedBy(i) => StatusAt(i, t) = "voted"
         /\ t \notin MaturedBy(i) =>
              StatusAt(i, t) = IF t \in BoughtBy(i) THEN "immature" ELSE "unbought"
         /\ t \in MaturedBy(i) => t \in Pooled(node) \/ t \in VotedBy(i)
<1> DEFINE node == chain[i].node
<1>1. /\ Pooled(node) \cup VotedBy(i) = MaturedBy(i)
      /\ Pooled(node) \cap VotedBy(i) = {}
      /\ PoolsDisjoint(node)
  BY DEF IInv, BlockInv, GoodTreaps
<1> DEFINE A == t \in DOMAIN node.live
           B == t \in DOMAIN node.missed
           C == t \in DOMAIN node.revoked
           D == t \in VotedBy(i)
           F == t \in BoughtBy(i) \ MaturedBy(i)
<1>2. /\ A => ~B /\ ~C /\ ~D /\ ~F
      /\ B => ~A /\ ~C /\ ~D /\ ~F
      /\ C => ~A /\ ~B /\ ~D /\ ~F
      /\ D => ~A /\ ~B /\ ~C /\ ~F
      /\ t \notin MaturedBy(i) => ~A /\ ~B /\ ~C /\ ~D
      /\ t \in MaturedBy(i) => A \/ B \/ C \/ D
  BY <1>1 DEF PoolsDisjoint, Pooled
<1>3. StatusAt(i, t) =
        CASE A -> "live"
          [] B -> IF node.missed[t].expired THEN "expired" ELSE "missed"
          [] C -> "revoked"
          [] D -> "voted"
          [] F -> "immature"
          [] OTHER -> "unbought"
  BY DEF StatusAt
<1> HIDE DEF A, B, C, D, F
<1>4. /\ A => StatusAt(i, t) = "live"
      /\ B => StatusAt(i, t) = IF node.missed[t].expired THEN "expired" ELSE "missed"
      /\ C => StatusAt(i, t) = "revoked"
      /\ D => StatusAt(i, t) = "voted"
      /\ F => StatusAt(i, t) = "immature"
      /\ ~A /\ ~B /\ ~C /\ ~D /\ ~F => StatusAt(i, t) = "unbought"
  BY <1>2, <1>3
<1>5. t \notin MaturedBy(i) =>
        StatusAt(i, t) = IF t \in BoughtBy(i) THEN "immature" ELSE "unbought"
  BY <1>2, <1>4 DEF F
<1>6. t \in MaturedBy(i) => t \in Pooled(node) \/ t \in VotedBy(i)
  BY <1>1
<1>7. QED
  BY <1>4, <1>5, <1>6 DEF A, B, C, D

\* A block and its parent: the runs of undo data that lead from one to the other.
LEMMA BlockStep ==
  ASSUME IInv, NEW i \in DOMAIN chain \ {1}
  PROVE  /\ i - 1 \in DOMAIN chain
         /\ \E C, E, M, X, W :
              /\ RunsOK(chain[i - 1].node, chain[i].voted, chain[i].revoked,
                        chain[i].node.newTickets, C, E, M, X, W)
              /\ ContentsOK(chain[i - 1].node, C, E, M, X, W, chain[i].node)
         /\ VotedBy(i) = VotedBy(i - 1) \cup chain[i].voted
         /\ BoughtBy(i) = BoughtBy(i - 1) \cup chain[i].bought
         /\ MaturedBy(i) = MaturedBy(i - 1) \cup chain[i].node.newTickets
         /\ chain[i].node.newTickets \subseteq BoughtBy(i - 1)
<1> DEFINE b == chain[i]
           node == chain[i - 1].node
           N == b.node.newTickets
           p == ConnectPools(node, b.voted, b.revoked, N)
<1>1. PICK n \in Nat \ {0} : DOMAIN chain = 1..n
  BY DEF IInv, IsChain
<1>2. i \in Nat /\ i > 1 /\ i - 1 \in DOMAIN chain /\ i - 1 \in Nat
  BY <1>1
<1>3. /\ GoodTreaps(node) /\ NodeTypeOK(b.node) /\ b.node.height = i - 1
      /\ b.revoked \subseteq DOMAIN node.missed
      /\ N \cap Pooled(node) = {} /\ N = MaturingAt(i - 1)
      /\ b.node = ConnectNode(node, b.iv, b.voted, b.revoked, N)
  BY <1>2 DEF IInv, BlockInv
<1>4. \E C, E, M, X, W :
        RunsOK(node, b.voted, b.revoked, N, C, E, M, X, W) /\ ContentsOK(node, C, E, M, X, W, b.node)
  <2>1. GoodBlock(node, b.revoked, N)
    BY <1>3 DEF GoodBlock, NodeTypeOK
  <2>2. PICK C, E, M, X, W :
          RunsOK(node, b.voted, b.revoked, N, C, E, M, X, W) /\ ContentsOK(node, C, E, M, X, W, p)
    BY <1>3, <2>1, ConnectPoolsRuns
  <2>3. b.node # NoNode
    BY <1>2, <1>3, SMTT(30) DEF NoNode
  <2>4. b.node.live = p.live /\ b.node.missed = p.missed /\ b.node.revoked = p.revoked
    <3>1. FieldsOK(node, b.iv, b.voted, b.revoked, N, b.node)
      BY <1>3, <2>3, ConnectFields
    <3>2. QED
      BY <3>1, Zenon DEF FieldsOK
  <2>5. ContentsOK(node, C, E, M, X, W, b.node)
    BY <2>2, <2>4 DEF ContentsOK
  <2>6. QED
    BY <2>2, <2>5
<1>5. 1..i = (1..(i - 1)) \cup {i}
  BY <1>2
<1>6. /\ VotedBy(i) = VotedBy(i - 1) \cup chain[i].voted
      /\ BoughtBy(i) = BoughtBy(i - 1) \cup chain[i].bought
      /\ MaturedBy(i) = MaturedBy(i - 1) \cup chain[i].node.newTickets
  BY <1>5 DEF VotedBy, BoughtBy, MaturedBy
<1>7. N \subseteq BoughtBy(i - 1)
  <2>1. /\ nTicketMaturity \in Nat \ {0} /\ nStakeEnabledHeight \in Nat
        /\ nTicketMaturity <= nStakeEnabledHeight
    BY ChainAssumption, ParamsAssumption
  <2>2. N # {} => /\ (i - 1) - nTicketMaturity >= 0
                  /\ N = chain[((i - 1) - nTicketMaturity) + 1].bought
    BY <1>2, <1>3, <2>1 DEF MaturingAt
  <2>3. (i - 1) - nTicketMaturity >= 0 => ((i - 1) - nTicketMaturity) + 1 \in 1..(i - 1)
    BY <1>2, <2>1
  <2>4. QED
    BY <2>2, <2>3 DEF BoughtBy
<1>8. QED
  BY <1>2, <1>4, <1>6, <1>7

StatusMap(i) == [t \in Tickets |-> StatusAt(i, t)]

\* One block moves one ticket along the edges of the life cycle, and says by
\* its votes and its parent's winners along which of the edges from "live".
LEMMA TicketMoves ==
  ASSUME LInv, NEW i \in DOMAIN chain \ {1}, NEW t \in Tickets
  PROVE  LET old == StatusAt(i - 1, t)
             new == StatusAt(i, t)
             called == IF i - 1 >= nStakeEnabledHeight
                         THEN Elems(chain[i - 1].node.nextWinners) ELSE {}
         IN /\ <<old, new>> \in Lifecycle!Moves
            /\ (old = "live" /\ new = "voted") <=> t \in chain[i].voted
            /\ (old = "live" /\ new = "missed") <=> t \in called \ chain[i].voted
<1> DEFINE old == StatusAt(i - 1, t)
           new == StatusAt(i, t)
           node == chain[i - 1].node
           child == chain[i].node
           V == chain[i].voted
           R == chain[i].revoked
           N == child.newTickets
           called == IF i - 1 >= nStakeEnabledHeight THEN Elems(node.nextWinners) ELSE {}
           Goal == /\ <<old, new>> \in Lifecycle!Moves
                   /\ (old = "live" /\ new = "voted") <=> t \in V
                   /\ (old = "live" /\ new = "missed") <=> t \in called \ V
<1>0. IInv
  BY DEF LInv
<1>1. PICK C, E, M, X, W : RunsOK(node, V, R, N, C, E, M, X, W) /\ ContentsOK(node, C, E, M, X, W, child)
  BY <1>0, BlockStep
<1>2. /\ i - 1 \in DOMAIN chain /\ i \in DOMAIN chain /\ i \in Nat /\ i > 1
      /\ VotedBy(i) = VotedBy(i - 1) \cup V
      /\ BoughtBy(i) = BoughtBy(i - 1) \cup chain[i].bought
      /\ MaturedBy(i) = MaturedBy(i - 1) \cup N
      /\ N \subseteq BoughtBy(i - 1)
  <2>1. PICK n \in Nat \ {0} : DOMAIN chain = 1..n
    BY <1>0 DEF IInv, IsChain
  <2>2. i \in Nat /\ i > 1
    BY <2>1
  <2>3. QED
    BY <1>0, <2>2, BlockStep, Zenon
<1>3. node.height = (i - 1) - 1 /\ node.height + 1 = i - 1 /\ GoodTreaps(node)
  <2>1. BlockInv(i - 1)
    BY <1>0, <1>2 DEF IInv
  <2>2. node.height = (i - 1) - 1 /\ GoodTreaps(node)
    BY <2>1, Zenon DEF BlockInv
  <2>3. QED
    BY <1>2, <2>2
<1>4. /\ DOMAIN C = called /\ called \subseteq DOMAIN node.live
      /\ DOMAIN E \subseteq DOMAIN node.live \ DOMAIN C
      /\ \A u \in DOMAIN C : ~C[u].expired
      /\ \A u \in DOMAIN E : E[u].expired
      /\ DOMAIN M = DOMAIN node.missed \cup (DOMAIN C \ V) \cup DOMAIN E
      /\ \A u \in DOMAIN node.missed : M[u] = node.missed[u]
      /\ \A u \in DOMAIN C \ V : M[u] = C[u]
      /\ \A u \in DOMAIN E : M[u] = E[u]
  <2>1. CalledExpiredOK(node, V, C, E) /\ AllMissedOK(node, V, C, E, M)
    BY <1>1 DEF RunsOK
  <2>2. i - 1 >= nStakeEnabledHeight \/ i - 1 < nStakeEnabledHeight
    BY <1>2, ParamsAssumption, SMTT(30)
  <2>3. DOMAIN C = called
    BY <1>2, <1>3, <2>1, <2>2, ParamsAssumption DEF CalledExpiredOK
  <2>4. QED
    BY <2>1, <2>3 DEF CalledExpiredOK, AllMissedOK
<1>5. V \subseteq called
  <2>1. CheckVotes(V, node)
    BY DEF LInv, CheckedVotes
  <2>2. CASE node.height + 1 < nStakeValidationHeight
    BY <2>1, <2>2 DEF CheckVotes
  <2>3. CASE ~(node.height + 1 < nStakeValidationHeight)
    <3>1. i - 1 >= nStakeEnabledHeight
      BY <1>2, <1>3, <2>3, ParamsAssumption
    <3>2. QED
      BY <2>1, <2>3, <3>1 DEF CheckVotes, checkAllowedVotes
  <2>4. QED
    BY <2>2, <2>3
<1>6. /\ DOMAIN X \subseteq R /\ R \subseteq DOMAIN node.missed
      /\ DOMAIN child.live = (DOMAIN node.live \ (DOMAIN C \cup DOMAIN E)) \cup N
      /\ DOMAIN child.missed = DOMAIN M \ DOMAIN X
      /\ \A u \in DOMAIN child.missed : child.missed[u] = M[u]
      /\ DOMAIN child.revoked = DOMAIN node.revoked \cup DOMAIN X
      /\ N \cap Pooled(node) = {}
  <2>1. DOMAIN X \subseteq R /\ DOMAIN W = N
    BY <1>1 DEF RunsOK, RevokedOK
  <2>2. R \subseteq DOMAIN node.missed /\ N \cap Pooled(node) = {}
    BY <1>2 DEF LInv, IInv, BlockInv
  <2>3. QED
    BY <1>1, <2>1, <2>2 DEF ContentsOK
<1>7. PoolsDisjoint(node) /\ Pooled(node) \cup VotedBy(i - 1) = MaturedBy(i - 1)
  BY <1>2 DEF LInv, IInv, BlockInv, GoodTreaps
<1>8. /\ t \in DOMAIN node.live => old = "live"
      /\ t \in DOMAIN node.missed => old = IF node.missed[t].expired THEN "expired" ELSE "missed"
      /\ t \in DOMAIN node.revoked => old = "revoked"
      /\ t \in VotedBy(i - 1) => old = "voted"
      /\ t \notin MaturedBy(i - 1) => old = IF t \in BoughtBy(i - 1) THEN "immature" ELSE "unbought"
  BY <1>2, StatusCases DEF LInv
<1>9. /\ t \in DOMAIN child.live => new = "live"
      /\ t \in DOMAIN child.missed => new = IF child.missed[t].expired THEN "expired" ELSE "missed"
      /\ t \in DOMAIN child.revoked => new = "revoked"
      /\ t \in VotedBy(i) => new = "voted"
      /\ t \notin MaturedBy(i) => new = IF t \in BoughtBy(i) THEN "immature" ELSE "unbought"
  BY <1>2, StatusCases DEF LInv
<1> SUFFICES Goal
  OBVIOUS
<1> USE DEF Lifecycle!Moves, Lifecycle!Status
<1> HIDE DEF old, new, node, child, V, R, N, called
<1>10. CASE t \in DOMAIN node.live
  <2>1. CASE t \in V
    BY <1>2, <1>5, <1>8, <1>9, <1>10, <2>1
  <2>2. CASE t \in called \ V
    <3>1. t \in DOMAIN child.missed /\ ~child.missed[t].expired
      BY <1>4, <1>6, <1>7, <1>10, <2>2 DEF PoolsDisjoint
    <3>2. QED
      BY <1>8, <1>9, <1>10, <2>2, <3>1
  <2>3. CASE t \in DOMAIN E
    <3>1. t \in DOMAIN child.missed /\ child.missed[t].expired /\ t \notin called
      BY <1>4, <1>6, <1>7, <1>10, <2>3 DEF PoolsDisjoint
    <3>2. QED
      BY <1>5, <1>8, <1>9, <1>10, <3>1
  <2>4. CASE t \notin called \cup DOMAIN E
    <3>1. t \in DOMAIN child.live
      BY <1>4, <1>6, <1>10, <2>4
    <3>2. QED
      BY <1>5, <1>8, <1>9, <1>10, <2>4, <3>1
  <2>5. QED
    BY <2>1, <2>2, <2>3, <2>4
<1>11. CASE t \in DOMAIN node.missed
  <2>1. t \notin called /\ t \notin V
    BY <1>4, <1>5, <1>7, <1>11 DEF PoolsDisjoint
  <2>2. CASE t \in DOMAIN X
    BY <1>6, <1>8, <1>9, <1>11, <2>1, <2>2
  <2>3. CASE t \notin DOMAIN X
    <3>1. t \in DOMAIN child.missed /\ child.missed[t] = node.missed[t]
      BY <1>4, <1>6, <1>11, <2>3
    <3>2. QED
      BY <1>8, <1>9, <1>11, <2>1, <3>1
  <2>4. QED
    BY <2>2, <2>3
<1>12. CASE t \in DOMAIN node.revoked
  <2>1. t \notin called /\ t \notin V /\ t \in DOMAIN child.revoked
    BY <1>4, <1>5, <1>6, <1>7, <1>12 DEF PoolsDisjoint
  <2>2. QED
    BY <1>8, <1>9, <1>12, <2>1
<1>13. CASE t \in VotedBy(i - 1)
  <2>1. t \notin Pooled(node)
    BY <1>2, <1>13 DEF LInv, IInv, BlockInv, node
  <2>2. t \notin called /\ t \notin V /\ t \in VotedBy(i)
    BY <1>2, <1>4, <1>5, <1>13, <2>1 DEF Pooled
  <2>3. QED
    BY <1>8, <1>9, <1>13, <2>2
<1>14. CASE t \notin MaturedBy(i - 1)
  <2>1. t \notin called /\ t \notin V
    BY <1>4, <1>5, <1>7, <1>14 DEF Pooled
  <2>2. CASE t \in N
    BY <1>2, <1>6, <1>8, <1>9, <1>14, <2>1, <2>2
  <2>3. CASE t \notin N
    BY <1>2, <1>8, <1>9, <1>14, <2>1, <2>3
  <2>4. QED
    BY <2>2, <2>3
<1>15. QED
  BY <1>7, <1>10, <1>11, <1>12, <1>13, <1>14 DEF Pooled

\* The tickets that the block at index i was to answer for.
CalledBy(i) ==
  IF i - 1 >= nStakeEnabledHeight THEN Elems(chain[i - 1].node.nextWinners) ELSE {}

\* The votes are among the called tickets, of which there are none or
\* nTicketsPerBlock, and most of them voted.
LEMMA CallsCounted ==
  ASSUME LInv, NEW i \in DOMAIN chain \ {1}
  PROVE  LET V == chain[i].voted IN
         /\ V \subseteq CalledBy(i) /\ CalledBy(i) \subseteq Tickets
         /\ Cardinality(CalledBy(i)) \in {0, nTicketsPerBlock}
         /\ Cardinality(V) >= Cardinality(CalledBy(i) \ V)
<1> DEFINE V == chain[i].voted
           node == chain[i - 1].node
           W == node.nextWinners
<1>1. /\ i \in Nat /\ i > 1 /\ i - 1 \in DOMAIN chain /\ i - 1 \in Nat
      /\ node.height = (i - 1) - 1 /\ node.height + 1 = i - 1
  <2>1. PICK n \in Nat \ {0} : DOMAIN chain = 1..n
    BY DEF LInv, IInv, IsChain
  <2>2. i \in Nat /\ i > 1 /\ i - 1 \in DOMAIN chain /\ i - 1 \in Nat
    BY <2>1
  <2>3. BlockInv(i - 1)
    BY <2>2 DEF LInv, IInv
  <2>4. node.height = (i - 1) - 1
    BY <2>3, Zenon DEF BlockInv
  <2>5. QED
    BY <2>2, <2>4
<1>2. CheckVotes(V, node)
  BY DEF LInv, CheckedVotes
<1>3. WinnersOK(node) /\ NodeTypeOK(node)
  BY <1>1 DEF LInv, IInv, BlockInv
<1>4. CalledBy(i) \subseteq Tickets
  BY <1>3 DEF CalledBy, NodeTypeOK
<1>5. i = 2 => Elems(W) = {}
  <2> SUFFICES ASSUME i = 2 PROVE DOMAIN node.live = {}
    BY <1>3 DEF WinnersOK
  <2>1. BlockInv(1) /\ i - 1 = 1 /\ 1..1 = {1}
    BY <1>1 DEF LInv, IInv
  <2>2. chain[1].node.newTickets = {}
    BY <2>1, ParamsAssumption, SMTT(30) DEF BlockInv, MaturingAt
  <2>3. MaturedBy(1) = {}
    BY <2>1, <2>2 DEF MaturedBy
  <2>4. QED
    BY <2>1, <2>3 DEF BlockInv, Pooled
<1>6. CASE i - 1 < nStakeValidationHeight
  <2>1. V = {}
    BY <1>1, <1>2, <1>6 DEF CheckVotes
  <2>2. Elems(W) = {}
    <3>1. CASE i > 2
      <4>1. PICK b, par : b = chain[i - 1] /\ par = chain[(i - 1) - 1]
        OBVIOUS
      <4>2. /\ node = ConnectNode(par.node, b.iv, b.voted, b.revoked, b.node.newTickets)
            /\ node # NoNode
        <5>1. BlockInv(i - 1) /\ i - 1 > 1 /\ i \in Nat
          BY <1>1, <3>1 DEF LInv, IInv
        <5>2. node.height # -1 /\ NoNode.height = -1
          <6>1. node.height = (i - 1) - 1
            BY <5>1, Zenon DEF BlockInv
          <6>2. QED
            BY <5>1, <6>1 DEF NoNode
        <5>3. node = ConnectNode(par.node, b.iv, b.voted, b.revoked, b.node.newTickets)
          BY <4>1, <5>1 DEF BlockInv
        <5>4. QED
          BY <5>2, <5>3
      <4>3. node.height = par.node.height + 1 /\ (~Drawing(node.height) => W = << >>)
        <5>1. FieldsOK(par.node, b.iv, b.voted, b.revoked, b.node.newTickets, node)
          BY <4>2, ConnectFields
        <5>2. QED
          BY <5>1, Zenon DEF FieldsOK
      <4>4. ~Drawing(node.height)
        BY <1>1, <1>6, ParamsAssumption DEF Drawing
      <4>5. QED
        BY <4>3, <4>4 DEF Elems
    <3>2. QED
      BY <1>1, <1>5, <3>1
  <2>3. CalledBy(i) = {}
    BY <2>2 DEF CalledBy
  <2>4. QED
    BY <2>1, <2>3, <1>4, FS_EmptySet
<1>7. CASE ~(i - 1 < nStakeValidationHeight)
  <2>1. /\ Cardinality(V) >= (nTicketsPerBlock \div 2) + 1
        /\ V \subseteq Elems(W)
    BY <1>1, <1>2, <1>7 DEF CheckVotes, checkAllowedVotes
  <2>2. CalledBy(i) = Elems(W)
    BY <1>1, <1>7, ParamsAssumption DEF CalledBy
  <2>3. Elems(W) # {}
    <3>1. (nTicketsPerBlock \div 2) + 1 > 0
      BY ParamsAssumption
    <3>2. Elems(W) = {} => Cardinality(V) = 0
      BY <2>1, FS_EmptySet
    <3>3. QED
      BY <2>1, <3>1, <3>2, ParamsAssumption
  <2>4. DOMAIN W = 1..nTicketsPerBlock
    BY <1>1, <1>3, <1>5, <1>7, <2>3, ParamsAssumption DEF WinnersOK
  <2>5. Cardinality(Elems(W)) = nTicketsPerBlock /\ IsFiniteSet(Elems(W))
    <3> DEFINE f == [k \in 1..nTicketsPerBlock |-> W[k]]
    <3>1. f \in [1..nTicketsPerBlock -> Elems(W)]
      BY <2>4 DEF Elems
    <3>2. IsInjective(f)
      BY <1>3, <2>4 DEF WinnersOK, IsInjective
    <3>3. \A t \in Elems(W) : \E k \in 1..nTicketsPerBlock : f[k] = t
      BY <2>4 DEF Elems
    <3>4. f \in Bijection(1..nTicketsPerBlock, Elems(W))
      BY <3>1, <3>2, <3>3 DEF Bijection, Injection, Surjection
    <3>5. ExistsBijection(1..nTicketsPerBlock, Elems(W))
      BY <3>4 DEF ExistsBijection
    <3>6. QED
      BY <3>5, FS_CountingElements, FS_NatBijection, ParamsAssumption
  <2>6. /\ Cardinality(Elems(W) \ V) = Cardinality(Elems(W)) - Cardinality(Elems(W) \cap V)
        /\ IsFiniteSet(V)
    BY <2>1, <2>5, FS_Difference, FS_Subset
  <2>7. Elems(W) \cap V = V
    BY <2>1
  <2>8. Cardinality(V) \in Nat
    BY <2>6, FS_CardinalityType
  <2>9. Cardinality(V) >= Cardinality(Elems(W) \ V)
    <3> DEFINE c == Cardinality(V)
    <3>1. c \in Nat /\ c >= (nTicketsPerBlock \div 2) + 1 => c >= nTicketsPerBlock - c
      BY ParamsAssumption
    <3>2. QED
      BY <2>1, <2>5, <2>6, <2>7, <2>8, <3>1
  <2>10. QED
    BY <1>4, <2>1, <2>2, <2>5, <2>9
<1>8. QED
  BY <1>6, <1>7

\* The abstract specification counts with the same Cardinality.
LEMMA SameCardinality == \A S : Lifecycle!Cardinality(S) = Cardinality(S)
  BY Zenon DEF Lifecycle!Cardinality, Cardinality

\* One block moves the tickets as the abstract specification says.
LEMMA PairMoves ==
  ASSUME LInv, NEW i \in DOMAIN chain \ {1}
  PROVE  Lifecycle!BlockMoves(StatusMap(i - 1), StatusMap(i))
<1> DEFINE V == chain[i].voted
           old == StatusMap(i - 1)
           new == StatusMap(i)
<1>1. \A t \in Tickets : old[t] = StatusAt(i - 1, t) /\ new[t] = StatusAt(i, t)
  BY DEF StatusMap
<1>2. \A t \in Tickets :
        /\ <<old[t], new[t]>> \in Lifecycle!Moves
        /\ (old[t] = "live" /\ new[t] = "voted") <=> t \in V
        /\ (old[t] = "live" /\ new[t] = "missed") <=> t \in CalledBy(i) \ V
  <2> TAKE t \in Tickets
  <2>1. /\ <<StatusAt(i - 1, t), StatusAt(i, t)>> \in Lifecycle!Moves
        /\ (StatusAt(i - 1, t) = "live" /\ StatusAt(i, t) = "voted") <=> t \in V
        /\ (StatusAt(i - 1, t) = "live" /\ StatusAt(i, t) = "missed") <=> t \in CalledBy(i) \ V
    BY TicketMoves DEF CalledBy
  <2>2. old[t] = StatusAt(i - 1, t) /\ new[t] = StatusAt(i, t)
    BY <1>1
  <2> HIDE DEF old, new, V
  <2>3. QED
    BY <2>1, <2>2
<1>3. /\ V \subseteq CalledBy(i) /\ CalledBy(i) \subseteq Tickets
      /\ Cardinality(CalledBy(i)) \in {0, nTicketsPerBlock}
      /\ Cardinality(V) >= Cardinality(CalledBy(i) \ V)
  BY CallsCounted
<1> HIDE DEF old, new, V
<1>4. Lifecycle!Moved(old, new, "live", "voted") = V
  BY <1>2, <1>3 DEF Lifecycle!Moved
<1>5. Lifecycle!Moved(old, new, "live", "missed") = CalledBy(i) \ V
  BY <1>2, <1>3 DEF Lifecycle!Moved
<1>6. V \cup (CalledBy(i) \ V) = CalledBy(i)
  BY <1>3
<1>7. Lifecycle!BlockMoves(old, new)
  BY <1>2, <1>3, <1>4, <1>5, <1>6, SameCardinality DEF Lifecycle!BlockMoves
<1>8. QED
  BY <1>7 DEF old, new

\* The votes of a connected block were checked against its parent's node, and
\* disconnecting forgets a block and the check with it.
LEMMA CheckedNext == LInv /\ [Next]_vars => LInv'
<1> SUFFICES ASSUME LInv, [Next]_vars PROVE LInv'
  OBVIOUS
<1>1. IInv'
  BY NextInv DEF LInv
<1>2. PICK S : chain \in Seq(S) /\ Len(chain) > 0
  BY DEF LInv, IInv, IsChain
<1>3. CASE Connect
  <2>1. PICK b : chain' = Append(chain, b) /\ CheckVotes(b.voted, Tip.node)
    BY <1>3, SMTT(30) DEF Connect, ConnectBlock
  <2>2. /\ DOMAIN chain' = 1..(Len(chain) + 1) /\ chain'[Len(chain) + 1] = b
        /\ \A j \in 1..Len(chain) : chain'[j] = chain[j]
    <3>1. chain \in Seq(S \cup {b})
      BY <1>2
    <3>2. QED
      BY <2>1, <3>1
  <2>3. CheckedVotes'
    <3> SUFFICES ASSUME NEW i \in DOMAIN chain' \ {1}
                 PROVE  CheckVotes(chain'[i].voted, chain'[i - 1].node)
      BY DEF CheckedVotes, CheckVotes, checkAllowedVotes
    <3>1. i \in 1..(Len(chain) + 1) /\ i # 1 /\ Len(chain) \in Nat \ {0}
      BY <1>2, <2>2
    <3>2. i - 1 \in 1..Len(chain)
      BY <3>1
    <3>3. CASE i = Len(chain) + 1
      BY <2>1, <2>2, <3>1, <3>2, <3>3 DEF Tip
    <3>4. CASE i # Len(chain) + 1
      <4>1. i \in 1..Len(chain) /\ i \in DOMAIN chain \ {1}
        BY <1>2, <3>1, <3>4
      <4>2. QED
        BY <2>2, <3>2, <4>1 DEF LInv, CheckedVotes
    <3>5. QED
      BY <3>3, <3>4
  <2>4. QED
    BY <1>1, <2>3 DEF LInv
<1>4. CASE DisconnectTip
  <2>1. /\ DOMAIN chain' = 1..(Len(chain) - 1) /\ Len(chain) \in Nat /\ Len(chain) > 1
        /\ \A j \in 1..(Len(chain) - 1) : chain'[j] = chain[j]
    BY <1>2, <1>4 DEF DisconnectTip
  <2>2. CheckedVotes'
    <3> SUFFICES ASSUME NEW i \in DOMAIN chain' \ {1}
                 PROVE  CheckVotes(chain'[i].voted, chain'[i - 1].node)
      BY DEF CheckedVotes, CheckVotes, checkAllowedVotes
    <3>1. i \in DOMAIN chain \ {1} /\ chain'[i] = chain[i] /\ chain'[i - 1] = chain[i - 1]
      BY <1>2, <2>1
    <3>2. QED
      BY <3>1 DEF LInv, CheckedVotes
  <2>3. QED
    BY <1>1, <2>2 DEF LInv
<1>5. CASE UNCHANGED vars
  BY <1>1, <1>5 DEF LInv, CheckedVotes, CheckVotes, checkAllowedVotes, vars
<1>6. QED
  BY <1>3, <1>4, <1>5 DEF Next

\* What a prefix of the chain says about the tickets depends on nothing else.
LEMMA StatusPrefix ==
  ASSUME NEW n \in Nat, \A j \in 1..n : chain'[j] = chain[j], NEW i \in 1..n
  PROVE  StatusMap(i)' = StatusMap(i)
<1>1. \A j \in 1..i : chain'[j] = chain[j]
  OBVIOUS
<1>2. VotedBy(i)' = VotedBy(i) /\ BoughtBy(i)' = BoughtBy(i) /\ MaturedBy(i)' = MaturedBy(i)
  BY <1>1 DEF VotedBy, BoughtBy, MaturedBy
<1>3. chain'[i].node = chain[i].node
  BY <1>1
<1>4. \A t \in Tickets : StatusAt(i, t)' = StatusAt(i, t)
  BY <1>2, <1>3 DEF StatusAt
<1>5. QED
  BY <1>4 DEF StatusMap

\* The state the chain stands for.
History == [i \in DOMAIN chain |-> StatusMap(i)]

HistoryOK ==
  /\ Len(History) = Len(chain) /\ Len(chain) \in Nat \ {0}
  /\ DOMAIN chain = 1..Len(chain)
  /\ \A i \in 1..Len(chain) : History[i] = StatusMap(i)
  /\ \E T : History \in Seq(T)

\* It is a sequence, as long as the chain.
LEMMA HistoryShape == IsChain => HistoryOK
<1> SUFFICES ASSUME IsChain PROVE HistoryOK
  OBVIOUS
<1>1. Len(chain) \in Nat \ {0} /\ DOMAIN chain = 1..Len(chain)
  BY DEF IsChain
<1>2. History = [i \in 1..Len(chain) |-> StatusMap(i)]
  BY <1>1 DEF History
<1>3. \A i \in 1..Len(chain) :
        StatusMap(i) \in [Tickets -> {StatusAt(j, t) : j \in DOMAIN chain, t \in Tickets}]
  BY <1>1 DEF StatusMap
<1>4. History \in Seq([Tickets -> {StatusAt(i, t) : i \in DOMAIN chain, t \in Tickets}])
  BY <1>1, <1>2, <1>3
<1>5. Len(History) = Len(chain) /\ \A i \in 1..Len(chain) : History[i] = StatusMap(i)
  BY <1>1, <1>2
<1>6. \E T : History \in Seq(T)
  BY <1>4
<1>7. QED
  BY <1>1, <1>5, <1>6 DEF HistoryOK

\* The state invariants in the next state too.
LEMMA PrimedFacts ==
  /\ IsChain' => HistoryOK'
  /\ LInv' => (\A i \in DOMAIN chain \ {1} :
                 Lifecycle!BlockMoves(StatusMap(i - 1), StatusMap(i)))'
<1>1. LInv => \A i \in DOMAIN chain \ {1} : Lifecycle!BlockMoves(StatusMap(i - 1), StatusMap(i))
  BY PairMoves
<1>2. IsChain' => HistoryOK'
  BY HistoryShape, PTL
<1>3. QED
  BY <1>1, <1>2, PTL

\* The genesis block stands for the history in which no ticket is bought.
LEMMA InitRefines == Init => Lifecycle!Init
<1> SUFFICES ASSUME Init PROVE History = << [t \in Tickets |-> "unbought"] >>
  BY DEF Lifecycle!Init, History, StatusMap
<1>1. DOMAIN chain = 1..1 /\ chain[1] = genesisBlock /\ 1..1 = {1}
  BY DEF Init
<1>2. /\ chain[1].node = genesisNode
      /\ chain[1].voted = {} /\ chain[1].bought = {}
  BY <1>1 DEF genesisBlock
<1>3. VotedBy(1) = {} /\ BoughtBy(1) = {}
  BY <1>1, <1>2 DEF VotedBy, BoughtBy
<1>4. /\ DOMAIN genesisNode.live = {} /\ DOMAIN genesisNode.missed = {}
      /\ DOMAIN genesisNode.revoked = {}
  BY EmptyIsTreap DEF genesisNode
<1>5. \A t \in Tickets : StatusAt(1, t) = "unbought"
  BY <1>2, <1>3, <1>4 DEF StatusAt
<1>6. StatusMap(1) = [t \in Tickets |-> "unbought"]
  BY <1>5 DEF StatusMap
<1>7. QED
  BY <1>1, <1>6 DEF History

\* Every step of the chain is a step of the life cycle or leaves it alone.
LEMMA StepRefines ==
  ASSUME LInv, LInv', [Next]_vars
  PROVE  [Lifecycle!Next]_(Lifecycle!vars)
<1>1. PICK S : chain \in Seq(S)
  BY DEF LInv, IInv, IsChain
<1>2. PICK n \in Nat \ {0} :
        /\ Len(History) = n /\ n = Len(chain) /\ DOMAIN chain = 1..n
        /\ \A i \in 1..n : History[i] = StatusMap(i)
        /\ \E T : History \in Seq(T)
  BY HistoryShape DEF LInv, IInv, HistoryOK
<1>3. /\ Len(History') = Len(chain') /\ DOMAIN chain' = 1..Len(chain')
      /\ \A i \in 1..Len(chain') : History'[i] = StatusMap(i)'
  BY PrimedFacts DEF LInv, IInv, HistoryOK
<1>4. CASE Connect
  <2>1. PICK b : chain' = Append(chain, b)
    BY <1>4 DEF Connect, ConnectBlock
  <2>2. Len(chain') = n + 1 /\ \A j \in 1..n : chain'[j] = chain[j]
    <3>1. chain \in Seq(S \cup {b})
      BY <1>1
    <3>2. QED
      BY <1>2, <2>1, <3>1
  <2>3. \A i \in 1..n : StatusMap(i)' = StatusMap(i)
    BY <1>2, <2>2, StatusPrefix
  <2>4. Lifecycle!BlockMoves(StatusMap(n)', StatusMap(n + 1)')
    <3>1. \A i \in DOMAIN chain' \ {1} : Lifecycle!BlockMoves(StatusMap(i - 1)', StatusMap(i)')
      BY PrimedFacts
    <3>2. n + 1 \in DOMAIN chain' \ {1} /\ (n + 1) - 1 = n
      BY <1>2, <1>3, <2>2, SMTT(30)
    <3>3. QED
      BY <3>1, <3>2
  <2>5. Lifecycle!BlockMoves(History[Len(History)], History'[Len(History) + 1])
    BY <1>2, <1>3, <2>2, <2>3, <2>4
  <2>6. /\ Len(History') = Len(History) + 1
        /\ \A i \in 1..Len(History) : History'[i] = History[i]
    BY <1>2, <1>3, <2>2, <2>3
  <2>7. Lifecycle!Extend
    BY <2>5, <2>6 DEF Lifecycle!Extend, History, StatusMap
  <2>8. QED
    BY <2>7 DEF Lifecycle!Next
<1>5. CASE DisconnectTip
  <2>1. n > 1 /\ Len(chain') = n - 1 /\ \A j \in 1..(n - 1) : chain'[j] = chain[j]
    BY <1>1, <1>2, <1>5 DEF DisconnectTip
  <2>2. \A i \in 1..(n - 1) : StatusMap(i)' = StatusMap(i)
    <3>1. PICK m \in Nat : m = n - 1
      BY <2>1
    <3>2. \A j \in 1..m : chain'[j] = chain[j]
      BY <2>1, <3>1
    <3>3. \A i \in 1..m : StatusMap(i)' = StatusMap(i)
      BY <3>2, StatusPrefix
    <3>4. QED
      BY <3>1, <3>3
  <2>3. History' = SubSeq(History, 1, Len(History) - 1)
    <3>1. SubSeq(History, 1, n - 1) = [i \in 1..(n - 1) |-> History[i]]
      BY <1>2, <2>1
    <3>2. History' = [i \in 1..(n - 1) |-> StatusMap(i)']
      BY <1>3, <2>1 DEF History
    <3>3. QED
      BY <1>2, <2>1, <2>2, <3>1, <3>2
  <2>4. Lifecycle!Retract
    BY <1>2, <2>1, <2>3 DEF Lifecycle!Retract, History, StatusMap
  <2>5. QED
    BY <2>4 DEF Lifecycle!Next
<1>6. CASE UNCHANGED vars
  <2>1. chain' = chain
    BY <1>6 DEF vars
  <2>2. \A i \in 1..n : StatusMap(i)' = StatusMap(i)
    BY <1>2, <2>1, StatusPrefix
  <2>3. History' = History
    BY <1>2, <2>1, <2>2 DEF History
  <2>4. QED
    BY <2>3 DEF Lifecycle!vars, History, StatusMap
<1>7. QED
  BY <1>4, <1>5, <1>6 DEF Next

\* Connecting and disconnecting blocks implements the ticket life cycle: a block
\* moves each ticket along one edge, calls no tickets or nTicketsPerBlock, most
\* of which vote, and disconnecting takes every status back.
THEOREM Refinement == Spec => LifecycleSpec
<1>1. Init => LInv
  <2>1. Init => DOMAIN chain = {1}
    BY DEF Init
  <2>2. QED
    BY <2>1, InitInv DEF LInv, CheckedVotes
<1>2. LInv /\ [Next]_vars => LInv'
  BY CheckedNext
<1>3. LInv /\ LInv' /\ [Next]_vars => [Lifecycle!Next]_(Lifecycle!vars)
  BY StepRefines
<1>4. QED
  BY <1>1, <1>2, <1>3, InitRefines, PTL DEF Spec, LifecycleSpec, Lifecycle!Spec
=============================================================================
