------------------------------ MODULE StakeNode ------------------------------
(***************************************************************************)
(* The ticket pools as of one block: src/stake/stakenode.{h,cpp}.          *)
(*                                                                         *)
(* A stake node is an immutable record: its height, the live, missed and   *)
(* revoked treaps, the undo data of its block, the tickets that matured in *)
(* it, the tickets its block called to vote in the next block and the      *)
(* lottery state.  ConnectNode makes the child's node from the parent's,   *)
(* DisconnectNode makes the parent's from the child's.                     *)
(*                                                                         *)
(* A treap is modelled as a function from the tickets it holds to their    *)
(* values (module TicketTreap models the tree and shows that it is such a  *)
(* function).  Hashes are opaque: the final lottery state is the tuple of  *)
(* what is hashed.                                                         *)
(***************************************************************************)
EXTENDS Integers, Sequences, FiniteSets

CONSTANTS
  Tickets,                 \* hashes of ticket purchases
  IVs,                     \* lottery seeds (hashes of block headers)
  Draw(_, _),              \* Draw(iv, live): the tickets a seed selects, in order
  nTicketsPerBlock,        \* tickets called by each block
  nTicketExpiry,           \* blocks a ticket stays live
  nStakeEnabledHeight,     \* first height at which tickets mature
  nStakeValidationHeight   \* first height at which blocks must carry votes

\* The promise of Hash256PRNG::FindTicketIdxs and TicketTreap::fetchWinners:
\* given a pool that is large enough, exactly nTicketsPerBlock distinct tickets
\* of it (module Lottery checks the index generator against this promise).
DrawSelects(iv, live) ==
  /\ Draw(iv, live) \in [1..nTicketsPerBlock -> live]
  /\ \A i, j \in 1..nTicketsPerBlock :
       Draw(iv, live)[i] = Draw(iv, live)[j] => i = j

ASSUME ParamsAssumption ==
  /\ nTicketsPerBlock \in Nat \ {0}
  /\ nTicketExpiry \in Nat \ {0}
  /\ nStakeEnabledHeight \in Nat \ {0}
  /\ nStakeValidationHeight \in Nat
  /\ nStakeEnabledHeight <= nStakeValidationHeight

ASSUME DrawAssumption ==
  \A iv \in IVs, live \in SUBSET Tickets :
    ~(Cardinality(live) < nTicketsPerBlock) => DrawSelects(iv, live)

-----------------------------------------------------------------------------
(* Values, treaps and undo data.                                           *)

Value == [height : Nat, missed : BOOLEAN, revoked : BOOLEAN,
          spent : BOOLEAN, expired : BOOLEAN]

MkValue(height, missed, revoked, spent, expired) ==
  [height |-> height, missed |-> missed, revoked |-> revoked,
   spent |-> spent, expired |-> expired]

IsTreap(f) == DOMAIN f \subseteq Tickets /\ f \in [DOMAIN f -> Value]

EmptyTreap == [t \in {} |-> t]

deleteKeys(treap, S) == [t \in DOMAIN treap \ S |-> treap[t]]

putAll(treap, entries) ==
  [t \in DOMAIN treap \cup DOMAIN entries |->
     IF t \in DOMAIN entries THEN entries[t] ELSE treap[t]]

Elems(seq) == {seq[i] : i \in DOMAIN seq}

NoState == << >>

NoNode == [height |-> -1]

NoUndo == <<EmptyTreap, EmptyTreap, EmptyTreap, EmptyTreap>>

genesisNode ==
  [height |-> 0, live |-> EmptyTreap, missed |-> EmptyTreap,
   revoked |-> EmptyTreap, undo |-> NoUndo, called |-> << >>,
   newTickets |-> {}, nextWinners |-> << >>, finalState |-> NoState]

\* StateHash is determined by the seed and by how far the generator ran, that
\* is, by the pool size; the state hashes it together with the winners.
LotteryState(winners, iv, live) == <<winners, iv, Cardinality(DOMAIN live)>>

-----------------------------------------------------------------------------
(* Connecting a block.  The undo data are the entries ConnectNode appends,  *)
(* in the four runs it appends them in: called tickets, expired, revoked,   *)
(* new.  The keys of one run are distinct, so within a run only the order   *)
(* of the called tickets matters; it is kept in "called".                   *)

\* Winners of the parent: spent if they voted, missed if they did not.
CalledRun(node, ticketsVoted) ==
  [t \in Elems(node.nextWinners) |->
     LET v == node.live[t]
     IN MkValue(v.height, t \notin ticketsVoted, v.revoked, t \in ticketsVoted, v.expired)]

toExpireHeight(height) ==
  IF height > nTicketExpiry THEN height - nTicketExpiry ELSE 0

\* Fault: the bound is exclusive.
ExpiredRun_late(live, height) ==
  [t \in {u \in DOMAIN live : live[u].height < toExpireHeight(height)} |->
     LET v == live[t] IN MkValue(v.height, TRUE, v.revoked, v.spent, TRUE)]

\* Every ticket still live whose height is below toExpireHeight + 1.
ExpiredRun(live, height) ==
  [t \in {u \in DOMAIN live : live[u].height < toExpireHeight(height) + 1} |->
     LET v == live[t] IN MkValue(v.height, TRUE, v.revoked, v.spent, TRUE)]

\* Faults: the flag is not set; only expired tickets are revoked.
RevokedRun_unflagged(missed, ticketsRevoked) == [t \in ticketsRevoked |-> missed[t]]

RevokedRun_expiredOnly(missed, ticketsRevoked) ==
  [t \in {u \in ticketsRevoked : missed[u].expired} |->
     LET v == missed[t] IN MkValue(v.height, v.missed, TRUE, v.spent, v.expired)]

RevokedRun(missed, ticketsRevoked) ==
  [t \in ticketsRevoked |->
     LET v == missed[t] IN MkValue(v.height, v.missed, TRUE, v.spent, v.expired)]

NewRun(newTickets, height) ==
  [t \in newTickets |-> MkValue(height, FALSE, FALSE, FALSE, FALSE)]

\* Fault: the tickets that did not vote are not put into the missed treap.
MissedOf_dropped(run) == EmptyTreap

MissedOf(run) ==
  [t \in {u \in DOMAIN run : run[u].missed} |-> run[t]]

\* The pools after the block: votes and expiry and revocations only from
\* nStakeEnabledHeight on, new tickets always.
ConnectPools(node, ticketsVoted, ticketsRevoked, newTickets) ==
  LET height  == node.height + 1
      enabled == height >= nStakeEnabledHeight
      called  == IF enabled THEN CalledRun(node, ticketsVoted) ELSE EmptyTreap
      live1   == deleteKeys(node.live, DOMAIN called)
      expired == IF enabled THEN ExpiredRun(live1, height) ELSE EmptyTreap
      missed1 == putAll(putAll(node.missed, MissedOf(called)), expired)
      revoked == IF enabled THEN RevokedRun(missed1, ticketsRevoked) ELSE EmptyTreap
      new     == NewRun(newTickets, height)
  IN [live    |-> putAll(deleteKeys(live1, DOMAIN expired), new),
      missed  |-> deleteKeys(missed1, DOMAIN revoked),
      revoked |-> putAll(node.revoked, revoked),
      undo    |-> <<called, expired, revoked, new>>]

\* Fault: the first draw comes one block too late.
Drawing_late(height) == height >= nStakeValidationHeight

\* Does the block at this height draw the tickets that vote in the next one?
Drawing(height) == height >= nStakeValidationHeight - 1

\* nullptr (NoNode) when the pool is too small to draw from.
ConnectNode(node, iv, ticketsVoted, ticketsRevoked, newTickets) ==
  LET height  == node.height + 1
      pools   == ConnectPools(node, ticketsVoted, ticketsRevoked, newTickets)
      drawing == Drawing(height)
      winners == IF drawing THEN Draw(iv, DOMAIN pools.live) ELSE << >>
  IN IF drawing /\ Cardinality(DOMAIN pools.live) < nTicketsPerBlock
       THEN NoNode
       ELSE [height      |-> height,
             live        |-> pools.live,
             missed      |-> pools.missed,
             revoked     |-> pools.revoked,
             undo        |-> pools.undo,
             called      |-> IF height >= nStakeEnabledHeight
                               THEN node.nextWinners ELSE << >>,
             newTickets  |-> newTickets,
             nextWinners |-> winners,
             finalState  |-> IF drawing THEN LotteryState(winners, iv, pools.live)
                                        ELSE NoState]

-----------------------------------------------------------------------------
(* Disconnecting a block.  The loop goes forward through the undo data and  *)
(* decides by the flags of each entry what to put where.                    *)

UndoFresh(v)   == ~v.missed /\ ~v.revoked /\ ~v.spent
UndoRevoked(v) == v.missed /\ v.revoked
UndoMissed(v)  == v.missed /\ ~v.revoked
UndoSpent(v)   == ~v.missed /\ v.spent

\* Fault: a winner that did not vote is forgotten.
WasWinner_voted(v) == UndoSpent(v)

WasWinner(v)   == (UndoMissed(v) /\ ~v.expired) \/ UndoSpent(v)

\* Fault: the expired flag stays.
Unmiss_keepExpired(v) == MkValue(v.height, FALSE, v.revoked, v.spent, v.expired)

Unmiss(v)   == MkValue(v.height, FALSE, v.revoked, v.spent, FALSE)
Unspend(v)  == MkValue(v.height, v.missed, v.revoked, FALSE, v.expired)
Unrevoke(v) == MkValue(v.height, v.missed, FALSE, v.spent, v.expired)

UndoRun(pools, run) ==
  LET Where(P(_)) == {t \in DOMAIN run : P(run[t])}
      unmiss   == [t \in Where(UndoMissed) |-> Unmiss(run[t])]
      unspend  == [t \in Where(UndoSpent) |-> Unspend(run[t])]
      unrevoke == [t \in Where(UndoRevoked) |-> Unrevoke(run[t])]
  IN [live    |-> putAll(putAll(deleteKeys(pools.live, Where(UndoFresh)), unmiss), unspend),
      missed  |-> putAll(deleteKeys(pools.missed, Where(UndoMissed)), unrevoke),
      revoked |-> deleteKeys(pools.revoked, Where(UndoRevoked))]

DisconnectPools(node) ==
  UndoRun(UndoRun(UndoRun(UndoRun(
    [live |-> node.live, missed |-> node.missed, revoked |-> node.revoked],
    node.undo[1]), node.undo[2]), node.undo[3]), node.undo[4])

\* The loop has a case for each entry of the undo data; it asserts that there is one.
UndoKnown(node) ==
  \A k \in DOMAIN node.undo : \A t \in DOMAIN node.undo[k] :
    LET v == node.undo[k][t]
    IN  UndoFresh(v) \/ UndoRevoked(v) \/ UndoMissed(v) \/ UndoSpent(v)

\* The elements of a sequence at the positions in keep, in their order: what
\* appending each of them in turn to an empty sequence gives.
KeptAt(seq, keep) ==
  [k \in 1..Cardinality(keep) |->
     seq[CHOOSE i \in keep : Cardinality(keep \cap (1..i)) = k]]

\* parentUndo and parentCalled stand for the parentUtds argument.
DisconnectNode(node, parentIV, parentUndo, parentCalled, parentTickets) ==
  LET pools   == DisconnectPools(node)
      kept    == {i \in DOMAIN node.called : WasWinner(node.undo[1][node.called[i]])}
      winners == KeptAt(node.called, kept)
      drawn   == Drawing(node.height - 1)
  IN IF node.height = 1 THEN genesisNode
     ELSE IF drawn /\ Cardinality(DOMAIN pools.live) < nTicketsPerBlock THEN NoNode
     ELSE [height      |-> node.height - 1,
           live        |-> pools.live,
           missed      |-> pools.missed,
           revoked     |-> pools.revoked,
           undo        |-> parentUndo,
           called      |-> parentCalled,
           newTickets  |-> parentTickets,
           nextWinners |-> winners,
           finalState  |-> IF drawn THEN LotteryState(winners, parentIV, pools.live)
                                    ELSE NoState]
=============================================================================
