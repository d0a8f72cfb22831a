----------------------------- MODULE CoinsCache -----------------------------
(***************************************************************************)
(* The caches of unspent coins (coins.cpp): pcoinsTip on top of the coin    *)
(* database, and on top of it the view in which a block is connected or     *)
(* disconnected.  Entries are read through the caches, changed in the top   *)
(* one and written down with the flags DIRTY and FRESH.                     *)
(*                                                                          *)
(* pcoinsTip may be flushed, and unchanged entries be dropped from it, while*)
(* a view is open on top of it (ConnectBlock re-admits transactions to the  *)
(* memory pool, which does both).  Memory accounting is left out.           *)
(***************************************************************************)
CONSTANTS
  Outpoints,
  Coins,          \* the coins an outpoint may have
  Spent           \* the coin of an output that is spent, or not there

ASSUME CoinsAssumption == Spent \notin Coins

VARIABLES
  db,             \* the coin database
  tip,            \* cacheCoins of pcoinsTip: an entry or Absent per outpoint
  view,           \* cacheCoins of the view on top of it
  open,           \* there is such a view
  thrown          \* a std::logic_error was thrown

vars == <<db, tip, view, open, thrown>>

Entry == [coin : Coins \cup {Spent}, dirty : BOOLEAN, fresh : BOOLEAN]
Absent == [coin |-> Spent]
Nothing == [o \in Outpoints |-> Absent]

TypeOK ==
  /\ db \in [Outpoints -> Coins \cup {Spent}]
  /\ tip \in [Outpoints -> Entry \cup {Absent}]
  /\ view \in [Outpoints -> Entry \cup {Absent}]
  /\ open \in BOOLEAN /\ thrown \in BOOLEAN

\* The coin of an outpoint read through an entry, and through each cache.
Read(e, below) == IF e = Absent THEN below ELSE e.coin
TipCoin(o) == Read(tip[o], db[o])
ViewCoin(o) == Read(view[o], TipCoin(o))

Init ==
  /\ db \in [Outpoints -> Coins \cup {Spent}]
  /\ tip = Nothing /\ view = Nothing /\ open = FALSE /\ thrown = FALSE

-----------------------------------------------------------------------------
(* One entry of one cache.                                                  *)

\* FetchCoin, when the base gives the coin below: GetCoin of the base fails for
\* spent coins, and then there is no entry.
FetchCoin(e, below) ==
  IF e # Absent \/ below = Spent THEN e
  ELSE [coin |-> below, dirty |-> FALSE, fresh |-> FALSE]

\* AddCoin throws if it must not overwrite the entry's coin.
Refuses(e, overwrite) == ~overwrite /\ e.coin # Spent

AddCoin_fresh(e, coin, overwrite) ==
  [coin |-> coin, dirty |-> TRUE, fresh |-> (e # Absent /\ e.fresh) \/ ~overwrite]
AddCoin(e, coin, overwrite) ==
  [coin |-> coin, dirty |-> TRUE,
   fresh |-> \/ e # Absent /\ e.fresh
             \/ ~overwrite /\ ~(e # Absent /\ e.dirty)]

SpendCoin(e) ==
  IF e = Absent \/ e.fresh THEN Absent ELSE [coin |-> Spent, dirty |-> TRUE, fresh |-> FALSE]

\* BatchWrite: the entry of the parent, p, after the entry e of the child.
Misapplied_pruned(p, e) == e # Absent /\ e.dirty /\ e.fresh /\ p # Absent
Misapplied(p, e) == e # Absent /\ e.dirty /\ e.fresh /\ p.coin # Spent

BatchWrite(p, e) ==
  IF e = Absent \/ ~e.dirty THEN p
  ELSE IF p = Absent
  THEN IF e.fresh /\ e.coin = Spent THEN Absent
       ELSE [coin |-> e.coin, dirty |-> TRUE, fresh |-> e.fresh]
  ELSE IF p.fresh /\ e.coin = Spent THEN Absent
  ELSE [coin |-> e.coin, dirty |-> TRUE, fresh |-> p.fresh]

-----------------------------------------------------------------------------
(* The caches.                                                              *)

\* The entries of o after the top cache looked for it, and the entry on top.
TipFetched(o) == FetchCoin(tip[o], db[o])
ViewFetched(o) == FetchCoin(view[o], TipCoin(o))

\* The top cache gets the entry e for o; a look-up below it left tip with t.
SetTop(o, e, t) ==
  /\ view' = IF open THEN [view EXCEPT ![o] = e] ELSE view
  /\ tip' = [tip EXCEPT ![o] = IF open THEN t ELSE e]

\* What a look-up through the top cache does to pcoinsTip.
Below(o) == IF open /\ view[o] # Absent THEN tip[o] ELSE TipFetched(o)
TopFetched(o) == IF open THEN ViewFetched(o) ELSE TipFetched(o)
TopCoin(o) == IF open THEN ViewCoin(o) ELSE TipCoin(o)
TopEntry(o) == IF open THEN view[o] ELSE tip[o]

\* HaveCoin, GetCoin, AccessCoin
Access(o) == SetTop(o, TopFetched(o), Below(o)) /\ UNCHANGED <<db, open, thrown>>

Spend(o) == SetTop(o, SpendCoin(TopFetched(o)), Below(o)) /\ UNCHANGED <<db, open, thrown>>

\* AddCoins without a check, for a transaction whose outputs are known not to be
\* there; those of a coinbase may be overwritten.
Add(o, c, coinbase) ==
  /\ coinbase \/ TopCoin(o) = Spent
  /\ thrown' = (thrown \/ Refuses(TopEntry(o), coinbase))
  /\ SetTop(o, AddCoin(TopEntry(o), c, coinbase), tip[o])
  /\ UNCHANGED <<db, open>>

\* ApplyTxInUndo, and AddCoins with a check: HaveCoin says whether to overwrite.
\* Where the undo data has no height (nHeight == 0) ApplyTxInUndo looks at other
\* outputs of the transaction first, and gives up if there are none: Access.
Restore(o, c) ==
  /\ thrown' = (thrown \/ Refuses(TopFetched(o), TopCoin(o) # Spent))
  /\ SetTop(o, AddCoin(TopFetched(o), c, TopCoin(o) # Spent), Below(o))
  /\ UNCHANGED <<db, open>>

\* DisconnectDisapprovedTip opens and flushes its view while the one of ConnectTip
\* has no entries yet, so that one view at a time is enough.
Open == ~open /\ open' = TRUE /\ view' = Nothing /\ UNCHANGED <<db, tip, thrown>>

\* Flush of the view
FlushView ==
  /\ open
  /\ tip' = [o \in Outpoints |-> BatchWrite(tip[o], view[o])]
  /\ thrown' = (thrown \/ \E o \in Outpoints : Misapplied(tip[o], view[o]))
  /\ view' = Nothing
  /\ UNCHANGED <<db, open>>

\* The view is destroyed, with what was not flushed.
Close == open /\ open' = FALSE /\ view' = Nothing /\ UNCHANGED <<db, tip, thrown>>

\* Flush of pcoinsTip, with CCoinsViewDB::BatchWrite
FlushTip ==
  /\ db' = [o \in Outpoints |-> IF tip[o] # Absent /\ tip[o].dirty THEN tip[o].coin ELSE db[o]]
  /\ tip' = Nothing
  /\ UNCHANGED <<view, open, thrown>>

Uncached_any(e) == Absent
Uncached(e) == IF e # Absent /\ ~e.dirty /\ ~e.fresh THEN Absent ELSE e
Uncache(o) == tip' = [tip EXCEPT ![o] = Uncached(@)] /\ UNCHANGED <<db, view, open, thrown>>

Next ==
  \/ \E o \in Outpoints :
       \/ Access(o) \/ Spend(o) \/ Uncache(o)
       \/ \E c \in Coins : Restore(o, c) \/ \E coinbase \in BOOLEAN : Add(o, c, coinbase)
  \/ Open \/ FlushView \/ Close \/ FlushTip

Spec == Init /\ [][Next]_vars

-----------------------------------------------------------------------------
\* An entry that is not DIRTY is the coin of the base; "the parent view does not
\* have" an entry that is FRESH, "or it is pruned".
Sound(e, below) ==
  e # Absent => /\ ~e.dirty => e.coin = below /\ ~e.fresh
                /\ e.fresh => below = Spent /\ e.coin # Spent

\* The flags say the truth about the base of each cache, at any time, also after
\* pcoinsTip was flushed or lost entries beneath an open view.
FlagsSound ==
  \A o \in Outpoints : Sound(tip[o], db[o]) /\ Sound(view[o], TipCoin(o))

\* Without an open view there are no entries of one.
ClosedEmpty == ~open => view = Nothing

\* Neither "Adding new coin that replaces non-pruned entry" nor "FRESH flag
\* misapplied" is ever thrown.
NothingThrown == ~thrown

\* Through the caches one sees the coins that were added and not spent: FRESH and
\* DIRTY, look-ups, flushes and evictions never lose or revive a coin.
Abstract == INSTANCE CoinsView WITH
  disk <- db, coins <- [o \in Outpoints |-> TipCoin(o)], draft <- [o \in Outpoints |-> ViewCoin(o)]
CoinsViewSpec == Abstract!Spec
=============================================================================
