----------------------------- MODULE CoinsView -----------------------------
(***************************************************************************)
(* What the stack of coin views promises: the coins on disk, the coins of   *)
(* the active chain and, while a view on top of these is open, a draft.     *)
(* Reading changes nothing; caches do not show.                             *)
(***************************************************************************)
CONSTANTS Outpoints, Coins, Spent

VARIABLES disk, coins, draft, open

vars == <<disk, coins, draft, open>>

Init ==
  /\ disk \in [Outpoints -> Coins \cup {Spent}]
  /\ coins = disk /\ draft = disk /\ open = FALSE

Change(o, c) ==
  /\ draft' = [draft EXCEPT ![o] = c]
  /\ coins' = IF open THEN coins ELSE draft'
  /\ UNCHANGED <<disk, open>>

Open == ~open /\ open' = TRUE /\ UNCHANGED <<disk, coins, draft>>
Commit == open /\ coins' = draft /\ UNCHANGED <<disk, draft, open>>
Close == open /\ open' = FALSE /\ draft' = coins /\ UNCHANGED <<disk, coins>>
Sync == disk' = coins /\ UNCHANGED <<coins, draft, open>>

Next ==
  \/ \E o \in Outpoints, c \in Coins \cup {Spent} : Change(o, c)
  \/ Open \/ Commit \/ Close \/ Sync

Spec == Init /\ [][Next]_vars
=============================================================================
