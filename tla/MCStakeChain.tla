---------------------------- MODULE MCStakeChain ----------------------------
(* A small instance of StakeChain.  Blocks call three tickets, the smallest *)
(* number of which a block may leave one unanswered.                        *)
EXTENDS StakeChain

CONSTANTS MaxTicket   \* bound: number of tickets ever bought

MCTickets == 1..MaxTicket

\* Seed 0 selects the tickets with the smallest hashes, seed 1 those with the
\* largest, in descending order.
Before(iv, a, b) == IF iv = 0 THEN a < b ELSE a > b

MCDraw(iv, live) ==
  [i \in 1..nTicketsPerBlock |->
     CHOOSE t \in live : Cardinality({u \in live : Before(iv, u, t)}) = i - 1]

\* A block buys nothing or one of three batches, in any order.
MCPurchaseSets == {{}, 1..5, 6..9, 10..MaxTicket}
=============================================================================
