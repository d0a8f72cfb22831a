--------------------------- MODULE TicketLifecycle ---------------------------
(***************************************************************************)
(* What the ticket pools promise, without treaps, undo data or caches: a   *)
(* ticket is in one status at each block, a block moves it along the edges *)
(* below, every block that calls tickets calls exactly nTicketsPerBlock of *)
(* them, of which a majority answers, and disconnecting a block takes the  *)
(* statuses back to what they were.                                        *)
(*                                                                         *)
(* history[i] gives the status of every ticket at the block of height i-1. *)
(***************************************************************************)
EXTENDS Integers, Sequences, FiniteSets

CONSTANTS Tickets, nTicketsPerBlock

VARIABLE history

vars == <<history>>

Status == {"unbought", "immature", "live", "voted", "missed", "expired", "revoked"}

Moves ==
  {<<s, s>> : s \in Status} \cup
  {<<"unbought", "immature">>, <<"immature", "live">>,
   <<"live", "voted">>, <<"live", "missed">>, <<"live", "expired">>,
   <<"missed", "revoked">>, <<"expired", "revoked">>}

Moved(old, new, from, to) == {t \in Tickets : old[t] = from /\ new[t] = to}

\* A block moves tickets along the edges; the tickets it calls either vote or
\* are missed, and there are none or nTicketsPerBlock of them.
BlockMoves(old, new) ==
  LET voted  == Moved(old, new, "live", "voted")
      missed == Moved(old, new, "live", "missed")
  IN /\ \A t \in Tickets : <<old[t], new[t]>> \in Moves
     /\ Cardinality(voted \cup missed) \in {0, nTicketsPerBlock}
     /\ Cardinality(voted) >= Cardinality(missed)

Init == history = << [t \in Tickets |-> "unbought"] >>

Extend ==
  /\ Len(history') = Len(history) + 1
  /\ \A i \in 1..Len(history) : history'[i] = history[i]
  /\ BlockMoves(history[Len(history)], history'[Len(history) + 1])

Retract ==
  /\ Len(history) > 1
  /\ history' = SubSeq(history, 1, Len(history) - 1)

Next == Extend \/ Retract

Spec == Init /\ [][Next]_vars
=============================================================================
