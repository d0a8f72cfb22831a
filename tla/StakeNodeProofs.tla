-------------------------- MODULE StakeNodeProofs ---------------------------
(***************************************************************************)
(* Proofs about single stake nodes, for every value of the constants: what *)
(* ConnectNode makes of a good node and a checked block (another good node,*)
(* whose treaps lost the tickets that voted, gained the ones that matured  *)
(* and hold none that is overdue), and that DisconnectNode takes it back   *)
(* from the undo data, values included.                                    *)
(***************************************************************************)
EXTENDS StakeChain, TLAPS, FiniteSetTheorems

\* What every node of a chain satisfies, whatever block it is the node of.
GoodTreaps(node) ==
  /\ node.height \in Nat
  /\ IsTreap(node.live) /\ IsTreap(node.missed) /\ IsTreap(node.revoked)
  /\ FlagsOK(node)
  /\ PoolsDisjoint(node)
  /\ Elems(node.nextWinners) \subseteq DOMAIN node.live

(***************************************************************************)
(* Lemmas about the operators on treaps.                                   *)
(***************************************************************************)

\* Deleting keys from a treap leaves the values of the others alone.
LEMMA DeleteTreap ==
  ASSUME NEW f, IsTreap(f), NEW S
  PROVE  /\ IsTreap(deleteKeys(f, S))
         /\ DOMAIN deleteKeys(f, S) = DOMAIN f \ S
         /\ \A t \in DOMAIN f \ S : deleteKeys(f, S)[t] = f[t]
BY DEF IsTreap, deleteKeys

\* Putting entries into a treap overrides exactly their keys.
LEMMA PutTreap ==
  ASSUME NEW f, IsTreap(f), NEW g, IsTreap(g)
  PROVE  /\ IsTreap(putAll(f, g))
         /\ DOMAIN putAll(f, g) = DOMAIN f \cup DOMAIN g
         /\ \A t \in DOMAIN g : putAll(f, g)[t] = g[t]
         /\ \A t \in DOMAIN f \ DOMAIN g : putAll(f, g)[t] = f[t]
BY DEF IsTreap, putAll

\* The entry for each called ticket: spent or missed, nothing else changed.
LEMMA CalledTreap ==
  ASSUME NEW node, GoodTreaps(node), NEW voted
  PROVE  LET run == CalledRun(node, voted) IN
         /\ IsTreap(run)
         /\ DOMAIN run = Elems(node.nextWinners)
         /\ \A t \in DOMAIN run :
              /\ run[t].height = node.live[t].height
              /\ run[t].missed <=> t \notin voted
              /\ run[t].spent <=> t \in voted
              /\ ~run[t].revoked /\ ~run[t].expired
<1> DEFINE run == CalledRun(node, voted)
<1>1. DOMAIN run = Elems(node.nextWinners)
  BY DEF CalledRun
<1>2. ASSUME NEW t \in DOMAIN run
      PROVE  /\ run[t] \in Value
             /\ run[t].height = node.live[t].height
             /\ run[t].missed <=> t \notin voted
             /\ run[t].spent <=> t \in voted
             /\ ~run[t].revoked /\ ~run[t].expired
  <2>1. t \in DOMAIN node.live /\ node.live[t] \in Value
    BY <1>1 DEF GoodTreaps, IsTreap
  <2>2. run[t] = MkValue(node.live[t].height, t \notin voted, node.live[t].revoked,
                         t \in voted, node.live[t].expired)
    BY <1>1 DEF CalledRun
  <2>3. ~node.live[t].revoked /\ ~node.live[t].expired
    BY <2>1 DEF GoodTreaps, FlagsOK
  <2>4. /\ (t \in voted) \in BOOLEAN /\ (t \notin voted) \in BOOLEAN
        /\ node.live[t].height \in Nat
        /\ node.live[t].revoked \in BOOLEAN /\ node.live[t].expired \in BOOLEAN
    BY <2>1 DEF Value
  <2>5. /\ run[t] \in Value
        /\ run[t].height = node.live[t].height
        /\ run[t].missed = (t \notin voted)
        /\ run[t].revoked = node.live[t].revoked
        /\ run[t].spent = (t \in voted)
        /\ run[t].expired = node.live[t].expired
    <3> HIDE DEF run
    <3>1. QED BY <2>2, <2>4 DEF MkValue, Value
  <2>6. QED
    BY <2>3, <2>5, Zenon
<1>3. IsTreap(run)
  <2>1. DOMAIN run \subseteq Tickets
    BY <1>1 DEF GoodTreaps, IsTreap
  <2>2. run = [t \in DOMAIN run |-> run[t]]
    BY <1>1 DEF CalledRun
  <2>3. QED
    BY <2>1, <2>2, <1>2 DEF IsTreap
<1>4. QED
  BY <1>1, <1>2, <1>3

\* The entry for each expiring ticket.
LEMMA ExpiredTreap ==
  ASSUME NEW live, IsTreap(live), NEW h \in Nat,
         \A t \in DOMAIN live : ~live[t].revoked /\ ~live[t].spent
  PROVE  LET run == ExpiredRun(live, h) IN
         /\ IsTreap(run)
         /\ DOMAIN run = {t \in DOMAIN live : live[t].height < toExpireHeight(h) + 1}
         /\ \A t \in DOMAIN run :
              /\ run[t].height = live[t].height
              /\ run[t].missed /\ run[t].expired /\ ~run[t].revoked /\ ~run[t].spent
<1> DEFINE run == ExpiredRun(live, h)
<1>1. DOMAIN run = {t \in DOMAIN live : live[t].height < toExpireHeight(h) + 1}
  BY DEF ExpiredRun
<1>2. ASSUME NEW t \in DOMAIN run
      PROVE  /\ run[t] \in Value
             /\ run[t].height = live[t].height
             /\ run[t].missed /\ run[t].expired /\ ~run[t].revoked /\ ~run[t].spent
  <2>1. t \in DOMAIN live /\ live[t] \in Value /\ ~live[t].revoked /\ ~live[t].spent
    BY <1>1 DEF IsTreap
  <2>2. run[t] = MkValue(live[t].height, TRUE, live[t].revoked, live[t].spent, TRUE)
    BY <1>1 DEF ExpiredRun
  <2> HIDE DEF run
  <2>3. QED
    BY <2>1, <2>2 DEF MkValue, Value
<1>3. IsTreap(run)
  <2>1. DOMAIN run \subseteq Tickets
    BY <1>1 DEF IsTreap
  <2>2. run = [t \in DOMAIN run |-> run[t]]
    BY <1>1 DEF ExpiredRun
  <2> HIDE DEF run
  <2>3. QED
    BY <2>1, <2>2, <1>2 DEF IsTreap
<1>4. QED
  BY <1>1, <1>2, <1>3

\* The entry for each revoked ticket.
LEMMA RevokedTreap ==
  ASSUME NEW missed, IsTreap(missed), NEW R \in SUBSET DOMAIN missed,
         \A t \in DOMAIN missed : missed[t].missed /\ ~missed[t].spent
  PROVE  LET run == RevokedRun(missed, R) IN
         /\ IsTreap(run)
         /\ DOMAIN run = R
         /\ \A t \in DOMAIN run :
              /\ run[t].height = missed[t].height
              /\ run[t].missed /\ run[t].revoked /\ ~run[t].spent
              /\ run[t].expired <=> missed[t].expired
<1> DEFINE run == RevokedRun(missed, R)
<1>1. DOMAIN run = R
  BY DEF RevokedRun
<1>2. ASSUME NEW t \in DOMAIN run
      PROVE  /\ run[t] \in Value
             /\ run[t].height = missed[t].height
             /\ run[t].missed /\ run[t].revoked /\ ~run[t].spent
             /\ run[t].expired <=> missed[t].expired
  <2>1. t \in DOMAIN missed /\ missed[t] \in Value /\ missed[t].missed /\ ~missed[t].spent
    BY <1>1 DEF IsTreap
  <2>2. run[t] = MkValue(missed[t].height, missed[t].missed, TRUE, missed[t].spent, missed[t].expired)
    BY <1>1 DEF RevokedRun
  <2> HIDE DEF run
  <2>3. QED
    BY <2>1, <2>2 DEF MkValue, Value
<1>3. IsTreap(run)
  <2>1. DOMAIN run \subseteq Tickets
    BY <1>1 DEF IsTreap
  <2>2. run = [t \in DOMAIN run |-> run[t]]
    BY <1>1 DEF RevokedRun
  <2> HIDE DEF run
  <2>3. QED
    BY <2>1, <2>2, <1>2 DEF IsTreap
<1>4. QED
  BY <1>1, <1>2, <1>3

\* The entry for each maturing ticket.
LEMMA NewTreap ==
  ASSUME NEW N \in SUBSET Tickets, NEW h \in Nat
  PROVE  LET run == NewRun(N, h) IN
         /\ IsTreap(run)
         /\ DOMAIN run = N
         /\ \A t \in N : /\ run[t].height = h
                         /\ ~run[t].missed /\ ~run[t].revoked
                         /\ ~run[t].spent /\ ~run[t].expired
BY DEF NewRun, MkValue, Value, IsTreap

\* The called tickets that go to the missed treap.
LEMMA MissedOfTreap ==
  ASSUME NEW run, IsTreap(run)
  PROVE  /\ IsTreap(MissedOf(run))
         /\ DOMAIN MissedOf(run) = {t \in DOMAIN run : run[t].missed}
         /\ \A t \in DOMAIN MissedOf(run) : MissedOf(run)[t] = run[t]
BY DEF MissedOf, IsTreap

\* A treap without entries.
LEMMA EmptyIsTreap == IsTreap(EmptyTreap) /\ DOMAIN EmptyTreap = {}
BY DEF IsTreap, EmptyTreap

(***************************************************************************)
(* What ConnectNode does to the treaps.                                    *)
(***************************************************************************)

\* The four runs of undo data of the child of node.
CalledOf(node, V) ==
  IF node.height + 1 >= nStakeEnabledHeight THEN CalledRun(node, V) ELSE EmptyTreap

ExpiredOf(node, V) ==
  IF node.height + 1 >= nStakeEnabledHeight
    THEN ExpiredRun(deleteKeys(node.live, DOMAIN CalledOf(node, V)), node.height + 1)
    ELSE EmptyTreap

AllMissedOf(node, V) ==
  putAll(putAll(node.missed, MissedOf(CalledOf(node, V))), ExpiredOf(node, V))

RevokedOf(node, V, R) ==
  IF node.height + 1 >= nStakeEnabledHeight
    THEN RevokedRun(AllMissedOf(node, V), R) ELSE EmptyTreap

\* ConnectPools, with its steps named.
LEMMA ConnectPoolsSteps ==
  ASSUME NEW node, NEW V, NEW R, NEW N
  PROVE  LET p == ConnectPools(node, V, R, N)
             live1 == deleteKeys(node.live, DOMAIN CalledOf(node, V))
             new == NewRun(N, node.height + 1)
         IN /\ p.live = putAll(deleteKeys(live1, DOMAIN ExpiredOf(node, V)), new)
            /\ p.missed = deleteKeys(AllMissedOf(node, V), DOMAIN RevokedOf(node, V, R))
            /\ p.revoked = putAll(node.revoked, RevokedOf(node, V, R))
            /\ p.undo = <<CalledOf(node, V), ExpiredOf(node, V), RevokedOf(node, V, R), new>>
BY Zenon DEF ConnectPools, CalledOf, ExpiredOf, AllMissedOf, RevokedOf

\* C and E are what a block makes of the called and of the expiring tickets.
CalledExpiredOK(node, V, C, E) ==
  /\ IsTreap(C) /\ IsTreap(E)
  /\ DOMAIN C \subseteq Elems(node.nextWinners)
  /\ DOMAIN C \subseteq DOMAIN node.live
  /\ DOMAIN E \subseteq DOMAIN node.live \ DOMAIN C
  /\ \A t \in DOMAIN C :
       /\ C[t].height = node.live[t].height
       /\ C[t].missed <=> t \notin V
       /\ C[t].spent <=> t \in V
       /\ ~C[t].revoked /\ ~C[t].expired
  /\ \A t \in DOMAIN E :
       /\ E[t].height = node.live[t].height
       /\ E[t].missed /\ E[t].expired /\ ~E[t].revoked /\ ~E[t].spent
  /\ node.height + 1 >= nStakeEnabledHeight =>
       /\ DOMAIN C = Elems(node.nextWinners)
       /\ \A t \in DOMAIN node.live \ (DOMAIN C \cup DOMAIN E) :
            (node.height + 1) - node.live[t].height < nTicketExpiry
  /\ node.height + 1 < nStakeEnabledHeight => DOMAIN C = {} /\ DOMAIN E = {}

\* The called and the expiring tickets are disjoint sets of live tickets, and no
\* other live ticket is due to expire.
LEMMA CalledExpired ==
  ASSUME NEW node, GoodTreaps(node), NEW V
  PROVE  CalledExpiredOK(node, V, CalledOf(node, V), ExpiredOf(node, V))
<1> DEFINE C == CalledOf(node, V)
           E == ExpiredOf(node, V)
           L == deleteKeys(node.live, DOMAIN C)
           h == node.height + 1
<1>0. h \in Nat /\ nStakeEnabledHeight \in Nat /\ nTicketExpiry \in Nat
  BY ParamsAssumption DEF GoodTreaps
<1>1. CASE h < nStakeEnabledHeight
  <2>1. C = EmptyTreap /\ E = EmptyTreap
    BY <1>0, <1>1 DEF CalledOf, ExpiredOf
  <2>2. QED
    BY <2>1, <1>0, <1>1, EmptyIsTreap DEF CalledExpiredOK
<1>2. CASE h >= nStakeEnabledHeight
  <2>1. /\ IsTreap(C) /\ DOMAIN C = Elems(node.nextWinners)
        /\ \A t \in DOMAIN C :
             /\ C[t].height = node.live[t].height
             /\ C[t].missed <=> t \notin V
             /\ C[t].spent <=> t \in V
             /\ ~C[t].revoked /\ ~C[t].expired
    BY <1>2, CalledTreap DEF CalledOf
  <2>2. DOMAIN C \subseteq DOMAIN node.live
    BY <2>1 DEF GoodTreaps
  <2>3. /\ IsTreap(L) /\ DOMAIN L = DOMAIN node.live \ DOMAIN C
        /\ \A t \in DOMAIN L : L[t] = node.live[t]
    <3> HIDE DEF C
    <3>1. IsTreap(node.live)
      BY DEF GoodTreaps
    <3>2. QED
      BY <3>1 DEF deleteKeys, IsTreap
  <2>4. E = ExpiredRun(L, h)
    BY <1>2 DEF ExpiredOf
  <2> HIDE DEF C, E, L, h
  <2>5. \A t \in DOMAIN L : ~L[t].revoked /\ ~L[t].spent
    BY <2>3 DEF GoodTreaps, FlagsOK
  <2>6. /\ IsTreap(E)
        /\ DOMAIN E = {t \in DOMAIN L : L[t].height < toExpireHeight(h) + 1}
        /\ \A t \in DOMAIN E :
             /\ E[t].height = L[t].height
             /\ E[t].missed /\ E[t].expired /\ ~E[t].revoked /\ ~E[t].spent
    <3>1. h \in Nat
      BY <1>0
    <3>2. IsTreap(L)
      BY <2>3
    <3>3. QED
      BY <3>1, <3>2, <2>4, <2>5, ExpiredTreap, Zenon
  <2>7. \A t \in DOMAIN L \ DOMAIN E : h - L[t].height < nTicketExpiry
    <3> SUFFICES ASSUME NEW t \in DOMAIN L \ DOMAIN E
                 PROVE  h - L[t].height < nTicketExpiry
      OBVIOUS
    <3>1. L[t].height \in Nat
      BY <2>3 DEF IsTreap, Value
    <3>2. ~(L[t].height < toExpireHeight(h) + 1)
      BY <2>6
    <3>3. QED
      BY <3>1, <3>2, <1>0 DEF toExpireHeight
  <2>8. DOMAIN E \subseteq DOMAIN node.live \ DOMAIN C
    BY <2>3, <2>6
  <2>9. \A t \in DOMAIN E :
           /\ E[t].height = node.live[t].height
           /\ E[t].missed /\ E[t].expired /\ ~E[t].revoked /\ ~E[t].spent
    BY <2>3, <2>6
  <2>10. \A t \in DOMAIN node.live \ (DOMAIN C \cup DOMAIN E) :
            h - node.live[t].height < nTicketExpiry
    BY <2>3, <2>7
  <2>11. ~(h < nStakeEnabledHeight)
    BY <1>0, <1>2
  <2>12. /\ IsTreap(C) /\ IsTreap(E)
         /\ DOMAIN C = Elems(node.nextWinners)
         /\ \A t \in DOMAIN C :
              /\ C[t].height = node.live[t].height
              /\ C[t].missed <=> t \notin V
              /\ C[t].spent <=> t \in V
              /\ ~C[t].revoked /\ ~C[t].expired
    BY <2>1, <2>6
  <2>13. h >= nStakeEnabledHeight =>
            /\ DOMAIN C = Elems(node.nextWinners)
            /\ \A t \in DOMAIN node.live \ (DOMAIN C \cup DOMAIN E) :
                 h - node.live[t].height < nTicketExpiry
    BY <2>10, <2>12
  <2>14. h < nStakeEnabledHeight => DOMAIN C = {} /\ DOMAIN E = {}
    BY <2>11
  <2>15. DOMAIN C \subseteq Elems(node.nextWinners)
    BY <2>12
  <2>16. CalledExpiredOK(node, V, C, E)
    BY <2>2, <2>8, <2>9, <2>12, <2>13, <2>14, <2>15 DEF CalledExpiredOK, h
  <2>17. QED
    BY <2>16 DEF C, E
<1>3. QED
  BY <1>0, <1>1, <1>2

\* M is the missed treap before revocations, C and E the called and the expiring
\* tickets.
AllMissedOK(node, V, C, E, M) ==
  /\ IsTreap(M)
  /\ DOMAIN M = DOMAIN node.missed \cup (DOMAIN C \ V) \cup DOMAIN E
  /\ \A t \in DOMAIN node.missed : M[t] = node.missed[t]
  /\ \A t \in DOMAIN C \ V : M[t] = C[t]
  /\ \A t \in DOMAIN E : M[t] = E[t]
  /\ \A t \in DOMAIN M : M[t].missed /\ ~M[t].revoked /\ ~M[t].spent

\* The missed treap gains the called tickets that did not vote and the expiring
\* ones.
LEMMA AllMissed ==
  ASSUME NEW node, GoodTreaps(node), NEW V
  PROVE  AllMissedOK(node, V, CalledOf(node, V), ExpiredOf(node, V), AllMissedOf(node, V))
<1> DEFINE C == CalledOf(node, V)
           E == ExpiredOf(node, V)
           K == MissedOf(C)
           P == putAll(node.missed, K)
           M == AllMissedOf(node, V)
<1>1. CalledExpiredOK(node, V, C, E)
  BY CalledExpired
<1>2. M = putAll(P, E)
  BY DEF AllMissedOf
<1>3. IsTreap(K) /\ DOMAIN K = DOMAIN C \ V /\ \A t \in DOMAIN K : K[t] = C[t]
  <2> HIDE DEF C
  <2>1. IsTreap(C) /\ \A t \in DOMAIN C : C[t].missed <=> t \notin V
    BY <1>1 DEF CalledExpiredOK
  <2>2. QED
    BY <2>1, MissedOfTreap, Zenon
<1> HIDE DEF C, E, K
<1>4. IsTreap(node.missed)
  BY DEF GoodTreaps
<1>5. /\ IsTreap(P) /\ DOMAIN P = DOMAIN node.missed \cup DOMAIN K
      /\ \A t \in DOMAIN K : P[t] = K[t]
      /\ \A t \in DOMAIN node.missed \ DOMAIN K : P[t] = node.missed[t]
  BY <1>3, <1>4 DEF putAll, IsTreap
<1> HIDE DEF P, M
<1>6. IsTreap(E)
  BY <1>1 DEF CalledExpiredOK
<1>7. /\ IsTreap(M) /\ DOMAIN M = DOMAIN P \cup DOMAIN E
      /\ \A t \in DOMAIN E : M[t] = E[t]
      /\ \A t \in DOMAIN P \ DOMAIN E : M[t] = P[t]
  BY <1>2, <1>5, <1>6 DEF putAll, IsTreap
<1>8. /\ DOMAIN C \subseteq DOMAIN node.live
      /\ DOMAIN E \subseteq DOMAIN node.live \ DOMAIN C
      /\ DOMAIN node.live \cap DOMAIN node.missed = {}
  BY <1>1 DEF CalledExpiredOK, GoodTreaps, PoolsDisjoint
<1>9. /\ DOMAIN M = DOMAIN node.missed \cup (DOMAIN C \ V) \cup DOMAIN E
      /\ \A t \in DOMAIN node.missed : M[t] = node.missed[t]
      /\ \A t \in DOMAIN C \ V : M[t] = C[t]
  BY <1>3, <1>5, <1>7, <1>8
<1>10. ASSUME NEW t \in DOMAIN M
       PROVE  M[t].missed /\ ~M[t].revoked /\ ~M[t].spent
  <2>1. CASE t \in DOMAIN node.missed
    BY <2>1, <1>9 DEF GoodTreaps, FlagsOK
  <2>2. CASE t \in DOMAIN C \ V
    BY <2>2, <1>1, <1>9 DEF CalledExpiredOK
  <2>3. CASE t \in DOMAIN E
    BY <2>3, <1>1, <1>7 DEF CalledExpiredOK
  <2>4. QED
    BY <1>9, <2>1, <2>2, <2>3
<1>11. AllMissedOK(node, V, C, E, M)
  BY <1>7, <1>9, <1>10 DEF AllMissedOK
<1>12. QED
  BY <1>11 DEF C, E, M

\* X is the entry of every ticket in R, which the block revokes.
RevokedOK(node, M, R, X) ==
  /\ IsTreap(X)
  /\ DOMAIN X = IF node.height + 1 >= nStakeEnabledHeight THEN R ELSE {}
  /\ \A t \in DOMAIN X :
       /\ X[t].height = M[t].height
       /\ X[t].missed /\ X[t].revoked /\ ~X[t].spent
       /\ X[t].expired <=> M[t].expired

\* What a block makes of the tickets it revokes.
LEMMA Revoked ==
  ASSUME NEW node, GoodTreaps(node), NEW V, NEW R \in SUBSET DOMAIN node.missed
  PROVE  RevokedOK(node, AllMissedOf(node, V), R, RevokedOf(node, V, R))
<1> DEFINE M == AllMissedOf(node, V)
           X == RevokedOf(node, V, R)
<1>1. /\ IsTreap(M) /\ DOMAIN node.missed \subseteq DOMAIN M
      /\ \A t \in DOMAIN M : M[t].missed /\ ~M[t].spent
  <2>1. AllMissedOK(node, V, CalledOf(node, V), ExpiredOf(node, V), M)
    BY AllMissed
  <2> HIDE DEF M
  <2>2. QED
    BY <2>1 DEF AllMissedOK
<1>2. R \in SUBSET DOMAIN M
  BY <1>1
<1>3. CASE node.height + 1 >= nStakeEnabledHeight
  <2>1. X = RevokedRun(M, R)
    BY <1>3 DEF RevokedOf
  <2> HIDE DEF M, X
  <2>2. RevokedOK(node, M, R, X)
    BY <1>1, <1>2, <1>3, <2>1, RevokedTreap DEF RevokedOK
  <2>3. QED
    BY <2>2 DEF M, X
<1>4. CASE ~(node.height + 1 >= nStakeEnabledHeight)
  <2>1. X = EmptyTreap
    BY <1>4 DEF RevokedOf
  <2>2. QED
    BY <1>4, <2>1, EmptyIsTreap DEF RevokedOK
<1>5. QED
  BY <1>3, <1>4

(***************************************************************************)
(* The node ConnectNode builds.                                            *)
(***************************************************************************)

\* A block whose revocations spend missed tickets, and whose maturing tickets
\* are in no treap yet.
GoodBlock(node, R, N) ==
  /\ R \subseteq DOMAIN node.missed
  /\ N \subseteq Tickets
  /\ N \cap Pooled(node) = {}

\* The contents of the three treaps after the block.
ContentsOK(node, C, E, M, X, W, p) ==
  /\ IsTreap(p.live) /\ IsTreap(p.missed) /\ IsTreap(p.revoked)
  /\ DOMAIN p.live = (DOMAIN node.live \ (DOMAIN C \cup DOMAIN E)) \cup DOMAIN W
  /\ \A t \in DOMAIN node.live \ (DOMAIN C \cup DOMAIN E \cup DOMAIN W) :
       p.live[t] = node.live[t]
  /\ \A t \in DOMAIN W : p.live[t] = W[t]
  /\ DOMAIN p.missed = DOMAIN M \ DOMAIN X
  /\ \A t \in DOMAIN p.missed : p.missed[t] = M[t]
  /\ DOMAIN p.revoked = DOMAIN node.revoked \cup DOMAIN X
  /\ \A t \in DOMAIN node.revoked \ DOMAIN X : p.revoked[t] = node.revoked[t]
  /\ \A t \in DOMAIN X : p.revoked[t] = X[t]

\* ConnectPools in terms of its runs.
LEMMA Contents ==
  ASSUME NEW node, GoodTreaps(node), NEW C, NEW E, NEW M, NEW X, NEW W, NEW p,
         IsTreap(C), IsTreap(E), IsTreap(M), IsTreap(X), IsTreap(W),
         p.live = putAll(deleteKeys(deleteKeys(node.live, DOMAIN C), DOMAIN E), W),
         p.missed = deleteKeys(M, DOMAIN X),
         p.revoked = putAll(node.revoked, X)
  PROVE  ContentsOK(node, C, E, M, X, W, p)
<1>1. IsTreap(node.live) /\ IsTreap(node.revoked)
  BY DEF GoodTreaps
<1>2. /\ IsTreap(p.live)
      /\ DOMAIN p.live = (DOMAIN node.live \ (DOMAIN C \cup DOMAIN E)) \cup DOMAIN W
      /\ \A t \in DOMAIN node.live \ (DOMAIN C \cup DOMAIN E \cup DOMAIN W) :
           p.live[t] = node.live[t]
      /\ \A t \in DOMAIN W : p.live[t] = W[t]
  BY <1>1 DEF IsTreap, putAll, deleteKeys
<1>3. /\ IsTreap(p.missed)
      /\ DOMAIN p.missed = DOMAIN M \ DOMAIN X
      /\ \A t \in DOMAIN p.missed : p.missed[t] = M[t]
  BY DEF IsTreap, deleteKeys
<1>4. /\ IsTreap(p.revoked)
      /\ DOMAIN p.revoked = DOMAIN node.revoked \cup DOMAIN X
      /\ \A t \in DOMAIN node.revoked \ DOMAIN X : p.revoked[t] = node.revoked[t]
      /\ \A t \in DOMAIN X : p.revoked[t] = X[t]
  BY <1>1 DEF IsTreap, putAll
<1>5. QED
  BY <1>2, <1>3, <1>4 DEF ContentsOK

\* What the treaps of a node have to satisfy, seen from its parent.
PoolsOK(node, V, N, p) ==
  /\ IsTreap(p.live) /\ IsTreap(p.missed) /\ IsTreap(p.revoked)
  /\ FlagsOK(p)
  /\ PoolsDisjoint(p)
  /\ Pooled(p) = (Pooled(node) \ (DOMAIN CalledOf(node, V) \cap V)) \cup N
  /\ node.height + 1 >= nStakeEnabledHeight =>
       \A t \in DOMAIN p.live : (node.height + 1) - p.live[t].height < nTicketExpiry

\* The four runs of a block, taken together.
RunsOK(node, V, R, N, C, E, M, X, W) ==
  /\ CalledExpiredOK(node, V, C, E)
  /\ AllMissedOK(node, V, C, E, M)
  /\ RevokedOK(node, M, R, X)
  /\ IsTreap(W) /\ DOMAIN W = N
  /\ \A t \in N : /\ W[t].height = node.height + 1
                  /\ ~W[t].missed /\ ~W[t].revoked /\ ~W[t].spent /\ ~W[t].expired

\* ConnectPools, its runs and the contents they give the treaps.
LEMMA ConnectPoolsRuns ==
  ASSUME NEW node, GoodTreaps(node), NEW V, NEW R, NEW N, GoodBlock(node, R, N)
  PROVE  \E C, E, M, X, W :
           /\ C = CalledOf(node, V)
           /\ RunsOK(node, V, R, N, C, E, M, X, W)
           /\ ContentsOK(node, C, E, M, X, W, ConnectPools(node, V, R, N))
           /\ ConnectPools(node, V, R, N).undo = <<C, E, X, W>>
<1> DEFINE C == CalledOf(node, V)
           E == ExpiredOf(node, V)
           M == AllMissedOf(node, V)
           X == RevokedOf(node, V, R)
           W == NewRun(N, node.height + 1)
           p == ConnectPools(node, V, R, N)
<1>1. CalledExpiredOK(node, V, C, E)
  BY CalledExpired
<1>2. AllMissedOK(node, V, C, E, M)
  BY AllMissed
<1>3. RevokedOK(node, M, R, X)
  BY Revoked DEF GoodBlock
<1>4. /\ IsTreap(W) /\ DOMAIN W = N
      /\ \A t \in N : /\ W[t].height = node.height + 1
                      /\ ~W[t].missed /\ ~W[t].revoked /\ ~W[t].spent /\ ~W[t].expired
  <2>1. N \in SUBSET Tickets /\ node.height + 1 \in Nat
    BY DEF GoodBlock, GoodTreaps
  <2>2. QED
    BY <2>1, NewTreap
<1>5. /\ p.live = putAll(deleteKeys(deleteKeys(node.live, DOMAIN C), DOMAIN E), W)
      /\ p.missed = deleteKeys(M, DOMAIN X)
      /\ p.revoked = putAll(node.revoked, X)
      /\ p.undo = <<C, E, X, W>>
  BY ConnectPoolsSteps
<1> HIDE DEF C, E, M, X, W, p
<1>6. IsTreap(C) /\ IsTreap(E) /\ IsTreap(M) /\ IsTreap(X)
  BY <1>1, <1>2, <1>3 DEF CalledExpiredOK, AllMissedOK, RevokedOK
<1>7. ContentsOK(node, C, E, M, X, W, p)
  BY <1>4, <1>5, <1>6, Contents
<1>8. RunsOK(node, V, R, N, C, E, M, X, W)
  BY <1>1, <1>2, <1>3, <1>4 DEF RunsOK
<1>9. C = CalledOf(node, V)
  BY DEF C
<1>10. QED
  BY <1>5, <1>7, <1>8, <1>9, Zenon DEF p

\* Connecting a block keeps the treaps good, loses exactly the tickets that
\* voted, gains exactly the maturing ones and leaves none overdue.
LEMMA ConnectPoolsGood ==
  ASSUME NEW node, GoodTreaps(node), NEW V, NEW R, NEW N, GoodBlock(node, R, N)
  PROVE  PoolsOK(node, V, N, ConnectPools(node, V, R, N))
<1> DEFINE p == ConnectPools(node, V, R, N)
<1>1. PICK C, E, M, X, W : /\ C = CalledOf(node, V)
                           /\ RunsOK(node, V, R, N, C, E, M, X, W)
                           /\ ContentsOK(node, C, E, M, X, W, p)
  BY ConnectPoolsRuns, Zenon
<1> HIDE DEF p
<1>2. /\ CalledExpiredOK(node, V, C, E)
      /\ AllMissedOK(node, V, C, E, M)
      /\ RevokedOK(node, M, R, X)
      /\ DOMAIN W = N
      /\ \A t \in N : /\ W[t].height = node.height + 1
                      /\ ~W[t].missed /\ ~W[t].revoked /\ ~W[t].spent /\ ~W[t].expired
  BY <1>1 DEF RunsOK
<1>3. /\ DOMAIN C \subseteq DOMAIN node.live
      /\ DOMAIN E \subseteq DOMAIN node.live \ DOMAIN C
      /\ DOMAIN M = DOMAIN node.missed \cup (DOMAIN C \ V) \cup DOMAIN E
      /\ DOMAIN X \subseteq DOMAIN node.missed
      /\ PoolsDisjoint(node) /\ N \cap Pooled(node) = {}
  BY <1>2 DEF CalledExpiredOK, AllMissedOK, RevokedOK, GoodTreaps, GoodBlock
<1>4. /\ DOMAIN p.live = (DOMAIN node.live \ (DOMAIN C \cup DOMAIN E)) \cup N
      /\ DOMAIN p.missed = DOMAIN M \ DOMAIN X
      /\ DOMAIN p.revoked = DOMAIN node.revoked \cup DOMAIN X
  BY <1>1, <1>2 DEF ContentsOK
<1>5. PoolsDisjoint(p)
  BY <1>3, <1>4 DEF PoolsDisjoint, Pooled
<1>6. Pooled(p) = (Pooled(node) \ (DOMAIN C \cap V)) \cup N
  BY <1>3, <1>4 DEF PoolsDisjoint, Pooled
<1>7. FlagsOK(p)
  <2>1. ASSUME NEW t \in DOMAIN p.live
        PROVE  ~p.live[t].missed /\ ~p.live[t].revoked /\ ~p.live[t].spent /\ ~p.live[t].expired
    <3>1. CASE t \in N
      BY <3>1, <1>1, <1>2 DEF ContentsOK
    <3>2. CASE t \notin N
      <4>1. t \in DOMAIN node.live /\ p.live[t] = node.live[t]
        BY <3>2, <1>1, <1>2, <1>4 DEF ContentsOK
      <4>2. QED
        BY <4>1 DEF GoodTreaps, FlagsOK
    <3>3. QED
      BY <3>1, <3>2
  <2>2. ASSUME NEW t \in DOMAIN p.missed
        PROVE  p.missed[t].missed /\ ~p.missed[t].revoked /\ ~p.missed[t].spent
    BY <1>1, <1>2, <1>4 DEF ContentsOK, AllMissedOK
  <2>3. ASSUME NEW t \in DOMAIN p.revoked
        PROVE  p.revoked[t].missed /\ p.revoked[t].revoked /\ ~p.revoked[t].spent
    <3>1. CASE t \in DOMAIN X
      BY <3>1, <1>1, <1>2 DEF ContentsOK, RevokedOK
    <3>2. CASE t \notin DOMAIN X
      BY <3>2, <1>1, <1>4 DEF ContentsOK, GoodTreaps, FlagsOK
    <3>3. QED
      BY <3>1, <3>2
  <2>4. QED
    BY <2>1, <2>2, <2>3 DEF FlagsOK
<1>8. ASSUME node.height + 1 >= nStakeEnabledHeight, NEW t \in DOMAIN p.live
      PROVE  (node.height + 1) - p.live[t].height < nTicketExpiry
  <2>1. CASE t \in N
    <3>1. p.live[t].height = node.height + 1
      BY <2>1, <1>1, <1>2 DEF ContentsOK
    <3>2. QED
      BY <3>1, ParamsAssumption DEF GoodTreaps
  <2>2. CASE t \notin N
    <3>1. t \in DOMAIN node.live \ (DOMAIN C \cup DOMAIN E) /\ p.live[t] = node.live[t]
      BY <2>2, <1>1, <1>2, <1>4 DEF ContentsOK
    <3>2. QED
      BY <3>1, <1>2, <1>8 DEF CalledExpiredOK
  <2>3. QED
    BY <2>1, <2>2
<1>9. PoolsOK(node, V, N, p)
  BY <1>1, <1>5, <1>6, <1>7, <1>8 DEF PoolsOK, ContentsOK
<1>10. QED
  BY <1>9 DEF p

\* What a child's stake node owes to its parent's.
ChildOK(node, V, R, N, child) ==
  /\ child.height = node.height + 1
  /\ child.newTickets = N
  /\ NodeTypeOK(child) /\ GoodTreaps(child) /\ WinnersOK(child) /\ NoneOverdue(child)
  /\ Pooled(child) = (Pooled(node) \ (DOMAIN CalledOf(node, V) \cap V)) \cup N
  /\ DOMAIN child.revoked =
       DOMAIN node.revoked \cup (IF node.height + 1 >= nStakeEnabledHeight THEN R ELSE {})

\* What ConnectNode puts into the fields of a child.
FieldsOK(node, iv, V, R, N, child) ==
  LET h == node.height + 1
      p == ConnectPools(node, V, R, N)
      winners == IF Drawing(h) THEN Draw(iv, DOMAIN p.live) ELSE << >>
  IN  /\ child.height = h
      /\ child.live = p.live /\ child.missed = p.missed /\ child.revoked = p.revoked
      /\ child.undo = p.undo
      /\ child.called = (IF h >= nStakeEnabledHeight THEN node.nextWinners ELSE << >>)
      /\ child.newTickets = N /\ child.nextWinners = winners
      /\ child.finalState = IF Drawing(h) THEN LotteryState(winners, iv, p.live) ELSE NoState
      /\ ~(Drawing(h) /\ Cardinality(DOMAIN p.live) < nTicketsPerBlock)

\* The child has these fields, if there is one.
LEMMA ConnectFields ==
  ASSUME NEW node, NEW iv, NEW V, NEW R, NEW N, NEW child,
         child = ConnectNode(node, iv, V, R, N), child # NoNode
  PROVE  FieldsOK(node, iv, V, R, N, child)
<1> DEFINE h == node.height + 1
           p == ConnectPools(node, V, R, N)
<1>1. ~(Drawing(h) /\ Cardinality(DOMAIN p.live) < nTicketsPerBlock)
  BY Zenon DEF ConnectNode
<1>2. QED
  BY <1>1, Zenon DEF ConnectNode, FieldsOK

\* ConnectNode makes a good node of a good node, or none.
LEMMA ConnectNodeGood ==
  ASSUME NEW node, GoodTreaps(node), NEW iv \in IVs, NEW V, NEW R, NEW N,
         GoodBlock(node, R, N), ConnectNode(node, iv, V, R, N) # NoNode
  PROVE  ChildOK(node, V, R, N, ConnectNode(node, iv, V, R, N))
<1> DEFINE p == ConnectPools(node, V, R, N)
           h == node.height + 1
           drawing == Drawing(h)
           winners == IF drawing THEN Draw(iv, DOMAIN p.live) ELSE << >>
           child == ConnectNode(node, iv, V, R, N)
<1>0. h \in Nat \ {0} /\ nStakeValidationHeight \in Nat /\ nTicketsPerBlock \in Nat
  BY ParamsAssumption DEF GoodTreaps
<1>1. PoolsOK(node, V, N, p)
  BY ConnectPoolsGood
<1>2. /\ DOMAIN p.undo = 1..4 /\ \A k \in 1..4 : IsTreap(p.undo[k])
      /\ DOMAIN p.revoked = DOMAIN node.revoked \cup (IF h >= nStakeEnabledHeight THEN R ELSE {})
  <2>1. PICK C, E, M, X, W : /\ C = CalledOf(node, V)
                             /\ RunsOK(node, V, R, N, C, E, M, X, W)
                             /\ ContentsOK(node, C, E, M, X, W, p)
                             /\ p.undo = <<C, E, X, W>>
    BY ConnectPoolsRuns
  <2> HIDE DEF p
  <2>2. IsTreap(C) /\ IsTreap(E) /\ IsTreap(X) /\ IsTreap(W)
    BY <2>1 DEF RunsOK, CalledExpiredOK, RevokedOK
  <2>3. /\ DOMAIN p.revoked = DOMAIN node.revoked \cup DOMAIN X
        /\ DOMAIN X = IF h >= nStakeEnabledHeight THEN R ELSE {}
    BY <2>1 DEF RunsOK, RevokedOK, ContentsOK
  <2>4. DOMAIN <<C, E, X, W>> = 1..4 /\ \A k \in 1..4 : IsTreap(<<C, E, X, W>>[k])
    BY <2>2
  <2>5. QED
    BY <2>1, <2>3, <2>4
<1>3. FieldsOK(node, iv, V, R, N, child) /\ ~(drawing /\ Cardinality(DOMAIN p.live) < nTicketsPerBlock)
  <2>1. FieldsOK(node, iv, V, R, N, child)
    BY ConnectFields
  <2>2. QED
    BY <2>1, Zenon DEF FieldsOK
<1>4. /\ child.height = h /\ child.live = p.live /\ child.missed = p.missed
      /\ child.revoked = p.revoked /\ child.undo = p.undo
      /\ child.called = (IF h >= nStakeEnabledHeight THEN node.nextWinners ELSE << >>)
      /\ child.newTickets = N /\ child.nextWinners = winners
  BY <1>3, Zenon DEF FieldsOK
<1> HIDE DEF p
<1>5. DOMAIN p.live \subseteq Tickets
  BY <1>1 DEF PoolsOK, IsTreap
<1>6. /\ Elems(winners) \subseteq DOMAIN p.live
      /\ \A j, k \in DOMAIN winners : winners[j] = winners[k] => j = k
      /\ drawing => DOMAIN winners = 1..nTicketsPerBlock
  <2>1. CASE drawing
    <3>1. DrawSelects(iv, DOMAIN p.live)
      BY <2>1, <1>3, <1>5, DrawAssumption
    <3>2. winners = Draw(iv, DOMAIN p.live)
      BY <2>1
    <3> HIDE DEF winners
    <3>3. QED
      BY <3>1, <3>2, Zenon DEF DrawSelects, Elems
  <2>2. CASE ~drawing
    <3>1. winners = << >>
      BY <2>2
    <3> HIDE DEF winners, drawing
    <3>2. QED
      BY <2>2, <3>1 DEF Elems
  <2>3. QED
    BY <2>1, <2>2
<1> HIDE DEF child, winners
<1>7. WinnersOK(child)
  BY <1>0, <1>4, <1>6 DEF WinnersOK, Drawing
<1>8. GoodTreaps(child) /\ NoneOverdue(child) /\ Pooled(child) = Pooled(p)
  <2>1. FlagsOK(child) /\ PoolsDisjoint(child) /\ Pooled(child) = Pooled(p)
    BY <1>1, <1>4 DEF PoolsOK, FlagsOK, PoolsDisjoint, Pooled
  <2>2. NoneOverdue(child)
    BY <1>1, <1>4 DEF PoolsOK, NoneOverdue
  <2>3. QED
    BY <1>0, <1>1, <1>4, <1>6, <2>1, <2>2 DEF PoolsOK, GoodTreaps
<1>9. NodeTypeOK(child)
  <2>1. Elems(child.called) \subseteq Tickets
    <3>1. Elems(node.nextWinners) \subseteq Tickets
      BY DEF GoodTreaps, IsTreap
    <3>2. Elems(<< >>) = {}
      BY DEF Elems
    <3>3. child.called = node.nextWinners \/ child.called = << >>
      BY <1>4
    <3>4. QED
      BY <3>1, <3>2, <3>3
  <2>2. QED
    BY <1>0, <1>1, <1>2, <1>4, <1>5, <1>6, <2>1 DEF PoolsOK, NodeTypeOK, GoodBlock
<1>10. ChildOK(node, V, R, N, child)
  BY <1>1, <1>2, <1>4, <1>7, <1>8, <1>9 DEF ChildOK, PoolsOK
<1>11. QED
  BY <1>10 DEF child

(***************************************************************************)
(* DisconnectNode: from the treaps and the undo data of a block it rebuilds*)
(* the parent's live, missed and revoked treaps.                           *)
(***************************************************************************)

\* A value is determined by its fields.
LEMMA ValueEq ==
  ASSUME NEW v \in Value, NEW w \in Value,
         v.height = w.height, v.missed <=> w.missed, v.revoked <=> w.revoked,
         v.spent <=> w.spent, v.expired <=> w.expired
  PROVE  v = w
BY DEF Value

\* A treap is determined by its keys and values.
LEMMA TreapEq ==
  ASSUME NEW f, IsTreap(f), NEW g, IsTreap(g), DOMAIN f = DOMAIN g,
         \A t \in DOMAIN g : f[t] = g[t]
  PROVE  f = g
BY DEF IsTreap

\* Putting no entries, or deleting no keys, changes nothing.
LEMMA PutNothing ==
  ASSUME NEW f, IsTreap(f), NEW g, DOMAIN g = {}
  PROVE  putAll(f, g) = f
BY DEF IsTreap, putAll

LEMMA DeleteNothing ==
  ASSUME NEW f, IsTreap(f)
  PROVE  deleteKeys(f, {}) = f
BY DEF IsTreap, deleteKeys

\* UndoRun without its local names.
LEMMA UndoRunFields ==
  ASSUME NEW pools, NEW run
  PROVE  LET after    == UndoRun(pools, run)
             fresh    == {t \in DOMAIN run : UndoFresh(run[t])}
             missed   == {t \in DOMAIN run : UndoMissed(run[t])}
             spent    == {t \in DOMAIN run : UndoSpent(run[t])}
             revoked  == {t \in DOMAIN run : UndoRevoked(run[t])}
             unmiss   == [t \in missed |-> Unmiss(run[t])]
             unspend  == [t \in spent |-> Unspend(run[t])]
             unrevoke == [t \in revoked |-> Unrevoke(run[t])]
         IN /\ after.live = putAll(putAll(deleteKeys(pools.live, fresh), unmiss), unspend)
            /\ after.missed = putAll(deleteKeys(pools.missed, missed), unrevoke)
            /\ after.revoked = deleteKeys(pools.revoked, revoked)
BY DEF UndoRun

\* The pools are treaps; a run of called or expired, of revoked, of new tickets.
AreTreaps(pools) == IsTreap(pools.live) /\ IsTreap(pools.missed) /\ IsTreap(pools.revoked)

IsCalledRun(run) ==
  /\ IsTreap(run)
  /\ \A t \in DOMAIN run :
       /\ ~run[t].revoked
       /\ run[t].missed <=> ~run[t].spent
       /\ run[t].expired => run[t].missed

IsRevokedRun(run) ==
  IsTreap(run) /\ \A t \in DOMAIN run : run[t].revoked /\ run[t].missed /\ ~run[t].spent

IsNewRun(run) ==
  IsTreap(run) /\ \A t \in DOMAIN run : ~run[t].revoked /\ ~run[t].missed /\ ~run[t].spent

\* What undoing each of these runs does to the pools.
UndoneCalled(pools, run, after) ==
  /\ IsTreap(after.live) /\ IsTreap(after.missed) /\ after.revoked = pools.revoked
  /\ DOMAIN after.live = DOMAIN pools.live \cup DOMAIN run
  /\ \A t \in DOMAIN pools.live \ DOMAIN run : after.live[t] = pools.live[t]
  /\ \A t \in DOMAIN run :
       /\ after.live[t].height = run[t].height
       /\ ~after.live[t].missed /\ ~after.live[t].revoked
       /\ ~after.live[t].spent /\ ~after.live[t].expired
  /\ DOMAIN after.missed = DOMAIN pools.missed \ {t \in DOMAIN run : run[t].missed}
  /\ \A t \in DOMAIN after.missed : after.missed[t] = pools.missed[t]

UndoneRevocations(pools, run, after) ==
  /\ IsTreap(after.missed) /\ after.live = pools.live
  /\ DOMAIN after.missed = DOMAIN pools.missed \cup DOMAIN run
  /\ \A t \in DOMAIN pools.missed \ DOMAIN run : after.missed[t] = pools.missed[t]
  /\ \A t \in DOMAIN run :
       /\ after.missed[t].height = run[t].height
       /\ after.missed[t].missed /\ ~after.missed[t].revoked /\ ~after.missed[t].spent
       /\ after.missed[t].expired <=> run[t].expired
  /\ IsTreap(after.revoked)
  /\ DOMAIN after.revoked = DOMAIN pools.revoked \ DOMAIN run
  /\ \A t \in DOMAIN after.revoked : after.revoked[t] = pools.revoked[t]

UndoneNew(pools, run, after) ==
  /\ IsTreap(after.live) /\ after.missed = pools.missed /\ after.revoked = pools.revoked
  /\ DOMAIN after.live = DOMAIN pools.live \ DOMAIN run
  /\ \A t \in DOMAIN after.live : after.live[t] = pools.live[t]

\* Undoing the called or the expired tickets: all of them become live again.
LEMMA UndoCalled ==
  ASSUME NEW pools, NEW run, AreTreaps(pools), IsCalledRun(run)
  PROVE  UndoneCalled(pools, run, UndoRun(pools, run))
<1> USE DEF AreTreaps, IsCalledRun
<1> DEFINE after    == UndoRun(pools, run)
           fresh    == {t \in DOMAIN run : UndoFresh(run[t])}
           missed   == {t \in DOMAIN run : UndoMissed(run[t])}
           spent    == {t \in DOMAIN run : UndoSpent(run[t])}
           revoked  == {t \in DOMAIN run : UndoRevoked(run[t])}
           unmiss   == [t \in missed |-> Unmiss(run[t])]
           unspend  == [t \in spent |-> Unspend(run[t])]
           unrevoke == [t \in revoked |-> Unrevoke(run[t])]
<1>1. /\ after.live = putAll(putAll(deleteKeys(pools.live, fresh), unmiss), unspend)
      /\ after.missed = putAll(deleteKeys(pools.missed, missed), unrevoke)
      /\ after.revoked = deleteKeys(pools.revoked, revoked)
  BY UndoRunFields, Zenon
<1>2. /\ fresh = {} /\ revoked = {}
      /\ missed = {t \in DOMAIN run : run[t].missed}
      /\ spent = DOMAIN run \ missed
  BY DEF UndoFresh, UndoMissed, UndoSpent, UndoRevoked
<1>3. ASSUME NEW t \in missed
      PROVE  /\ unmiss[t] \in Value /\ unmiss[t].height = run[t].height
             /\ ~unmiss[t].missed /\ ~unmiss[t].revoked
             /\ ~unmiss[t].spent /\ ~unmiss[t].expired
  <2>1. run[t] \in Value /\ ~run[t].revoked /\ ~run[t].spent
    BY <1>2 DEF IsTreap
  <2>2. unmiss[t] = MkValue(run[t].height, FALSE, run[t].revoked, run[t].spent, FALSE)
    BY DEF Unmiss
  <2> HIDE DEF unmiss
  <2>3. QED
    BY <2>1, <2>2 DEF MkValue, Value
<1>4. ASSUME NEW t \in spent
      PROVE  /\ unspend[t] \in Value /\ unspend[t].height = run[t].height
             /\ ~unspend[t].missed /\ ~unspend[t].revoked
             /\ ~unspend[t].spent /\ ~unspend[t].expired
  <2>1. run[t] \in Value /\ ~run[t].revoked /\ ~run[t].missed /\ ~run[t].expired
    BY <1>2 DEF IsTreap
  <2>2. unspend[t] = MkValue(run[t].height, run[t].missed, run[t].revoked, FALSE, run[t].expired)
    BY DEF Unspend
  <2> HIDE DEF unspend
  <2>3. QED
    BY <2>1, <2>2 DEF MkValue, Value
<1>5. /\ DOMAIN unmiss = missed /\ DOMAIN unspend = spent /\ DOMAIN unrevoke = revoked
      /\ unmiss = [t \in missed |-> unmiss[t]] /\ unspend = [t \in spent |-> unspend[t]]
      /\ missed \subseteq Tickets /\ spent \subseteq Tickets
  BY DEF IsTreap
<1> HIDE DEF fresh, missed, spent, revoked, unmiss, unspend, unrevoke, after
<1>6. IsTreap(unmiss) /\ IsTreap(unspend)
  BY <1>3, <1>4, <1>5 DEF IsTreap
<1>7. after.missed = deleteKeys(pools.missed, missed) /\ after.revoked = pools.revoked
  <2>1. IsTreap(deleteKeys(pools.missed, missed))
    BY DeleteTreap, Zenon
  <2>2. putAll(deleteKeys(pools.missed, missed), unrevoke) = deleteKeys(pools.missed, missed)
    BY <1>2, <1>5, <2>1, PutNothing
  <2>3. deleteKeys(pools.revoked, revoked) = pools.revoked
    BY <1>2, DeleteNothing
  <2>4. QED
    BY <1>1, <2>2, <2>3
<1>8. /\ IsTreap(after.missed)
      /\ DOMAIN after.missed = DOMAIN pools.missed \ missed
      /\ \A t \in DOMAIN after.missed : after.missed[t] = pools.missed[t]
  BY <1>7 DEF IsTreap, deleteKeys
<1>9. /\ IsTreap(after.live)
      /\ DOMAIN after.live = DOMAIN pools.live \cup missed \cup spent
      /\ \A t \in DOMAIN pools.live \ (missed \cup spent) : after.live[t] = pools.live[t]
      /\ \A t \in missed \ spent : after.live[t] = unmiss[t]
      /\ \A t \in spent : after.live[t] = unspend[t]
  <2> DEFINE D == deleteKeys(pools.live, fresh)
             P == putAll(D, unmiss)
  <2>1. IsTreap(D) /\ DOMAIN D = DOMAIN pools.live /\ \A t \in DOMAIN D : D[t] = pools.live[t]
    BY <1>2 DEF IsTreap, deleteKeys
  <2> HIDE DEF D
  <2>2. /\ IsTreap(P) /\ DOMAIN P = DOMAIN D \cup missed
        /\ \A t \in missed : P[t] = unmiss[t]
        /\ \A t \in DOMAIN D \ missed : P[t] = D[t]
    BY <1>5, <1>6, <2>1 DEF IsTreap, putAll
  <2>3. after.live = putAll(P, unspend)
    BY <1>1 DEF D
  <2> HIDE DEF P
  <2>4. /\ IsTreap(after.live) /\ DOMAIN after.live = DOMAIN P \cup spent
        /\ \A t \in spent : after.live[t] = unspend[t]
        /\ \A t \in DOMAIN P \ spent : after.live[t] = P[t]
    BY <1>5, <1>6, <2>2, <2>3 DEF IsTreap, putAll
  <2>5. QED
    BY <2>1, <2>2, <2>4
<1>10. missed \cup spent = DOMAIN run /\ missed \cap spent = {}
  BY <1>2, Zenon
<1>11. \A t \in DOMAIN run :
         /\ after.live[t].height = run[t].height
         /\ ~after.live[t].missed /\ ~after.live[t].revoked
         /\ ~after.live[t].spent /\ ~after.live[t].expired
  BY <1>3, <1>4, <1>9, <1>10
<1>12. /\ DOMAIN after.live = DOMAIN pools.live \cup DOMAIN run
       /\ \A t \in DOMAIN pools.live \ DOMAIN run : after.live[t] = pools.live[t]
  BY <1>9, <1>10
<1>13. missed = {t \in DOMAIN run : run[t].missed}
  BY <1>2
<1>14. QED
  BY <1>7, <1>8, <1>9, <1>11, <1>12, <1>13 DEF after, UndoneCalled

\* Undoing the revocations: the revoked tickets become missed again.
LEMMA UndoRevocations ==
  ASSUME NEW pools, NEW run, AreTreaps(pools), IsRevokedRun(run)
  PROVE  UndoneRevocations(pools, run, UndoRun(pools, run))
<1> USE DEF AreTreaps, IsRevokedRun
<1> DEFINE after    == UndoRun(pools, run)
           fresh    == {t \in DOMAIN run : UndoFresh(run[t])}
           missed   == {t \in DOMAIN run : UndoMissed(run[t])}
           spent    == {t \in DOMAIN run : UndoSpent(run[t])}
           revoked  == {t \in DOMAIN run : UndoRevoked(run[t])}
           unmiss   == [t \in missed |-> Unmiss(run[t])]
           unspend  == [t \in spent |-> Unspend(run[t])]
           unrevoke == [t \in revoked |-> Unrevoke(run[t])]
<1>1. /\ after.live = putAll(putAll(deleteKeys(pools.live, fresh), unmiss), unspend)
      /\ after.missed = putAll(deleteKeys(pools.missed, missed), unrevoke)
      /\ after.revoked = deleteKeys(pools.revoked, revoked)
  BY UndoRunFields, Zenon
<1>2. fresh = {} /\ missed = {} /\ spent = {} /\ revoked = DOMAIN run
  BY Zenon DEF UndoFresh, UndoMissed, UndoSpent, UndoRevoked
<1>3. ASSUME NEW t \in DOMAIN run
      PROVE  /\ unrevoke[t] \in Value /\ unrevoke[t].height = run[t].height
             /\ unrevoke[t].missed /\ ~unrevoke[t].revoked /\ ~unrevoke[t].spent
             /\ unrevoke[t].expired <=> run[t].expired
  <2>1. run[t] \in Value /\ run[t].revoked /\ run[t].missed /\ ~run[t].spent /\ t \in revoked
    BY <1>2 DEF IsTreap
  <2>2. unrevoke[t] = MkValue(run[t].height, run[t].missed, FALSE, run[t].spent, run[t].expired)
    BY <2>1, Zenon DEF Unrevoke
  <2> HIDE DEF unrevoke
  <2>3. QED
    BY <2>1, <2>2 DEF MkValue, Value
<1>4. /\ DOMAIN unmiss = {} /\ DOMAIN unspend = {} /\ DOMAIN unrevoke = DOMAIN run
      /\ unrevoke = [t \in DOMAIN unrevoke |-> unrevoke[t]]
  BY <1>2
<1> HIDE DEF fresh, missed, spent, revoked, unmiss, unspend, unrevoke, after
<1>5. IsTreap(unrevoke)
  BY <1>3, <1>4 DEF IsTreap
<1>6. after.live = pools.live
  <2>1. deleteKeys(pools.live, fresh) = pools.live
    BY <1>2, DeleteNothing
  <2>2. putAll(pools.live, unmiss) = pools.live /\ putAll(pools.live, unspend) = pools.live
    BY <1>4, PutNothing
  <2>3. QED
    BY <1>1, <2>1, <2>2
<1>7. /\ IsTreap(after.revoked)
      /\ DOMAIN after.revoked = DOMAIN pools.revoked \ DOMAIN run
      /\ \A t \in DOMAIN after.revoked : after.revoked[t] = pools.revoked[t]
  BY <1>1, <1>2 DEF IsTreap, deleteKeys
<1>8. /\ IsTreap(after.missed)
      /\ DOMAIN after.missed = DOMAIN pools.missed \cup DOMAIN run
      /\ \A t \in DOMAIN pools.missed \ DOMAIN run : after.missed[t] = pools.missed[t]
      /\ \A t \in DOMAIN run : after.missed[t] = unrevoke[t]
  BY <1>1, <1>2, <1>4, <1>5 DEF IsTreap, putAll, deleteKeys
<1>9. \A t \in DOMAIN run :
        /\ after.missed[t].height = run[t].height
        /\ after.missed[t].missed /\ ~after.missed[t].revoked /\ ~after.missed[t].spent
        /\ after.missed[t].expired <=> run[t].expired
  BY <1>3, <1>8
<1>10. QED
  BY <1>6, <1>7, <1>8, <1>9 DEF after, UndoneRevocations

\* Undoing the new tickets: they leave the live treap.
LEMMA UndoNew ==
  ASSUME NEW pools, NEW run, AreTreaps(pools), IsNewRun(run)
  PROVE  UndoneNew(pools, run, UndoRun(pools, run))
<1> USE DEF AreTreaps, IsNewRun
<1> DEFINE after    == UndoRun(pools, run)
           fresh    == {t \in DOMAIN run : UndoFresh(run[t])}
           missed   == {t \in DOMAIN run : UndoMissed(run[t])}
           spent    == {t \in DOMAIN run : UndoSpent(run[t])}
           revoked  == {t \in DOMAIN run : UndoRevoked(run[t])}
           unmiss   == [t \in missed |-> Unmiss(run[t])]
           unspend  == [t \in spent |-> Unspend(run[t])]
           unrevoke == [t \in revoked |-> Unrevoke(run[t])]
<1>1. /\ after.live = putAll(putAll(deleteKeys(pools.live, fresh), unmiss), unspend)
      /\ after.missed = putAll(deleteKeys(pools.missed, missed), unrevoke)
      /\ after.revoked = deleteKeys(pools.revoked, revoked)
  BY UndoRunFields, Zenon
<1>2. fresh = DOMAIN run /\ missed = {} /\ spent = {} /\ revoked = {}
  BY DEF UndoFresh, UndoMissed, UndoSpent, UndoRevoked
<1>3. DOMAIN unmiss = {} /\ DOMAIN unspend = {} /\ DOMAIN unrevoke = {}
  BY <1>2
<1> HIDE DEF fresh, missed, spent, revoked, unmiss, unspend, unrevoke, after
<1>4. after.missed = pools.missed /\ after.revoked = pools.revoked
  <2>1. deleteKeys(pools.missed, missed) = pools.missed
    BY <1>2, DeleteNothing
  <2>2. deleteKeys(pools.revoked, revoked) = pools.revoked
    BY <1>2, DeleteNothing
  <2>3. putAll(pools.missed, unrevoke) = pools.missed
    BY <1>3, PutNothing
  <2>4. QED
    BY <1>1, <2>1, <2>2, <2>3
<1>5. /\ IsTreap(after.live)
      /\ DOMAIN after.live = DOMAIN pools.live \ DOMAIN run
      /\ \A t \in DOMAIN after.live : after.live[t] = pools.live[t]
  BY <1>1, <1>2, <1>3, SMTT(30) DEF IsTreap, putAll, deleteKeys
<1>6. QED
  BY <1>4, <1>5 DEF after, UndoneNew

\* ConnectNode makes no undo data that DisconnectNode's loop has no case for.
LEMMA ConnectKnown ==
  ASSUME NEW node, GoodTreaps(node), NEW V, NEW R, NEW N, GoodBlock(node, R, N)
  PROVE  UndoKnown(ConnectPools(node, V, R, N))
<1> DEFINE p == ConnectPools(node, V, R, N)
<1>1. PICK C, E, M, X, W : /\ C = CalledOf(node, V)
                           /\ RunsOK(node, V, R, N, C, E, M, X, W)
                           /\ ContentsOK(node, C, E, M, X, W, p)
                           /\ p.undo = <<C, E, X, W>>
  BY ConnectPoolsRuns, SMTT(30)
<1> HIDE DEF p
<1>2. /\ \A t \in DOMAIN C : ~C[t].revoked /\ (C[t].missed <=> ~C[t].spent)
      /\ \A t \in DOMAIN E : E[t].missed /\ ~E[t].revoked
      /\ \A t \in DOMAIN X : X[t].missed /\ X[t].revoked
      /\ \A t \in DOMAIN W : ~W[t].revoked /\ ~W[t].missed /\ ~W[t].spent
  BY <1>1 DEF RunsOK, CalledExpiredOK, RevokedOK
<1>3. /\ \A t \in DOMAIN C : UndoMissed(C[t]) \/ UndoSpent(C[t])
      /\ \A t \in DOMAIN E : UndoMissed(E[t])
      /\ \A t \in DOMAIN X : UndoRevoked(X[t])
      /\ \A t \in DOMAIN W : UndoFresh(W[t])
  BY <1>2, Zenon DEF UndoMissed, UndoSpent, UndoRevoked, UndoFresh
<1>4. /\ DOMAIN p.undo = {1, 2, 3, 4}
      /\ p.undo[1] = C /\ p.undo[2] = E /\ p.undo[3] = X /\ p.undo[4] = W
  BY <1>1
<1>5. UndoKnown(p)
  BY <1>3, <1>4 DEF UndoKnown
<1>6. QED
  BY <1>5 DEF p

\* DisconnectNode's loop, run over the undo data ConnectNode made of a block,
\* gives back the treaps of the parent.
LEMMA DisconnectConnect ==
  ASSUME NEW node, GoodTreaps(node), NEW V, NEW R, NEW N, GoodBlock(node, R, N)
  PROVE  DisconnectPools(ConnectPools(node, V, R, N)) = PoolsOf(node)
<1> DEFINE p == ConnectPools(node, V, R, N)
<1>1. PICK C, E, M, X, W : /\ C = CalledOf(node, V)
                           /\ RunsOK(node, V, R, N, C, E, M, X, W)
                           /\ ContentsOK(node, C, E, M, X, W, p)
                           /\ p.undo = <<C, E, X, W>>
  BY ConnectPoolsRuns, SMTT(30)
<1> DEFINE p0 == PoolsOf(p)
           p1 == UndoRun(p0, C)
           p2 == UndoRun(p1, E)
           p3 == UndoRun(p2, X)
           p4 == UndoRun(p3, W)
<1> HIDE DEF p
<1>2. DisconnectPools(p) = p4
  BY <1>1 DEF DisconnectPools, PoolsOf
<1>3. p0.live = p.live /\ p0.missed = p.missed /\ p0.revoked = p.revoked
  BY DEF PoolsOf
<1>4. /\ IsTreap(p0.live) /\ IsTreap(p0.missed) /\ IsTreap(p0.revoked)
      /\ IsTreap(C) /\ IsTreap(E) /\ IsTreap(X) /\ IsTreap(W)
      /\ IsTreap(node.live) /\ IsTreap(node.missed) /\ IsTreap(node.revoked)
  BY <1>1, <1>3 DEF ContentsOK, RunsOK, CalledExpiredOK, RevokedOK, GoodTreaps
<1> HIDE DEF p0
<1>5. /\ \A t \in DOMAIN C : /\ C[t].height = node.live[t].height
                             /\ C[t].missed <=> t \notin V
                             /\ ~C[t].revoked /\ ~C[t].expired
                             /\ C[t].missed <=> ~C[t].spent
      /\ \A t \in DOMAIN E : /\ E[t].height = node.live[t].height
                             /\ E[t].missed /\ ~E[t].revoked /\ ~E[t].spent
      /\ \A t \in DOMAIN X : /\ X[t].height = M[t].height
                             /\ X[t].missed /\ X[t].revoked /\ ~X[t].spent
                             /\ X[t].expired <=> M[t].expired
      /\ \A t \in DOMAIN W : ~W[t].revoked /\ ~W[t].missed /\ ~W[t].spent
      /\ DOMAIN W = N
  BY <1>1 DEF RunsOK, CalledExpiredOK, RevokedOK
<1>6. /\ IsTreap(p1.live) /\ IsTreap(p1.missed) /\ p1.revoked = p0.revoked
      /\ DOMAIN p1.live = DOMAIN p0.live \cup DOMAIN C
      /\ \A t \in DOMAIN p0.live \ DOMAIN C : p1.live[t] = p0.live[t]
      /\ \A t \in DOMAIN C :
           /\ p1.live[t].height = C[t].height
           /\ ~p1.live[t].missed /\ ~p1.live[t].revoked
           /\ ~p1.live[t].spent /\ ~p1.live[t].expired
      /\ DOMAIN p1.missed = DOMAIN p0.missed \ {t \in DOMAIN C : C[t].missed}
      /\ \A t \in DOMAIN p1.missed : p1.missed[t] = p0.missed[t]
  <2>1. AreTreaps(p0) /\ IsCalledRun(C)
    BY <1>4, <1>5 DEF AreTreaps, IsCalledRun
  <2>2. UndoneCalled(p0, C, p1)
    BY <2>1, UndoCalled
  <2>3. QED
    BY <2>2, Zenon DEF UndoneCalled
<1> HIDE DEF p1
<1>7. /\ IsTreap(p2.live) /\ IsTreap(p2.missed) /\ p2.revoked = p1.revoked
      /\ DOMAIN p2.live = DOMAIN p1.live \cup DOMAIN E
      /\ \A t \in DOMAIN p1.live \ DOMAIN E : p2.live[t] = p1.live[t]
      /\ \A t \in DOMAIN E :
           /\ p2.live[t].height = E[t].height
           /\ ~p2.live[t].missed /\ ~p2.live[t].revoked
           /\ ~p2.live[t].spent /\ ~p2.live[t].expired
      /\ DOMAIN p2.missed = DOMAIN p1.missed \ {t \in DOMAIN E : E[t].missed}
      /\ \A t \in DOMAIN p2.missed : p2.missed[t] = p1.missed[t]
  <2>1. AreTreaps(p1) /\ IsCalledRun(E)
    BY <1>4, <1>5, <1>6 DEF AreTreaps, IsCalledRun
  <2>2. UndoneCalled(p1, E, p2)
    BY <2>1, UndoCalled
  <2>3. QED
    BY <2>2, Zenon DEF UndoneCalled
<1> HIDE DEF p2
<1>8. /\ IsTreap(p3.missed) /\ p3.live = p2.live
      /\ DOMAIN p3.missed = DOMAIN p2.missed \cup DOMAIN X
      /\ \A t \in DOMAIN p2.missed \ DOMAIN X : p3.missed[t] = p2.missed[t]
      /\ \A t \in DOMAIN X :
           /\ p3.missed[t].height = X[t].height
           /\ p3.missed[t].missed /\ ~p3.missed[t].revoked /\ ~p3.missed[t].spent
           /\ p3.missed[t].expired <=> X[t].expired
      /\ IsTreap(p3.revoked)
      /\ DOMAIN p3.revoked = DOMAIN p2.revoked \ DOMAIN X
      /\ \A t \in DOMAIN p3.revoked : p3.revoked[t] = p2.revoked[t]
  <2>1. AreTreaps(p2) /\ IsRevokedRun(X)
    BY <1>4, <1>5, <1>6, <1>7 DEF AreTreaps, IsRevokedRun
  <2>2. UndoneRevocations(p2, X, p3)
    BY <2>1, UndoRevocations
  <2>3. QED
    BY <2>2, Zenon DEF UndoneRevocations
<1> HIDE DEF p3
<1>9. /\ IsTreap(p4.live) /\ p4.missed = p3.missed /\ p4.revoked = p3.revoked
      /\ DOMAIN p4.live = DOMAIN p3.live \ DOMAIN W
      /\ \A t \in DOMAIN p4.live : p4.live[t] = p3.live[t]
  <2>1. AreTreaps(p3) /\ IsNewRun(W)
    BY <1>4, <1>5, <1>7, <1>8 DEF AreTreaps, IsNewRun
  <2>2. UndoneNew(p3, W, p4)
    BY <2>1, UndoNew
  <2>3. QED
    BY <2>2, Zenon DEF UndoneNew
<1>10. /\ DOMAIN C \subseteq DOMAIN node.live
       /\ DOMAIN E \subseteq DOMAIN node.live \ DOMAIN C
       /\ DOMAIN M = DOMAIN node.missed \cup (DOMAIN C \ V) \cup DOMAIN E
       /\ DOMAIN X \subseteq DOMAIN node.missed
       /\ PoolsDisjoint(node) /\ N \cap Pooled(node) = {}
       /\ \A t \in DOMAIN node.missed : M[t] = node.missed[t]
  BY <1>1 DEF RunsOK, CalledExpiredOK, AllMissedOK, RevokedOK, GoodTreaps, GoodBlock
<1>11. /\ DOMAIN p0.live = (DOMAIN node.live \ (DOMAIN C \cup DOMAIN E)) \cup N
       /\ \A t \in DOMAIN node.live \ (DOMAIN C \cup DOMAIN E \cup N) : p0.live[t] = node.live[t]
       /\ DOMAIN p0.missed = DOMAIN M \ DOMAIN X
       /\ \A t \in DOMAIN p0.missed : p0.missed[t] = M[t]
       /\ DOMAIN p0.revoked = DOMAIN node.revoked \cup DOMAIN X
       /\ \A t \in DOMAIN node.revoked \ DOMAIN X : p0.revoked[t] = node.revoked[t]
  <2>1. ContentsOK(node, C, E, M, X, W, p) /\ DOMAIN W = N
    BY <1>1, <1>5
  <2>2. /\ DOMAIN p.live = (DOMAIN node.live \ (DOMAIN C \cup DOMAIN E)) \cup N
        /\ \A t \in DOMAIN node.live \ (DOMAIN C \cup DOMAIN E \cup N) : p.live[t] = node.live[t]
    BY <2>1 DEF ContentsOK
  <2>3. /\ DOMAIN p.missed = DOMAIN M \ DOMAIN X
        /\ \A t \in DOMAIN p.missed : p.missed[t] = M[t]
    BY <2>1 DEF ContentsOK
  <2>4. /\ DOMAIN p.revoked = DOMAIN node.revoked \cup DOMAIN X
        /\ \A t \in DOMAIN node.revoked \ DOMAIN X : p.revoked[t] = node.revoked[t]
    BY <2>1 DEF ContentsOK
  <2>5. QED
    BY <1>3, <2>2, <2>3, <2>4
<1> HIDE DEF p4
<1>12. DOMAIN p4.live = DOMAIN node.live
  <2>1. DOMAIN p1.live = DOMAIN p0.live \cup DOMAIN C
    BY <1>6
  <2>2. DOMAIN p2.live = DOMAIN p1.live \cup DOMAIN E
    BY <1>7
  <2>3. DOMAIN p4.live = DOMAIN p2.live \ N
    BY <1>5, <1>8, <1>9, Zenon
  <2>4. DOMAIN p4.live = (DOMAIN p0.live \cup DOMAIN C \cup DOMAIN E) \ N
    BY <2>1, <2>2, <2>3
  <2>5. QED
    BY <2>4, <1>10, <1>11 DEF Pooled
<1>13. ASSUME NEW t \in DOMAIN node.live PROVE p4.live[t] = node.live[t]
  <2>1. p4.live[t] = p2.live[t] /\ t \notin N
    BY <1>8, <1>9, <1>10, <1>12 DEF Pooled
  <2>2. /\ node.live[t] \in Value /\ p4.live[t] \in Value
        /\ ~node.live[t].missed /\ ~node.live[t].revoked
        /\ ~node.live[t].spent /\ ~node.live[t].expired
    BY <1>4, <1>9, <1>12 DEF IsTreap, GoodTreaps, FlagsOK
  <2>3. CASE t \in DOMAIN E
    <3>1. /\ p4.live[t].height = node.live[t].height
          /\ ~p4.live[t].missed /\ ~p4.live[t].revoked
          /\ ~p4.live[t].spent /\ ~p4.live[t].expired
      BY <2>1, <2>3, <1>5, <1>7, SMTT(30)
    <3>2. QED
      BY <2>2, <3>1, ValueEq
  <2>4. CASE t \in DOMAIN C
    <3>1. p2.live[t] = p1.live[t]
      BY <2>4, <1>6, <1>7, <1>10
    <3>2. /\ p4.live[t].height = node.live[t].height
          /\ ~p4.live[t].missed /\ ~p4.live[t].revoked
          /\ ~p4.live[t].spent /\ ~p4.live[t].expired
      BY <2>1, <2>4, <3>1, <1>5, <1>6, SMTT(30)
    <3>3. QED
      BY <2>2, <3>2, ValueEq
  <2>5. CASE t \notin DOMAIN C \cup DOMAIN E
    <3>1. t \in DOMAIN p0.live /\ p0.live[t] = node.live[t]
      BY <2>1, <2>5, <1>11
    <3>2. t \in DOMAIN p1.live /\ p1.live[t] = p0.live[t]
      BY <2>5, <3>1, <1>6
    <3>3. p2.live[t] = p1.live[t]
      BY <2>5, <3>2, <1>7
    <3>4. QED
      BY <2>1, <3>1, <3>2, <3>3
  <2>6. QED
    BY <2>3, <2>4, <2>5
<1>14. DOMAIN p4.missed = DOMAIN node.missed
  <2>1. {t \in DOMAIN C : C[t].missed} = DOMAIN C \ V /\ {t \in DOMAIN E : E[t].missed} = DOMAIN E
    BY <1>5, Zenon
  <2>2. DOMAIN p4.missed = ((DOMAIN p0.missed \ (DOMAIN C \ V)) \ DOMAIN E) \cup DOMAIN X
    BY <2>1, <1>6, <1>7, <1>8, <1>9
  <2>3. QED
    BY <2>2, <1>10, <1>11 DEF PoolsDisjoint
<1>15. ASSUME NEW t \in DOMAIN node.missed PROVE p4.missed[t] = node.missed[t]
  <2>1. p4.missed[t] = p3.missed[t] /\ M[t] = node.missed[t] /\ t \notin DOMAIN node.live
    BY <1>9, <1>10 DEF PoolsDisjoint
  <2>2. CASE t \in DOMAIN X
    <3>1. /\ node.missed[t] \in Value /\ p4.missed[t] \in Value
          /\ node.missed[t].missed /\ ~node.missed[t].revoked /\ ~node.missed[t].spent
      BY <1>4, <1>8, <1>9, <1>14 DEF IsTreap, GoodTreaps, FlagsOK
    <3>2. /\ p4.missed[t].height = node.missed[t].height
          /\ p4.missed[t].missed /\ ~p4.missed[t].revoked /\ ~p4.missed[t].spent
          /\ p4.missed[t].expired <=> node.missed[t].expired
      BY <2>1, <2>2, <1>5, <1>8, SMTT(30)
    <3>3. QED
      BY <3>1, <3>2, ValueEq
  <2>3. CASE t \notin DOMAIN X
    <3>1. t \in DOMAIN p2.missed /\ t \in DOMAIN p1.missed /\ t \in DOMAIN p0.missed
      BY <2>1, <2>3, <1>6, <1>7, <1>10, <1>11
    <3>2. p3.missed[t] = p2.missed[t]
      BY <2>3, <3>1, <1>8
    <3>3. p2.missed[t] = p1.missed[t]
      BY <3>1, <1>7
    <3>4. p1.missed[t] = p0.missed[t]
      BY <3>1, <1>6
    <3>5. p0.missed[t] = node.missed[t]
      BY <2>1, <3>1, <1>11
    <3>6. QED
      BY <2>1, <3>2, <3>3, <3>4, <3>5
  <2>4. QED
    BY <2>2, <2>3
<1>16. /\ DOMAIN p4.revoked = DOMAIN node.revoked
       /\ \A t \in DOMAIN node.revoked : p4.revoked[t] = node.revoked[t]
  <2>1. p2.revoked = p0.revoked /\ p4.revoked = p3.revoked
    BY <1>6, <1>7, <1>9
  <2>2. /\ DOMAIN p3.revoked = DOMAIN p0.revoked \ DOMAIN X
        /\ \A t \in DOMAIN p3.revoked : p3.revoked[t] = p0.revoked[t]
    BY <1>8, <2>1
  <2>3. DOMAIN node.revoked \cap DOMAIN X = {}
    BY <1>10 DEF PoolsDisjoint
  <2>4. QED
    BY <2>1, <2>2, <2>3, <1>11
<1>17. /\ p4.live = node.live /\ p4.missed = node.missed /\ p4.revoked = node.revoked
  <2>1. IsTreap(p4.live) /\ IsTreap(p4.missed) /\ IsTreap(p4.revoked)
    BY <1>8, <1>9
  <2>2. p4.live = node.live
    BY <1>4, <1>12, <1>13, <2>1, TreapEq
  <2>3. p4.missed = node.missed
    BY <1>4, <1>14, <1>15, <2>1, TreapEq
  <2>4. p4.revoked = node.revoked
    BY <1>4, <1>16, <2>1, TreapEq
  <2>5. QED
    BY <2>2, <2>3, <2>4
<1>18. p4 = PoolsOf(p4)
  BY DEF p4, UndoRun, PoolsOf
<1>19. p4 = PoolsOf(node)
  BY <1>17, <1>18 DEF PoolsOf
<1>20. QED
  BY <1>2, <1>19 DEF p

(***************************************************************************)
(* The winners that DisconnectNode picks from the undo data.               *)
(***************************************************************************)

\* Keeping every position keeps the sequence.
LEMMA KeepAll ==
  ASSUME NEW n \in Nat, NEW T, NEW seq \in [1..n -> T]
  PROVE  KeptAt(seq, 1..n) = seq
<1>1. Cardinality(1..n) = n
  BY FS_Interval
<1>2. ASSUME NEW k \in 1..n PROVE (CHOOSE i \in 1..n : Cardinality((1..n) \cap (1..i)) = k) = k
  <2>1. \A i \in 1..n : Cardinality((1..n) \cap (1..i)) = i
    <3> TAKE i \in 1..n
    <3>1. (1..n) \cap (1..i) = 1..i
      OBVIOUS
    <3>2. Cardinality(1..i) = i
      BY FS_Interval
    <3>3. QED
      BY <3>1, <3>2
  <2>2. QED
    BY <2>1
<1>3. QED
  BY <1>1, <1>2 DEF KeptAt

\* Every entry of the run of called tickets is recognised as a winner.
LEMMA CalledWereWinners ==
  ASSUME NEW node, GoodTreaps(node), NEW V, NEW t \in Elems(node.nextWinners)
  PROVE  WasWinner(CalledRun(node, V)[t])
<1> DEFINE v == CalledRun(node, V)[t]
<1>1. t \in DOMAIN node.live /\ ~node.live[t].revoked /\ ~node.live[t].expired
  BY DEF GoodTreaps, FlagsOK
<1>2. /\ v.missed = (t \notin V) /\ v.spent = (t \in V)
      /\ v.revoked = node.live[t].revoked /\ v.expired = node.live[t].expired
  BY DEF CalledRun, MkValue
<1>3. QED
  BY <1>1, <1>2 DEF WasWinner, UndoMissed, UndoSpent

LotteryOK(node, iv) ==
  /\ Drawing(node.height) =>
       /\ node.nextWinners \in [1..nTicketsPerBlock -> Tickets]
       /\ ~(Cardinality(DOMAIN node.live) < nTicketsPerBlock)
       /\ node.finalState = LotteryState(node.nextWinners, iv, node.live)
  /\ ~Drawing(node.height) => node.nextWinners = << >> /\ node.finalState = NoState

\* What the lottery fields of a node that ConnectNode returned are.
LEMMA LotteryFields ==
  ASSUME NEW node, NEW iv \in IVs, NEW V, NEW R, NEW N, NEW child,
         child = ConnectNode(node, iv, V, R, N), child # NoNode,
         DOMAIN child.live \subseteq Tickets
  PROVE  LotteryOK(child, iv)
<1> DEFINE pools == ConnectPools(node, V, R, N)
           drawing == Drawing(node.height + 1)
           winners == IF drawing THEN Draw(iv, DOMAIN pools.live) ELSE << >>
<1>1. /\ child.height = node.height + 1 /\ child.live = pools.live
      /\ child.nextWinners = winners
      /\ child.finalState = IF drawing THEN LotteryState(winners, iv, pools.live) ELSE NoState
      /\ ~(drawing /\ Cardinality(DOMAIN pools.live) < nTicketsPerBlock)
  <2>1. FieldsOK(node, iv, V, R, N, child)
    BY ConnectFields
  <2>2. QED
    BY <2>1, Zenon DEF FieldsOK
<1> HIDE DEF pools
<1>2. drawing => winners \in [1..nTicketsPerBlock -> DOMAIN pools.live]
  BY <1>1, DrawAssumption DEF DrawSelects
<1>3. drawing => child.nextWinners \in [1..nTicketsPerBlock -> Tickets]
  BY <1>1, <1>2
<1>4. QED
  BY <1>1, <1>3 DEF LotteryOK

\* The first part of the undo data is that of the called tickets.
LEMMA CalledUndo ==
  ASSUME NEW node, NEW V, NEW R, NEW N
  PROVE  ConnectPools(node, V, R, N).undo[1] = CalledOf(node, V)
<1>1. \A a, b, c, d : <<a, b, c, d>>[1] = a
  OBVIOUS
<1>2. \E b, c, d : ConnectPools(node, V, R, N).undo = <<CalledOf(node, V), b, c, d>>
  BY Zenon DEF ConnectPools, CalledOf
<1>3. QED
  BY <1>1, <1>2

\* DisconnectNode gives back the lottery of a parent above the genesis block.
LEMMA DisconnectLottery ==
  ASSUME NEW node, GoodTreaps(node), NodeTypeOK(node), node.height > 0,
         NEW iv, LotteryOK(node, iv),
         NEW iv2, NEW V, NEW R, NEW N, NEW child,
         child = ConnectNode(node, iv2, V, R, N), child # NoNode,
         DisconnectPools(child) = PoolsOf(node)
  PROVE  LET back == DisconnectNode(child, iv, node.undo, node.called, node.newTickets)
         IN /\ back # NoNode
            /\ back.nextWinners = node.nextWinners
            /\ back.finalState = node.finalState
<1> DEFINE kept == {i \in DOMAIN child.called : WasWinner(child.undo[1][child.called[i]])}
           winners == KeptAt(child.called, kept)
           back == DisconnectNode(child, iv, node.undo, node.called, node.newTickets)
           enabled == node.height + 1 >= nStakeEnabledHeight
<1>1. /\ child.height = node.height + 1 /\ node.height \in Nat
      /\ child.undo = ConnectPools(node, V, R, N).undo
      /\ child.called = IF enabled THEN node.nextWinners ELSE << >>
  <2>1. FieldsOK(node, iv2, V, R, N, child)
    BY ConnectFields
  <2>2. QED
    BY <2>1, Zenon DEF FieldsOK, NodeTypeOK
<1>2. child.height - 1 = node.height /\ child.height # 1
  BY <1>1
<1>3. enabled => child.undo[1] = CalledRun(node, V)
  <2>1. ConnectPools(node, V, R, N).undo[1] = CalledOf(node, V)
    BY CalledUndo
  <2>2. QED
    BY <1>1, <2>1, Zenon DEF CalledOf
<1>4. ~enabled => ~Drawing(node.height)
  BY <1>1, ParamsAssumption DEF Drawing
<1>5. \E n \in Nat : \E T : node.nextWinners \in [1..n -> T]
  <2>1. CASE Drawing(node.height)
    BY <2>1, ParamsAssumption DEF LotteryOK
  <2>2. CASE ~Drawing(node.height)
    <3>1. node.nextWinners = << >> /\ << >> \in [1..0 -> {}]
      BY <2>2 DEF LotteryOK
    <3>2. QED
      BY <3>1
  <2>3. QED
    BY <2>1, <2>2
<1>6. child.called = node.nextWinners
  BY <1>1, <1>4 DEF LotteryOK
<1>7. kept = DOMAIN node.nextWinners
  <2>1. CASE enabled
    BY <1>3, <1>6, <2>1, CalledWereWinners DEF Elems
  <2>2. CASE ~enabled
    <3>1. DOMAIN child.called = {}
      BY <1>1, <2>2
    <3>2. QED
      BY <1>6, <3>1
  <2>3. QED
    BY <2>1, <2>2
<1>8. winners = node.nextWinners
  <2>1. PICK n \in Nat : \E T : node.nextWinners \in [1..n -> T]
    BY <1>5
  <2>2. PICK T : node.nextWinners \in [1..n -> T]
    BY <2>1
  <2>3. DOMAIN node.nextWinners = 1..n
    BY <2>2
  <2>4. QED
    BY <1>6, <1>7, <2>2, <2>3, KeepAll
<1>9. DisconnectPools(child).live = node.live
  BY DEF PoolsOf
<1> HIDE DEF winners, kept
<1>10. back = IF Drawing(node.height) /\ Cardinality(DOMAIN node.live) < nTicketsPerBlock
                THEN NoNode
                ELSE [height |-> node.height,
                      live |-> DisconnectPools(child).live,
                      missed |-> DisconnectPools(child).missed,
                      revoked |-> DisconnectPools(child).revoked,
                      undo |-> node.undo, called |-> node.called,
                      newTickets |-> node.newTickets,
                      nextWinners |-> winners,
                      finalState |-> IF Drawing(node.height)
                                       THEN LotteryState(winners, iv, node.live)
                                       ELSE NoState]
  BY <1>2, <1>9 DEF DisconnectNode, winners, kept
<1>11. back.height = node.height /\ back.nextWinners = winners
       /\ back.finalState = IF Drawing(node.height) THEN LotteryState(winners, iv, node.live)
                                                    ELSE NoState
  <2>1. ~(Drawing(node.height) /\ Cardinality(DOMAIN node.live) < nTicketsPerBlock)
    BY DEF LotteryOK
  <2> HIDE DEF back
  <2>2. QED
    BY <1>10, <2>1, Zenon
<1>12. back # NoNode
  <2>1. back.height = node.height
    BY <1>11
  <2>2. node.height # -1 /\ NoNode.height = -1
    BY <1>1 DEF NoNode
  <2> HIDE DEF back
  <2>3. QED
    BY <2>1, <2>2
<1>13. QED
  BY <1>8, <1>11, <1>12 DEF LotteryOK
=============================================================================
