-------------------------- MODULE CheckQueueProofs --------------------------
(***************************************************************************)
(* For any number of workers, masters and checks and any batch size: the    *)
(* work that is left is counted exactly, Wait returns the verdict over all  *)
(* the checks of its block, and the queue is left clean for the next one.   *)
(***************************************************************************)
EXTENDS CheckQueue, TLAPS, FiniteSetTheorems

(***************************************************************************)
(* The inductive invariant, and why one critical section of Loop keeps it. *)
(***************************************************************************)

\* The threads that nIdle and nTotal count, and the masters they still count after
\* an interrupt.
IdleOf(st) == {t \in Threads : st[t] \in {"waiting", "woken", "gone"}}
TotalOf(st) == {t \in Threads : st[t] \in {"waiting", "woken", "gone", "busy", "loop"}}
Left == Cardinality(interrupted)
CountsExact == nIdle = Cardinality(IdleOf(state)) + Left /\ nTotal = Cardinality(TotalOf(state)) + Left

\* Who is where: only the master that owns the control is inside.
PlacedIn(st) ==
  /\ \A m \in Masters : st[m] # "gone" /\ (st[m] # "out" <=> control = m)
  /\ \A w \in Workers : st[w] \notin {"out", "adding", "done"}
Placed == PlacedIn(state)

\* A thread has a batch exactly while it runs it or is about to report it.
BatchHeld ==
  \A t \in Threads : state[t] \in {"busy", "loop"} <=> vChecks[t] # {}

\* No block holds the control, or the one that does has its answer.
Closed == \A m \in Masters : state[m] \in {"out", "done"}

\* What the recorded verdicts say about the checks of the open block.
Verdicts ==
  /\ queue \cup InHand \subseteq added /\ added \cap unused = {}
  /\ ~Closed /\ fAllOk => added \ (queue \cup InHand) \subseteq good
  /\ ~fAllOk => ~(added \subseteq good)
  /\ \A t \in Threads : state[t] \in {"busy", "loop"} /\ ~fOk[t] => ~(added \subseteq good)
  /\ \A t \in Threads : state[t] = "loop" /\ fOk[t] => vChecks[t] \subseteq good

Clean == Closed => queue \cup InHand = {} /\ fAllOk

IInv ==
  /\ TypeOK /\ CountsExact /\ Placed /\ BatchHeld
  /\ TodoExact /\ Verdicts /\ Clean /\ ResultExact
-----------------------------------------------------------------------------
Others(t) == UNION {vChecks[u] : u \in Threads \ {t}}

\* The batches in hand, with the one of t apart.
LEMMA HandApart ==
  ASSUME vChecks \in [Threads -> SUBSET Checks], NEW t \in Threads
  PROVE  InHand = Others(t) \cup vChecks[t]
BY DEF InHand, Others

\* The batches in hand after t gets another.
LEMMA HandAfter ==
  ASSUME vChecks \in [Threads -> SUBSET Checks], NEW t \in Threads, NEW B,
         vChecks' = [vChecks EXCEPT ![t] = B]
  PROVE  InHand' = Others(t) \cup B
<1>1. \A u \in Threads : vChecks'[u] = IF u = t THEN B ELSE vChecks[u]  OBVIOUS
<1> QED  BY <1>1 DEF InHand, Others

\* What a notification does to the states of the threads.
Wakes(st, to) ==
  /\ to \in [Threads -> States]
  /\ \A t \in Threads : to[t] = st[t] \/ (st[t] = "waiting" /\ to[t] = "woken")

\* notify_one wakes at most one thread, and one that waits.
LEMMA NotifyOneWakes ==
  ASSUME NEW st \in [Threads -> States], NEW S \in SUBSET Threads, NEW to \in NotifyOne(st, S)
  PROVE  Wakes(st, to)
BY DEF NotifyOne, Waiting, Wakes, States

\* notify_all wakes only threads that wait.
LEMMA NotifyAllWakes ==
  ASSUME NEW st \in [Threads -> States], NEW S \in SUBSET Threads
  PROVE  Wakes(st, NotifyAll(st, S))
BY DEF NotifyAll, Waiting, Wakes, States

\* A notification changes neither count and no place.
LEMMA WakesKeeps ==
  ASSUME NEW st \in [Threads -> States], NEW to, Wakes(st, to)
  PROVE  /\ IdleOf(to) = IdleOf(st) /\ TotalOf(to) = TotalOf(st)
         /\ PlacedIn(st) => PlacedIn(to)
<1>1. \A t \in Threads : to[t] \in {"waiting", "woken", "gone"} <=> st[t] \in {"waiting", "woken", "gone"}
  BY DEF Wakes
<1>2. \A t \in Threads : to[t] \in {"waiting", "woken", "gone", "busy", "loop"}
                           <=> st[t] \in {"waiting", "woken", "gone", "busy", "loop"}
  BY DEF Wakes
<1>3. IdleOf(to) = IdleOf(st) /\ TotalOf(to) = TotalOf(st)  BY <1>1, <1>2 DEF IdleOf, TotalOf
<1>4. ASSUME PlacedIn(st) PROVE PlacedIn(to)
  BY <1>4 DEF PlacedIn, Wakes, Threads
<1> QED  BY <1>3, <1>4

\* Both counted sets are finite: all workers, and the owner of the control.
LEMMA CountedFinite ==
  ASSUME NEW st \in [Threads -> States], PlacedIn(st)
  PROVE  IsFiniteSet(IdleOf(st)) /\ IsFiniteSet(TotalOf(st))
<1>1. IsFiniteSet(Workers \cup {control})  BY QueueAssumption, FS_AddElement
<1>2. IdleOf(st) \subseteq Workers \cup {control}
  BY DEF IdleOf, PlacedIn, Threads
<1>3. TotalOf(st) \subseteq Workers \cup {control}
  BY DEF TotalOf, PlacedIn, Threads
<1> QED  BY <1>1, <1>2, <1>3, FS_Subset

\* Every set of checks is finite and has a size.
LEMMA ChecksFinite ==
  ASSUME NEW S \in SUBSET Checks
  PROVE  IsFiniteSet(S) /\ Cardinality(S) \in Nat /\ (Cardinality(S) = 0 <=> S = {})
<1>1. IsFiniteSet(S)  BY QueueAssumption, FS_Subset
<1> QED  BY <1>1, FS_CardinalityType, FS_EmptySet

\* Sizes add up when no check is in both sets.
LEMMA DisjointSize ==
  ASSUME NEW S \in SUBSET Checks, NEW T \in SUBSET Checks, S \cap T = {}
  PROVE  Cardinality(S \cup T) = Cardinality(S) + Cardinality(T)
<1>1. IsFiniteSet(S) /\ IsFiniteSet(T)  BY ChecksFinite
<1>2. Cardinality(S) \in Nat /\ Cardinality(T) \in Nat  BY ChecksFinite
<1>3. Cardinality(S \cup T) = Cardinality(S) + Cardinality(T) - Cardinality(S \cap T)
  BY <1>1, FS_Union
<1> QED  BY <1>2, <1>3, FS_EmptySet
-----------------------------------------------------------------------------
(* One critical section of Loop: what holds between its first part, which    *)
(* may report a batch, and the part that returns, waits or takes a batch.    *)
Between(t, st, allOk, todo, idle, total) ==
  /\ state[t] \in {"enter", "woken", "loop"} /\ Wakes(state, st)
  /\ allOk \in BOOLEAN /\ (Closed => allOk)
  /\ todo = Cardinality(queue \cup Others(t))
  /\ ~Closed /\ allOk => added \ (queue \cup Others(t)) \subseteq good
  /\ ~allOk => ~(added \subseteq good)
  /\ idle = Cardinality(IdleOf(st) \ {t}) + Left
  /\ total = Cardinality(TotalOf(st) \cup {t}) + Left

\* The counts once t is in its new state.
LEMMA CountsAfter ==
  ASSUME NEW st \in [Threads -> States], PlacedIn(st), NEW t \in Threads,
         NEW to, to = [st EXCEPT ![t] = to[t]], to[t] \in {"done", "waiting", "busy"}
  PROVE  /\ Cardinality(IdleOf(st) \ {t}) \in Nat /\ Cardinality(TotalOf(st) \cup {t}) \in Nat
         /\ Cardinality(IdleOf(to)) = Cardinality(IdleOf(st) \ {t}) + (IF to[t] = "waiting" THEN 1 ELSE 0)
         /\ Cardinality(TotalOf(to)) = Cardinality(TotalOf(st) \cup {t}) - (IF to[t] = "done" THEN 1 ELSE 0)
         /\ Cardinality(TotalOf(to)) \in Nat /\ Cardinality(IdleOf(to)) \in Nat
<1> DEFINE I == IdleOf(st) \ {t}
           T == TotalOf(st) \cup {t}
<1>1. IsFiniteSet(I) /\ IsFiniteSet(T)
  BY CountedFinite, FS_RemoveElement, FS_AddElement
<1>2. Cardinality(I) \in Nat /\ Cardinality(T) \in Nat  BY <1>1, FS_CardinalityType
<1>3. IdleOf(to) = IF to[t] = "waiting" THEN I \cup {t} ELSE I  BY DEF IdleOf
<1>4. TotalOf(to) = IF to[t] = "done" THEN T \ {t} ELSE T  BY DEF TotalOf
<1>5. t \notin I /\ t \in T  OBVIOUS
<1> HIDE DEF I, T
<1>6. /\ Cardinality(I \cup {t}) = Cardinality(I) + 1
      /\ Cardinality(T \ {t}) = Cardinality(T) - 1
      /\ Cardinality(T \ {t}) \in Nat
  BY <1>1, <1>5, FS_AddElement, FS_RemoveElement, FS_CardinalityType
<1>7. Cardinality(IdleOf(to)) = Cardinality(I) + (IF to[t] = "waiting" THEN 1 ELSE 0)
  BY <1>2, <1>3, <1>6
<1>8. Cardinality(TotalOf(to)) = Cardinality(T) - (IF to[t] = "done" THEN 1 ELSE 0)
  BY <1>2, <1>4, <1>6
<1>9. Cardinality(TotalOf(to)) \in Nat /\ Cardinality(IdleOf(to)) \in Nat
  BY <1>2, <1>3, <1>4, <1>6
<1> QED  BY <1>2, <1>7, <1>8, <1>9 DEF I, T

\* CountsExact after a step, in terms of the new states.
LEMMA CountsPrimed ==
  CountsExact' <=> /\ nIdle' = Cardinality(IdleOf(state')) + Left'
                   /\ nTotal' = Cardinality(TotalOf(state')) + Left'
BY DEF CountsExact, IdleOf, TotalOf

\* The masters that were interrupted can be counted.
LEMMA LeftNat ==
  ASSUME interrupted \subseteq Masters
  PROVE  IsFiniteSet(interrupted) /\ Left \in Nat
BY QueueAssumption, FS_Subset, FS_CardinalityType DEF Left

\* nNow takes at least one check.
LEMMA BatchNonempty ==
  ASSUME NEW idle \in Nat, NEW total \in Nat, queue \in SUBSET Checks, queue # {}
  PROVE  nNow(idle, total) \in Nat \ {0}
<1> DEFINE share == Cardinality(queue) \div (total + idle + 1)
<1>1. Cardinality(queue) \in Nat  BY ChecksFinite
<1>2. total + idle + 1 \in Nat \ {0}  OBVIOUS
<1>3. share \in Nat  BY <1>1, <1>2
<1> HIDE DEF share
<1>4. nNow(idle, total) = LET batch == IF share < nBatchSize THEN share ELSE nBatchSize
                           IN IF batch < 1 THEN 1 ELSE batch
  BY DEF nNow, share
<1> QED  BY <1>3, <1>4, QueueAssumption

\* What the three ways out of the critical section have in common: t ends in x
\* with the batch B, and the rest of the work is where it was.
LEMMA SectionEnds ==
  ASSUME IInv, NEW t \in Threads, NEW st, NEW allOk, NEW todo, NEW idle, NEW total,
         Between(t, st, allOk, todo, idle, total),
         NEW B \in SUBSET queue, NEW x \in {"done", "waiting", "busy"},
         B # {} <=> x = "busy", x = "done" => t \in Masters,
         queue' = queue \ B, vChecks' = [vChecks EXCEPT ![t] = B], nTodo' = todo,
         state' = [st EXCEPT ![t] = x], UNCHANGED <<control, interrupted, good, unused, added>>
  PROVE  /\ Placed' /\ BatchHeld' /\ TodoExact'
         /\ queue' \cup InHand' = queue \cup Others(t)
         /\ queue \cup Others(t) \subseteq added
         /\ queue' \subseteq Checks /\ nTodo' \in Nat
         /\ state' \in [Threads -> States] /\ vChecks' \in [Threads -> SUBSET Checks]
         /\ \A u \in Threads : state'[u] = IF u = t THEN x ELSE st[u]
         /\ \A u \in Threads : vChecks'[u] = IF u = t THEN B ELSE vChecks[u]
         /\ Closed => x # "busy" /\ queue \cup Others(t) = {}
<1>1. st \in [Threads -> States] /\ vChecks \in [Threads -> SUBSET Checks]
      /\ state \in [Threads -> States]
  BY DEF IInv, TypeOK, Between, Wakes
<1>2. state' \in [Threads -> States] /\ \A u \in Threads : state'[u] = IF u = t THEN x ELSE st[u]
  BY <1>1 DEF States
<1>3. queue \subseteq Checks  BY DEF IInv, TypeOK
<1>4. vChecks' \in [Threads -> SUBSET Checks]
      /\ \A u \in Threads : vChecks'[u] = IF u = t THEN B ELSE vChecks[u]
  BY <1>1, <1>3
<1>5. PlacedIn(st)  BY <1>1, WakesKeeps DEF IInv, Placed, Between
<1>6. st[t] = state[t]  BY DEF Between, Wakes
<1>7. Placed'
  BY <1>2, <1>5, <1>6, QueueAssumption DEF Placed, PlacedIn, Between, Threads
<1>8. \A u \in Threads : st[u] \in {"busy", "loop"} <=> state[u] \in {"busy", "loop"}
  BY DEF Between, Wakes
<1>9. BatchHeld'  BY <1>2, <1>4, <1>8 DEF BatchHeld, IInv
<1>10. InHand = Others(t) \cup vChecks[t] /\ InHand' = Others(t) \cup B
  BY <1>1, HandApart, HandAfter, Zenon
<1>11. queue' \cup InHand' = queue \cup Others(t)  BY <1>10
<1>12. queue \cup Others(t) \subseteq added  BY <1>10 DEF IInv, Verdicts
<1>13. queue \cup Others(t) \subseteq Checks  BY <1>12 DEF IInv, TypeOK
<1>14. nTodo' = Cardinality(queue' \cup InHand')  BY <1>11 DEF Between
<1>15. nTodo' \in Nat  BY <1>13, ChecksFinite DEF Between
<1>16. queue \cap Others(t) = {}  BY <1>10 DEF IInv, TodoExact
<1>17. queue' \cap InHand' = {}  BY <1>10, <1>16
<1>18. \A u, v \in Threads : u # v => vChecks'[u] \cap vChecks'[v] = {}
  <2> SUFFICES ASSUME NEW u \in Threads, NEW v \in Threads, u # v
               PROVE  vChecks'[u] \cap vChecks'[v] = {}
    OBVIOUS
  <2>1. \A w \in Threads \ {t} : vChecks[w] \cap B = {}  BY <1>16 DEF Others
  <2>2. vChecks[u] \cap vChecks[v] = {}  BY DEF IInv, TodoExact
  <2> QED  BY <1>4, <2>1, <2>2
<1>19. TodoExact'  BY <1>14, <1>17, <1>18 DEF TodoExact
<1>20. Closed => queue \cup Others(t) = {}  BY <1>10 DEF IInv, Clean
<1>21. Closed => x # "busy"  BY <1>20
<1> QED  BY <1>2, <1>3, <1>4, <1>7, <1>9, <1>11, <1>12, <1>15, <1>19, <1>20, <1>21

\* A thread leaves its critical section to run checks or to wait, not to return.
StaysInside(t, st, allOk, x) ==
  /\ queue' \cup InHand' = queue \cup Others(t)
  /\ queue \cup Others(t) \subseteq added
  /\ \A u \in Threads : state'[u] = IF u = t THEN x ELSE st[u]
  /\ \A u \in Threads \ {t} : vChecks'[u] = vChecks[u] /\ fOk'[u] = fOk[u]
  /\ x = "busy" => fOk'[t] = allOk
  /\ Closed => queue \cup Others(t) = {}
  /\ fAllOk' = allOk /\ UNCHANGED <<good, unused, added>>

\* The verdicts stay sound when t waits, or takes a batch and the verdict.
LEMMA VerdictsKept ==
  ASSUME IInv, NEW t \in Threads, NEW st, NEW allOk, NEW todo, NEW idle, NEW total,
         Between(t, st, allOk, todo, idle, total), NEW x \in {"waiting", "busy"},
         StaysInside(t, st, allOk, x)
  PROVE  Verdicts' /\ Clean' /\ (Closed' <=> Closed)
<1> SUFFICES ASSUME queue' \cup InHand' = queue \cup Others(t),
                    queue \cup Others(t) \subseteq added,
                    \A u \in Threads : state'[u] = IF u = t THEN x ELSE st[u],
                    \A u \in Threads \ {t} : vChecks'[u] = vChecks[u] /\ fOk'[u] = fOk[u],
                    x = "busy" => fOk'[t] = allOk,
                    Closed => queue \cup Others(t) = {},
                    fAllOk' = allOk, UNCHANGED <<good, unused, added>>
             PROVE  Verdicts' /\ Clean' /\ (Closed' <=> Closed)
  BY Zenon DEF StaysInside
<1>1. \A u \in Threads \ {t} : state'[u] \in {"busy", "loop", "out", "done"} => state'[u] = state[u]
  BY DEF Between, Wakes
<1>2. \A u \in Threads : state[u] \in {"busy", "loop", "out", "done"} => st[u] = state[u]
  BY DEF Between, Wakes
<1>3. Closed' <=> Closed
  <2>1. ASSUME Closed PROVE Closed'
    <3>1. t \notin Masters  BY <2>1 DEF Closed, Between
    <3> QED  BY <2>1, <3>1, <1>2 DEF Closed, Threads
  <2>2. ASSUME Closed' PROVE Closed
    <3>1. t \notin Masters  BY <2>2 DEF Closed
    <3> QED  BY <2>2, <3>1, <1>1 DEF Closed, Threads
  <2> QED  BY <2>1, <2>2
<1>4. added \cap unused = {}  BY DEF IInv, Verdicts
<1>5. ~Closed' /\ fAllOk' => added' \ (queue' \cup InHand') \subseteq good'  BY <1>3 DEF Between
<1>6. ~fAllOk' => ~(added' \subseteq good')  BY DEF Between
<1>7. \A u \in Threads : state'[u] \in {"busy", "loop"} /\ ~fOk'[u] => ~(added' \subseteq good')
  BY <1>1 DEF IInv, Verdicts, Between
<1>8. \A u \in Threads : state'[u] = "loop" /\ fOk'[u] => vChecks'[u] \subseteq good'
  BY <1>1 DEF IInv, Verdicts
<1>9. Verdicts'  BY <1>4, <1>5, <1>6, <1>7, <1>8 DEF Verdicts
<1>10. Clean'  BY <1>3 DEF Clean, Between
<1> QED  BY <1>3, <1>9, <1>10

\* The three ways out, and so all of Go, keep the invariant.
LEMMA GoKeeps ==
  ASSUME IInv, NEW t \in Threads, NEW st, NEW allOk, NEW todo, NEW idle, NEW total,
         Between(t, st, allOk, todo, idle, total), Go(t, st, allOk, todo, idle, total)
  PROVE  IInv'
<1> USE DEF Go
<1>1. st \in [Threads -> States] /\ PlacedIn(st)
  BY WakesKeeps DEF IInv, TypeOK, Placed, Between, Wakes
<1>2. idle = Cardinality(IdleOf(st) \ {t}) + Left /\ total = Cardinality(TotalOf(st) \cup {t}) + Left
      /\ allOk \in BOOLEAN
  BY DEF Between
<1>3. \A m \in Masters \ {t} : st[m] = "done" => state[m] = "done"
  BY DEF Between, Wakes, Threads
<1>4. UNCHANGED <<control, interrupted, good, unused, added>>  OBVIOUS
<1>8. Left \in Nat /\ Left' = Left  BY <1>4, LeftNat DEF IInv, TypeOK, Left
<1>5. CASE Return(t, st, allOk, todo, idle, total)
  <2>1. /\ queue = {} /\ t \in Masters /\ todo = 0 /\ nTotal' = total - 1
        /\ fRet' = [fRet EXCEPT ![t] = allOk] /\ fAllOk' = TRUE
        /\ state' = [st EXCEPT ![t] = "done"] /\ vChecks' = [vChecks EXCEPT ![t] = {}]
        /\ nIdle' = idle /\ nTodo' = todo /\ queue' = queue /\ fOk' = fOk
    BY <1>5 DEF Return
  <2>2. queue' = queue \ {}  BY <2>1, SMTT(30)
  <2>3. /\ Placed' /\ BatchHeld' /\ TodoExact'
        /\ queue' \cup InHand' = queue \cup Others(t)
        /\ queue \cup Others(t) \subseteq added
        /\ queue' \subseteq Checks /\ nTodo' \in Nat
        /\ state' \in [Threads -> States] /\ vChecks' \in [Threads -> SUBSET Checks]
        /\ \A u \in Threads : state'[u] = IF u = t THEN "done" ELSE st[u]
        /\ \A u \in Threads : vChecks'[u] = IF u = t THEN {} ELSE vChecks[u]
    BY <1>4, <2>1, <2>2, SectionEnds, "done" \in {"done", "waiting", "busy"}, {} \in SUBSET queue, Zenon
  <2>4. CountsExact' /\ nIdle' \in Nat /\ nTotal' \in Nat
    <3>1. state'[t] = "done" /\ state' = [st EXCEPT ![t] = state'[t]]  BY <1>1, <2>1
    <3>2. /\ Cardinality(IdleOf(state')) + Left = idle /\ Cardinality(TotalOf(state')) + Left = total - 1
          /\ Cardinality(IdleOf(state')) \in Nat /\ Cardinality(TotalOf(state')) \in Nat
      BY <1>1, <1>2, <1>8, <3>1, CountsAfter
    <3> QED  BY <1>8, <2>1, <3>2, CountsPrimed
  <2>5. queue \cup Others(t) = {}
    <3>1. queue \cup Others(t) \in SUBSET Checks  BY <2>3 DEF IInv, TypeOK
    <3> QED  BY <2>1, <3>1, ChecksFinite, Zenon DEF Between
  <2>6. Clean'  BY <2>1, <2>3, <2>5 DEF Clean
  <2>7. \A u \in Threads : state'[u] \notin {"busy", "loop"}
    <3>1. \A u \in Threads : vChecks'[u] = {}  BY <2>3, <2>5 DEF Others
    <3> QED  BY <2>3, <3>1 DEF BatchHeld
  <2>8. Closed'
    <3>1. \A m \in Masters \ {t} : st[m] = "out"
      BY <1>1, <2>1 DEF PlacedIn, Between, Wakes, Threads
    <3> QED  BY <2>3, <3>1 DEF Closed, Threads
  <2>9. Verdicts'
    BY <1>4, <2>1, <2>3, <2>5, <2>7, <2>8 DEF Verdicts, IInv
  <2>10. allOk <=> added \subseteq good
    <3>1. ~Closed  BY <2>1 DEF Closed, Between
    <3> QED  BY <2>5, <3>1 DEF Between
  <2>11. ResultExact'
    <3> SUFFICES ASSUME NEW m \in Masters, state'[m] = "done"
                 PROVE  fRet'[m] <=> added' \subseteq good'
      BY DEF ResultExact
    <3>1. fRet'[m] = IF m = t THEN allOk ELSE fRet[m]  BY <2>1 DEF IInv, TypeOK
    <3>2. CASE m = t  BY <3>1, <3>2, <2>10, <1>4
    <3>3. CASE m # t
      BY <3>1, <3>3, <1>3, <1>4, <2>3 DEF IInv, ResultExact, Threads
    <3> QED  BY <3>2, <3>3
  <2>12. fRet' \in [Masters -> BOOLEAN]  BY <1>2, <2>1 DEF IInv, TypeOK
  <2>13. TypeOK'  BY <1>4, <2>1, <2>3, <2>4, <2>12 DEF IInv, TypeOK
  <2> QED  BY <2>3, <2>4, <2>6, <2>9, <2>11, <2>13 DEF IInv
<1>6. CASE Block(t, st, allOk, todo, idle, total)
  <2>1. /\ nIdle' = idle + 1 /\ nTotal' = total /\ fAllOk' = allOk /\ nTodo' = todo
        /\ state' = [st EXCEPT ![t] = "waiting"] /\ vChecks' = [vChecks EXCEPT ![t] = {}]
        /\ queue' = queue /\ fOk' = fOk /\ fRet' = fRet
    BY <1>6 DEF Block
  <2>2. queue' = queue \ {}  BY <2>1, SMTT(30)
  <2>3. /\ Placed' /\ BatchHeld' /\ TodoExact'
        /\ queue' \cup InHand' = queue \cup Others(t)
        /\ queue \cup Others(t) \subseteq added
        /\ queue' \subseteq Checks /\ nTodo' \in Nat
        /\ state' \in [Threads -> States] /\ vChecks' \in [Threads -> SUBSET Checks]
        /\ \A u \in Threads : state'[u] = IF u = t THEN "waiting" ELSE st[u]
        /\ \A u \in Threads : vChecks'[u] = IF u = t THEN {} ELSE vChecks[u]
        /\ Closed => queue \cup Others(t) = {}
    BY <1>4, <2>1, <2>2, SectionEnds, "waiting" \in {"done", "waiting", "busy"}, {} \in SUBSET queue, Zenon
  <2>4. CountsExact' /\ nIdle' \in Nat /\ nTotal' \in Nat
    <3>1. state'[t] = "waiting" /\ state' = [st EXCEPT ![t] = state'[t]]  BY <1>1, <2>1
    <3>2. /\ Cardinality(IdleOf(state')) + Left = idle + 1 /\ Cardinality(TotalOf(state')) + Left = total
          /\ Cardinality(IdleOf(state')) \in Nat /\ Cardinality(TotalOf(state')) \in Nat
      BY <1>1, <1>2, <1>8, <3>1, CountsAfter
    <3> QED  BY <1>8, <2>1, <3>2, CountsPrimed
  <2>5. Verdicts' /\ Clean'
    <3>1. StaysInside(t, st, allOk, "waiting")
      BY <1>4, <2>1, <2>3 DEF StaysInside
    <3> QED
      BY <3>1, VerdictsKept, "waiting" \in {"waiting", "busy"}
  <2>6. ResultExact'  BY <1>3, <1>4, <2>1, <2>3 DEF IInv, ResultExact, Threads
  <2>7. TypeOK'  BY <1>2, <1>4, <2>1, <2>3, <2>4 DEF IInv, TypeOK
  <2> QED  BY <2>3, <2>4, <2>5, <2>6, <2>7 DEF IInv
<1>7. CASE Take(t, st, allOk, todo, idle, total)
  <2>1. PICK B \in SUBSET queue :
          /\ Cardinality(B) = nNow(idle, total) /\ queue' = queue \ B
          /\ vChecks' = [vChecks EXCEPT ![t] = B]
    BY <1>7, Zenon DEF Take
  <2>2. /\ queue # {} /\ nIdle' = idle /\ nTotal' = total /\ fAllOk' = allOk /\ nTodo' = todo
        /\ state' = [st EXCEPT ![t] = "busy"] /\ fOk' = [fOk EXCEPT ![t] = allOk] /\ fRet' = fRet
    BY <1>7 DEF Take
  <2>3. CountsExact' /\ nIdle' \in Nat /\ nTotal' \in Nat
    <3>1. state'[t] = "busy" /\ state' = [st EXCEPT ![t] = state'[t]]  BY <1>1, <2>2
    <3>2. /\ Cardinality(IdleOf(state')) + Left = idle /\ Cardinality(TotalOf(state')) + Left = total
          /\ Cardinality(IdleOf(state')) \in Nat /\ Cardinality(TotalOf(state')) \in Nat
      BY <1>1, <1>2, <1>8, <3>1, CountsAfter
    <3> QED  BY <1>8, <2>2, <3>2, CountsPrimed
  <2>4. B # {}
    <3>1. nNow(idle, total) \in Nat \ {0}  BY <2>2, <2>3, BatchNonempty, SMTT(30) DEF IInv, TypeOK
    <3> QED  BY <2>1, <3>1, FS_EmptySet
  <2>5. /\ Placed' /\ BatchHeld' /\ TodoExact'
        /\ queue' \cup InHand' = queue \cup Others(t)
        /\ queue \cup Others(t) \subseteq added
        /\ queue' \subseteq Checks /\ nTodo' \in Nat
        /\ state' \in [Threads -> States] /\ vChecks' \in [Threads -> SUBSET Checks]
        /\ \A u \in Threads : state'[u] = IF u = t THEN "busy" ELSE st[u]
        /\ \A u \in Threads : vChecks'[u] = IF u = t THEN B ELSE vChecks[u]
        /\ Closed => queue \cup Others(t) = {}
    BY <1>4, <2>1, <2>2, <2>4, SectionEnds, "busy" \in {"done", "waiting", "busy"}, Zenon
  <2>6. /\ fOk' \in [Threads -> BOOLEAN] /\ fOk'[t] = allOk
        /\ \A u \in Threads \ {t} : fOk'[u] = fOk[u]
    BY <1>2, <2>2, SMTT(30) DEF IInv, TypeOK
  <2>7. Verdicts' /\ Clean'
    <3>1. \A u \in Threads \ {t} : vChecks'[u] = vChecks[u] /\ fOk'[u] = fOk[u]
      BY <2>5, <2>6
    <3>2. fAllOk' = allOk /\ fOk'[t] = allOk /\ UNCHANGED <<good, unused, added>>
      BY <1>4, <2>2, <2>6
    <3>3. /\ queue' \cup InHand' = queue \cup Others(t)
          /\ queue \cup Others(t) \subseteq added
          /\ \A u \in Threads : state'[u] = IF u = t THEN "busy" ELSE st[u]
          /\ Closed => queue \cup Others(t) = {}
      BY <1>4, <2>5
    <3>4. StaysInside(t, st, allOk, "busy")
      BY <3>1, <3>2, <3>3 DEF StaysInside
    <3> QED
      BY <3>4, VerdictsKept, "busy" \in {"waiting", "busy"}
  <2>8. ResultExact'  BY <1>3, <1>4, <2>2, <2>5, Zenon DEF IInv, ResultExact, Threads
  <2>9. TypeOK'  BY <1>2, <1>4, <2>2, <2>3, <2>5, <2>6 DEF IInv, TypeOK
  <2> QED  BY <2>3, <2>5, <2>7, <2>8, <2>9 DEF IInv
<1> QED  BY <1>5, <1>6, <1>7

\* The first part of the critical section, for a thread that enters Loop.
LEMMA FirstBetween ==
  ASSUME IInv, NEW t \in Threads, state[t] = "enter"
  PROVE  Between(t, state, fAllOk, nTodo, nIdle, nTotal + 1)
<1>1. state \in [Threads -> States] /\ PlacedIn(state)  BY DEF IInv, TypeOK, Placed
<1>2. InHand = Others(t)  BY HandApart, Zenon DEF IInv, BatchHeld, TypeOK
<1>3. t \notin IdleOf(state) /\ t \notin TotalOf(state)  BY DEF IdleOf, TotalOf
<1>4. IdleOf(state) \ {t} = IdleOf(state)  BY <1>3
<1>5. Cardinality(TotalOf(state) \cup {t}) = Cardinality(TotalOf(state)) + 1
  BY <1>1, <1>3, CountedFinite, FS_AddElement, Zenon
<1>6. Wakes(state, state)  BY <1>1 DEF Wakes
<1>7. nTotal + 1 = Cardinality(TotalOf(state) \cup {t}) + Left
  BY <1>1, <1>5, CountedFinite, FS_CardinalityType, LeftNat DEF IInv, TypeOK, CountsExact
<1> QED
  BY <1>2, <1>4, <1>6, <1>7, Zenon DEF Between, IInv, TypeOK, Clean, CountsExact, TodoExact, Verdicts

\* The same for a thread that wakes up.
LEMMA WakeBetween ==
  ASSUME IInv, NEW t \in Threads, state[t] = "woken"
  PROVE  Between(t, state, fAllOk, nTodo, nIdle - 1, nTotal)
<1>1. state \in [Threads -> States] /\ PlacedIn(state)  BY DEF IInv, TypeOK, Placed
<1>2. InHand = Others(t)  BY HandApart, Zenon DEF IInv, BatchHeld, TypeOK
<1>3. t \in IdleOf(state) /\ t \in TotalOf(state)  BY DEF IdleOf, TotalOf
<1>4. TotalOf(state) \cup {t} = TotalOf(state)  BY <1>3
<1>5. Cardinality(IdleOf(state) \ {t}) = Cardinality(IdleOf(state)) - 1
  BY <1>1, <1>3, CountedFinite, FS_RemoveElement, Zenon
<1>6. Wakes(state, state)  BY <1>1 DEF Wakes
<1>7. nIdle - 1 = Cardinality(IdleOf(state) \ {t}) + Left
  BY <1>1, <1>5, CountedFinite, FS_CardinalityType, LeftNat DEF IInv, TypeOK, CountsExact
<1> QED
  BY <1>2, <1>4, <1>6, <1>7, Zenon DEF Between, IInv, TypeOK, Clean, CountsExact, TodoExact, Verdicts

\* The same for a thread that reports its batch and may wake the master.
LEMMA AgainBetween ==
  ASSUME IInv, NEW t \in Threads, state[t] = "loop",
         NEW st \in AfterBatch(t, nTodo - Finished(t))
  PROVE  Between(t, st, Verdict(t), nTodo - Finished(t), nIdle, nTotal)
<1>1. state \in [Threads -> States] /\ PlacedIn(state) /\ vChecks \in [Threads -> SUBSET Checks]
      /\ queue \subseteq Checks /\ fAllOk \in BOOLEAN /\ fOk[t] \in BOOLEAN
  BY DEF IInv, TypeOK, Placed
<1>2. Wakes(state, st)
  <2>1. Wakes(state, state)  BY <1>1 DEF Wakes
  <2> QED  BY <1>1, <2>1, NotifyOneWakes, Zenon DEF AfterBatch, Threads
<1>3. IdleOf(st) = IdleOf(state) /\ TotalOf(st) = TotalOf(state)  BY <1>1, <1>2, WakesKeeps
<1>4. t \notin IdleOf(state) /\ t \in TotalOf(state)  BY DEF IdleOf, TotalOf
<1>5. IdleOf(st) \ {t} = IdleOf(state) /\ TotalOf(st) \cup {t} = TotalOf(state)  BY <1>3, <1>4
<1>6. InHand = Others(t) \cup vChecks[t]  BY <1>1, HandApart
<1>7. vChecks[t] \cap (queue \cup Others(t)) = {}  BY <1>6 DEF IInv, TodoExact, Others
<1>8. queue \cup Others(t) \in SUBSET Checks /\ vChecks[t] \in SUBSET Checks
  BY <1>1 DEF Others
<1>9. nTodo - Finished(t) = Cardinality(queue \cup Others(t))
  <2>1. queue \cup InHand = (queue \cup Others(t)) \cup vChecks[t]  BY <1>6
  <2>2. nTodo = Cardinality(queue \cup Others(t)) + Cardinality(vChecks[t])
    BY <1>7, <1>8, <2>1, DisjointSize DEF IInv, TodoExact
  <2> QED  BY <1>8, <2>2, ChecksFinite DEF Finished
<1>10. ~Closed  BY <1>6 DEF IInv, Clean, BatchHeld
<1>11. Verdict(t) => added \ (queue \cup Others(t)) \subseteq good
  BY <1>6, <1>10 DEF Verdict, IInv, Verdicts
<1>12. ~Verdict(t) => ~(added \subseteq good)  BY DEF Verdict, IInv, Verdicts
<1>13. Verdict(t) \in BOOLEAN  BY <1>1 DEF Verdict
<1>14. nIdle = Cardinality(IdleOf(st) \ {t}) + Left /\ nTotal = Cardinality(TotalOf(st) \cup {t}) + Left
  BY <1>5 DEF IInv, CountsExact
<1> QED  BY <1>2, <1>9, <1>10, <1>11, <1>12, <1>13, <1>14 DEF Between

(***************************************************************************)
(* The actions, and the theorems.                                          *)
(***************************************************************************)

\* The queue as constructed, with the workers about to enter.
LEMMA InitKeeps == Init => IInv
<1> SUFFICES ASSUME Init PROVE IInv  OBVIOUS
<1>1. /\ queue = {} /\ nIdle = 0 /\ nTotal = 0 /\ fAllOk = TRUE /\ nTodo = 0 /\ control = None
      /\ state = [t \in Threads |-> IF t \in Workers THEN "enter" ELSE "out"]
      /\ vChecks = [t \in Threads |-> {}] /\ fOk = [t \in Threads |-> TRUE]
      /\ fRet = [m \in Masters |-> TRUE] /\ good \subseteq Checks /\ unused = Checks /\ added = {}
      /\ interrupted = {}
  BY DEF Init
<1>2. TypeOK  BY <1>1 DEF TypeOK, States, Threads
<1>3. InHand = {}  BY <1>1 DEF InHand
<1>4. IdleOf(state) = {} /\ TotalOf(state) = {}  BY <1>1 DEF IdleOf, TotalOf
<1>5. CountsExact  BY <1>1, <1>4, FS_EmptySet DEF CountsExact, Left
<1>6. \A m \in Masters : state[m] = "out"  BY <1>1, QueueAssumption DEF Threads
<1>7. Placed  BY <1>1, <1>6, QueueAssumption DEF Placed, PlacedIn, Threads
<1>8. BatchHeld  BY <1>1 DEF BatchHeld
<1>9. TodoExact  BY <1>1, <1>3, FS_EmptySet DEF TodoExact
<1>10. Verdicts /\ Clean  BY <1>1, <1>3, <1>6 DEF Verdicts, Clean, Closed
<1>11. ResultExact  BY <1>6 DEF ResultExact
<1> QED  BY <1>2, <1>5, <1>7, <1>8, <1>9, <1>10, <1>11 DEF IInv

\* A thread that only moves between two states leaves the work alone.
LEMMA Moved ==
  ASSUME IInv, NEW t \in Threads, NEW x \in States, state' = [state EXCEPT ![t] = x],
         UNCHANGED <<queue, vChecks>>
  PROVE  /\ state \in [Threads -> States] /\ state' \in [Threads -> States]
         /\ \A u \in Threads : state'[u] = IF u = t THEN x ELSE state[u]
         /\ InHand' = InHand
BY DEF IInv, TypeOK, InHand

\* CCheckQueueControl's constructor finds the queue clean.
LEMMA EnterKeeps ==
  ASSUME IInv, NEW m \in Masters, Enter(m)
  PROVE  IInv'
<1>1. /\ state[m] = "out" /\ control = None /\ control' = m /\ added' = {}
      /\ state' = [state EXCEPT ![m] = "adding"]
      /\ UNCHANGED <<queue, nIdle, nTotal, fAllOk, nTodo, vChecks, fOk, fRet, interrupted, good, unused>>
  BY DEF Enter, members
<1>2. m \in Threads /\ "adding" \in States  BY DEF Threads, States
<1>3. /\ state \in [Threads -> States] /\ state' \in [Threads -> States]
      /\ \A u \in Threads : state'[u] = IF u = m THEN "adding" ELSE state[u]
      /\ InHand' = InHand
  BY <1>1, <1>2, Moved, Zenon
<1>4. \A k \in Masters : state[k] = "out"  BY <1>1, QueueAssumption DEF IInv, Placed, PlacedIn
<1>5. Closed /\ queue \cup InHand = {} /\ fAllOk  BY <1>4 DEF Closed, IInv, Clean
<1>6. TypeOK'  BY <1>1, <1>3 DEF IInv, TypeOK
<1>7. IdleOf(state') = IdleOf(state) /\ TotalOf(state') = TotalOf(state)
  BY <1>1, <1>3 DEF IdleOf, TotalOf
<1>8. CountsExact'  BY <1>1, <1>7, CountsPrimed DEF IInv, CountsExact, Left
<1>9. Placed'
  BY <1>1, <1>3, <1>4, QueueAssumption DEF IInv, Placed, PlacedIn, Threads
<1>10. BatchHeld'  BY <1>1, <1>3, SMTT(30) DEF IInv, BatchHeld
<1>11. TodoExact'  BY <1>1, <1>3, Zenon DEF IInv, TodoExact
<1>12. \A u \in Threads : state[u] \notin {"busy", "loop"}
  BY <1>5, SMTT(30) DEF IInv, BatchHeld, InHand
<1>13. Verdicts'  BY <1>1, <1>3, <1>5, <1>12 DEF Verdicts
<1>14. ~Closed'  BY <1>2, <1>3 DEF Closed
<1>15. Clean'  BY <1>14 DEF Clean
<1>16. ResultExact'  BY <1>2, <1>3, <1>4 DEF ResultExact, Threads
<1> QED  BY <1>6, <1>8, <1>9, <1>10, <1>11, <1>13, <1>15, <1>16 DEF IInv

\* Add counts what it queues, whomever it wakes.
LEMMA AddKeeps ==
  ASSUME IInv, NEW m \in Masters, NEW new \in SUBSET unused, Add(m, new)
  PROVE  IInv'
<1>1. /\ state[m] = "adding" /\ queue' = queue \cup new /\ nTodo' = nTodo + Cardinality(new)
      /\ unused' = unused \ new /\ added' = added \cup new
      /\ UNCHANGED <<nIdle, nTotal, fAllOk, control, vChecks, fOk, fRet, interrupted, good>>
  BY DEF Add
<1>2. /\ state \in [Threads -> States] /\ unused \subseteq Checks /\ added \subseteq Checks
      /\ queue \subseteq Checks /\ vChecks \in [Threads -> SUBSET Checks] /\ nTodo \in Nat
  BY DEF IInv, TypeOK
<1>3. Cardinality(new) \in Nat /\ new \in SUBSET Checks  BY <1>2, ChecksFinite
<1>4. Wakes(state, state')
  <2>1. Wakes(state, state)  BY <1>2 DEF Wakes
  <2>2. Workers \in SUBSET Threads  BY DEF Threads
  <2>3. \/ state' = state \/ state' \in NotifyOne(state, Workers)
        \/ state' = NotifyAll(state, Workers)
    BY DEF Add
  <2> QED  BY <1>2, <2>1, <2>2, <2>3, NotifyOneWakes, NotifyAllWakes
<1>5. state' \in [Threads -> States]  BY <1>4 DEF Wakes
<1>6. \A u \in Threads : state'[u] = state[u] \/ (state[u] = "waiting" /\ state'[u] = "woken")
  BY <1>4 DEF Wakes
<1>7. InHand' = InHand  BY <1>1 DEF InHand
<1>8. new \cap (queue \cup InHand) = {}  BY DEF IInv, Verdicts
<1>9. TypeOK'  BY <1>1, <1>2, <1>3, <1>5 DEF IInv, TypeOK
<1>10. IdleOf(state') = IdleOf(state) /\ TotalOf(state') = TotalOf(state)
  BY <1>2, <1>4, WakesKeeps
<1>11. CountsExact'  BY <1>1, <1>10, CountsPrimed DEF IInv, CountsExact, Left
<1>12. Placed'  BY <1>1, <1>6 DEF IInv, Placed, PlacedIn, Threads
<1>13. BatchHeld'  BY <1>1, <1>6 DEF IInv, BatchHeld
<1>14. TodoExact'
  <2>1. queue' \cup InHand' = (queue \cup InHand) \cup new  BY <1>1, <1>7
  <2>2. queue \cup InHand \in SUBSET Checks  BY <1>2 DEF InHand
  <2>3. nTodo' = Cardinality(queue' \cup InHand')
    BY <1>1, <1>3, <1>8, <2>1, <2>2, DisjointSize, Zenon DEF IInv, TodoExact
  <2> QED  BY <1>1, <1>7, <1>8, <2>3 DEF IInv, TodoExact
<1>15. ~Closed /\ ~Closed'  BY <1>1, <1>6 DEF Closed, Threads
<1>16. Verdicts'
  <2>1. queue' \cup InHand' \subseteq added' /\ added' \cap unused' = {}
    BY <1>1, <1>7 DEF IInv, Verdicts
  <2>2. fAllOk' => added' \ (queue' \cup InHand') \subseteq good'
    BY <1>1, <1>7, <1>15 DEF IInv, Verdicts
  <2>3. ~fAllOk' => ~(added' \subseteq good')  BY <1>1 DEF IInv, Verdicts
  <2>4. \A t \in Threads : state'[t] \in {"busy", "loop"} /\ ~fOk'[t] => ~(added' \subseteq good')
    BY <1>1, <1>6 DEF IInv, Verdicts
  <2>5. \A t \in Threads : state'[t] = "loop" /\ fOk'[t] => vChecks'[t] \subseteq good'
    BY <1>1, <1>6 DEF IInv, Verdicts
  <2> QED  BY <2>1, <2>2, <2>3, <2>4, <2>5 DEF Verdicts
<1>17. Clean'  BY <1>15 DEF Clean
<1>18. ResultExact'
  <2>1. \A k \in Masters : state[k] # "done"  BY <1>1 DEF IInv, Placed, PlacedIn
  <2> QED  BY <1>6, <2>1 DEF ResultExact, Threads
<1> QED  BY <1>9, <1>11, <1>12, <1>13, <1>14, <1>16, <1>17, <1>18 DEF IInv

\* Wait's call, a wake-up without a notification and a worker's interrupt.
LEMMA QuietKeeps ==
  ASSUME IInv, NEW t \in Threads, NEW x,
         \/ t \in Masters /\ state[t] = "adding" /\ x = "enter"
         \/ state[t] = "waiting" /\ x = "woken"
         \/ t \in Workers /\ state[t] \in {"waiting", "woken"} /\ x = "gone",
         state' = [state EXCEPT ![t] = x],
         UNCHANGED <<members, control, vChecks, fOk, fRet, interrupted, good, unused, added>>
  PROVE  IInv'
<1>1. UNCHANGED <<queue, nIdle, nTotal, fAllOk, nTodo, control, vChecks, fOk, fRet,
                  interrupted, good, unused, added>>
  BY DEF members
<1>2. x \in States  BY DEF States
<1>3. /\ state \in [Threads -> States] /\ state' \in [Threads -> States]
      /\ \A u \in Threads : state'[u] = IF u = t THEN x ELSE state[u]
      /\ InHand' = InHand
  BY <1>1, <1>2, Moved, Zenon
<1>4. TypeOK'  BY <1>1, <1>3 DEF IInv, TypeOK
<1>5. IdleOf(state') = IdleOf(state) /\ TotalOf(state') = TotalOf(state)
  BY <1>3 DEF IdleOf, TotalOf
<1>6. CountsExact'  BY <1>1, <1>5, CountsPrimed DEF IInv, CountsExact, Left
<1>7. Placed'
  BY <1>1, <1>3, QueueAssumption DEF IInv, Placed, PlacedIn, Threads
<1>8. BatchHeld'  BY <1>1, <1>3 DEF IInv, BatchHeld
<1>9. TodoExact'  BY <1>1, <1>3 DEF IInv, TodoExact
<1>10. Closed' <=> Closed  BY <1>3, QueueAssumption DEF Closed, Threads
<1>11. \A u \in Threads : state'[u] \in {"busy", "loop", "done"} => state'[u] = state[u]  BY <1>3
<1>12. Verdicts'  BY <1>1, <1>3, <1>10, <1>11, SMTT(30) DEF IInv, Verdicts
<1>13. Clean'  BY <1>1, <1>3, <1>10 DEF IInv, Clean
<1>14. ResultExact'  BY <1>1, <1>11 DEF IInv, ResultExact, Threads
<1> QED  BY <1>4, <1>6, <1>7, <1>8, <1>9, <1>12, <1>13, <1>14 DEF IInv

\* A master whose wait is interrupted waits again, and is counted once more.
LEMMA MasterInterrupted ==
  ASSUME IInv, NEW m \in Masters, Interrupt(m)
  PROVE  IInv'
<1>1. /\ state[m] \in {"waiting", "woken"} /\ m \notin interrupted
      /\ state' = [state EXCEPT ![m] = "enter"] /\ interrupted' = interrupted \cup {m}
      /\ UNCHANGED <<queue, nIdle, nTotal, fAllOk, nTodo, control, vChecks, fOk, fRet,
                     good, unused, added>>
  BY DEF Interrupt, members
<1>2. m \in Threads /\ "enter" \in States  BY DEF Threads, States
<1>3. /\ state \in [Threads -> States] /\ state' \in [Threads -> States]
      /\ \A u \in Threads : state'[u] = IF u = m THEN "enter" ELSE state[u]
      /\ InHand' = InHand
  BY <1>1, <1>2, Moved, Zenon
<1>4. TypeOK'  BY <1>1, <1>3 DEF IInv, TypeOK
<1>5. CountsExact'
  <2>1. IdleOf(state') = IdleOf(state) \ {m} /\ TotalOf(state') = TotalOf(state) \ {m}
    BY <1>3 DEF IdleOf, TotalOf
  <2>2. m \in IdleOf(state) /\ m \in TotalOf(state)  BY <1>1, <1>2 DEF IdleOf, TotalOf
  <2>3. IsFiniteSet(IdleOf(state)) /\ IsFiniteSet(TotalOf(state))
    BY <1>3, CountedFinite DEF IInv, Placed
  <2>4. /\ Cardinality(IdleOf(state')) = Cardinality(IdleOf(state)) - 1
        /\ Cardinality(TotalOf(state')) = Cardinality(TotalOf(state)) - 1
    BY <2>1, <2>2, <2>3, FS_RemoveElement
  <2>5. Cardinality(IdleOf(state)) \in Nat /\ Cardinality(TotalOf(state)) \in Nat
    BY <2>3, FS_CardinalityType
  <2>6. IsFiniteSet(interrupted) /\ Left \in Nat  BY LeftNat DEF IInv, TypeOK
  <2>7. Left' = Left + 1  BY <1>1, <2>6, FS_AddElement DEF Left
  <2> QED  BY <1>1, <2>4, <2>5, <2>6, <2>7, CountsPrimed DEF IInv, CountsExact
<1>6. Placed'
  BY <1>1, <1>3, QueueAssumption DEF IInv, Placed, PlacedIn, Threads
<1>7. BatchHeld'  BY <1>1, <1>3 DEF IInv, BatchHeld
<1>8. TodoExact'  BY <1>1, <1>3 DEF IInv, TodoExact
<1>9. ~Closed /\ ~Closed'  BY <1>1, <1>2, <1>3 DEF Closed
<1>10. \A u \in Threads : state'[u] \in {"busy", "loop", "done"} => state'[u] = state[u]  BY <1>3
<1>11. Verdicts'  BY <1>1, <1>3, <1>9, <1>10, SMTT(30) DEF IInv, Verdicts
<1>12. Clean'  BY <1>9 DEF Clean
<1>13. ResultExact'  BY <1>1, <1>10 DEF IInv, ResultExact, Threads
<1> QED  BY <1>4, <1>5, <1>6, <1>7, <1>8, <1>11, <1>12, <1>13 DEF IInv

\* The destructor of CCheckQueueControl.
LEMMA LeaveKeeps ==
  ASSUME IInv, NEW m \in Masters, Leave(m)
  PROVE  IInv'
<1>1. /\ state[m] = "done" /\ state' = [state EXCEPT ![m] = "out"] /\ control' = None
      /\ UNCHANGED <<queue, nIdle, nTotal, fAllOk, nTodo, vChecks, fOk, fRet, interrupted, good, unused, added>>
  BY DEF Leave, members
<1>2. m \in Threads /\ "out" \in States  BY DEF Threads, States
<1>3. /\ state \in [Threads -> States] /\ state' \in [Threads -> States]
      /\ \A u \in Threads : state'[u] = IF u = m THEN "out" ELSE state[u]
      /\ InHand' = InHand
  BY <1>1, <1>2, Moved, Zenon
<1>4. \A k \in Masters : k # m => state[k] = "out"  BY <1>1 DEF IInv, Placed, PlacedIn
<1>5. Closed /\ Closed'  BY <1>1, <1>3, <1>4 DEF Closed, Threads
<1>6. TypeOK'  BY <1>1, <1>3 DEF IInv, TypeOK
<1>7. IdleOf(state') = IdleOf(state) /\ TotalOf(state') = TotalOf(state)
  BY <1>1, <1>3 DEF IdleOf, TotalOf
<1>8. CountsExact'  BY <1>1, <1>7, CountsPrimed DEF IInv, CountsExact, Left
<1>9. Placed'
  BY <1>1, <1>3, <1>4, QueueAssumption DEF IInv, Placed, PlacedIn, Threads
<1>10. BatchHeld'  BY <1>1, <1>3, SMTT(30) DEF IInv, BatchHeld
<1>11. TodoExact'  BY <1>1, <1>3 DEF IInv, TodoExact
<1>12. Verdicts'  BY <1>1, <1>3, <1>5 DEF IInv, Verdicts
<1>13. Clean'  BY <1>1, <1>3, <1>5 DEF IInv, Clean
<1>14. ResultExact'  BY <1>1, <1>3, <1>4 DEF ResultExact, Threads
<1> QED  BY <1>6, <1>8, <1>9, <1>10, <1>11, <1>12, <1>13, <1>14 DEF IInv

\* Running a batch turns what is known about fOk into what is known of the batch.
LEMMA ExecuteKeeps ==
  ASSUME IInv, NEW t \in Threads, Execute(t)
  PROVE  IInv'
<1>1. /\ state[t] = "busy" /\ state' = [state EXCEPT ![t] = "loop"]
      /\ fOk' = [fOk EXCEPT ![t] = fOk[t] /\ vChecks[t] \subseteq good]
      /\ UNCHANGED <<queue, nIdle, nTotal, fAllOk, nTodo, control, vChecks, fRet, interrupted, good, unused, added>>
  BY DEF Execute, members
<1>2. "loop" \in States  BY DEF States
<1>3. /\ state \in [Threads -> States] /\ state' \in [Threads -> States]
      /\ \A u \in Threads : state'[u] = IF u = t THEN "loop" ELSE state[u]
      /\ InHand' = InHand
  BY <1>1, <1>2, Moved, Zenon
<1>4. /\ fOk' \in [Threads -> BOOLEAN] /\ (fOk'[t] <=> fOk[t] /\ vChecks[t] \subseteq good)
      /\ \A u \in Threads \ {t} : fOk'[u] = fOk[u]
  BY <1>1, Zenon DEF IInv, TypeOK
<1>5. TypeOK'  BY <1>1, <1>3, <1>4 DEF IInv, TypeOK
<1>6. IdleOf(state') = IdleOf(state) /\ TotalOf(state') = TotalOf(state)
  BY <1>1, <1>3 DEF IdleOf, TotalOf
<1>7. CountsExact'  BY <1>1, <1>6, CountsPrimed, SMTT(30) DEF IInv, CountsExact, Left
<1>8. Placed'  BY <1>1, <1>3 DEF IInv, Placed, PlacedIn, Threads
<1>9. BatchHeld'  BY <1>1, <1>3, SMTT(30) DEF IInv, BatchHeld
<1>10. TodoExact'  BY <1>1, <1>3, Zenon DEF IInv, TodoExact
<1>11. Closed' <=> Closed  BY <1>1, <1>3 DEF Closed, Threads
<1>12. vChecks[t] \subseteq added  BY DEF IInv, Verdicts, InHand
<1>13. Verdicts'
  <2>1. queue' \cup InHand' \subseteq added' /\ added' \cap unused' = {}
    BY <1>1, <1>3, SMTT(30) DEF IInv, Verdicts
  <2>2. ~Closed' /\ fAllOk' => added' \ (queue' \cup InHand') \subseteq good'
    <3>1. ~Closed /\ fAllOk => added \ (queue \cup InHand) \subseteq good
      BY DEF IInv, Verdicts
    <3>2. queue' = queue /\ added' = added /\ good' = good /\ fAllOk' = fAllOk /\ InHand' = InHand
      BY <1>1, <1>3
    <3> QED  BY <3>1, <3>2, <1>11, Zenon
  <2>3. ~fAllOk' => ~(added' \subseteq good')  BY <1>1 DEF IInv, Verdicts
  <2>4. \A u \in Threads : state'[u] \in {"busy", "loop"} /\ ~fOk'[u] => ~(added' \subseteq good')
    BY <1>1, <1>3, <1>4, <1>12 DEF IInv, Verdicts
  <2>5. \A u \in Threads : state'[u] = "loop" /\ fOk'[u] => vChecks'[u] \subseteq good'
    <3> SUFFICES ASSUME NEW u \in Threads, state'[u] = "loop", fOk'[u]
                 PROVE  vChecks[u] \subseteq good
      BY <1>1
    <3>1. CASE u = t  BY <3>1, <1>4
    <3>2. CASE u # t
      <4>1. state[u] = "loop" /\ fOk[u]  BY <3>2, <1>3, <1>4
      <4> QED  BY <4>1 DEF IInv, Verdicts
    <3> QED  BY <3>1, <3>2
  <2> QED  BY <2>1, <2>2, <2>3, <2>4, <2>5, Zenon DEF Verdicts
<1>14. Clean'  BY <1>1, <1>3, <1>11 DEF IInv, Clean
<1>15. ResultExact'  BY <1>1, <1>3 DEF IInv, ResultExact, Threads
<1> QED  BY <1>5, <1>7, <1>8, <1>9, <1>10, <1>13, <1>14, <1>15 DEF IInv

-----------------------------------------------------------------------------
\* Every step of a master or worker, in any interleaving, keeps the invariant.
THEOREM Inductive == Spec => []IInv
<1>1. ASSUME IInv, [Next]_vars PROVE IInv'
  <2>1. CASE UNCHANGED vars
    <3>1. /\ UNCHANGED <<state, queue, nIdle, nTotal, fAllOk, nTodo, control>>
          /\ UNCHANGED <<vChecks, fOk, fRet, interrupted, good, unused, added>>
      BY <2>1 DEF vars, members
    <3>2. TypeOK' /\ CountsExact'
      BY <1>1, <3>1 DEF IInv, TypeOK, CountsExact, Left, IdleOf, TotalOf
    <3>3. Placed' /\ BatchHeld' /\ TodoExact'
      BY <1>1, <3>1 DEF IInv, Placed, PlacedIn, BatchHeld, TodoExact, InHand
    <3>4. Verdicts' /\ Clean' /\ ResultExact'
      BY <1>1, <3>1 DEF IInv, Verdicts, InHand, Closed, Clean, ResultExact
    <3> QED  BY <3>2, <3>3, <3>4 DEF IInv
  <2>2. CASE \E m \in Masters : Enter(m)  BY <1>1, <2>2, EnterKeeps
  <2>3. ASSUME NEW m \in Masters, Wait(m) PROVE IInv'
    <3>1. m \in Threads  BY DEF Threads
    <3> QED  BY <1>1, <2>3, <3>1, QuietKeeps, Zenon DEF Wait
  <2>4. CASE \E m \in Masters : Leave(m)  BY <1>1, <2>4, LeaveKeeps
  <2>5. CASE \E m \in Masters : \E new \in SUBSET unused : Add(m, new)
    BY <1>1, <2>5, AddKeeps
  <2>6. ASSUME NEW t \in Threads, First(t) PROVE IInv'
    BY <1>1, <2>6, FirstBetween, GoKeeps DEF First
  <2>7. ASSUME NEW t \in Threads, Again(t) PROVE IInv'
    BY <1>1, <2>7, AgainBetween, GoKeeps DEF Again
  <2>8. ASSUME NEW t \in Threads, Wake(t) PROVE IInv'
    BY <1>1, <2>8, WakeBetween, GoKeeps DEF Wake
  <2>9. CASE \E t \in Threads : Execute(t)  BY <1>1, <2>9, ExecuteKeeps
  <2>10. ASSUME NEW t \in Threads, Spurious(t) PROVE IInv'
    BY <1>1, <2>10, QuietKeeps, Zenon DEF Spurious
  <2>11. ASSUME NEW t \in Threads, Interrupt(t) PROVE IInv'
    <3>1. CASE t \in Masters  BY <1>1, <2>11, <3>1, MasterInterrupted
    <3>2. CASE t \notin Masters
      <4>1. t \in Workers /\ {t} \cap Masters = {}  BY <3>2 DEF Threads
      <4>2. /\ state[t] \in {"waiting", "woken"} /\ state' = [state EXCEPT ![t] = "gone"]
            /\ interrupted' = interrupted
            /\ UNCHANGED <<members, control, vChecks, fOk, fRet, good, unused, added>>
        BY <2>11, <3>2, <4>1 DEF Interrupt
      <4> QED  BY <1>1, <4>1, <4>2, QuietKeeps, Zenon
    <3> QED  BY <3>1, <3>2
  <2> QED
    BY <1>1, <2>1, <2>2, <2>3, <2>4, <2>5, <2>6, <2>7, <2>8, <2>9, <2>10, <2>11, SMTT(30) DEF Next, Loop
<1> QED  BY <1>1, InitKeeps, PTL DEF Spec

\* nTodo counts exactly the checks that are queued or in a batch, and no check
\* is run by two threads, whatever the number of threads and batch size.
THEOREM TodoIsExact == Spec => []TodoExact
BY Inductive, PTL DEF IInv

\* Wait returns whether every check of the block passes, however the batches
\* were split between the threads and whenever one of them, the master included,
\* was interrupted.
THEOREM ResultIsExact == Spec => []ResultExact
BY Inductive, PTL DEF IInv

\* A master that takes the control finds no work and no failure of another one.
THEOREM LeftUnused == Spec => []QueueUnused
<1>1. IInv => QueueUnused
  <2> SUFFICES ASSUME IInv, control = None
               PROVE  queue \cup InHand = {} /\ nTodo = 0 /\ fAllOk
    BY DEF QueueUnused
  <2>1. Closed  BY QueueAssumption DEF IInv, Placed, PlacedIn, Closed
  <2>2. queue \cup InHand = {} /\ fAllOk  BY <2>1 DEF IInv, Clean
  <2>3. nTodo = 0  BY <2>2, FS_EmptySet DEF IInv, TodoExact
  <2> QED  BY <2>2, <2>3
<1> QED  BY <1>1, Inductive, PTL
=============================================================================
