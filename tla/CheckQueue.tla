----------------------------- MODULE CheckQueue -----------------------------
(***************************************************************************)
(* The queue of script checks (src/checkqueue.h).  A master adds the checks *)
(* of a block and then helps the workers until none is left.  Each critical *)
(* section of the mutex is one step; checks run outside of it.              *)
(*                                                                         *)
(* The queue is a set: "the order of booleans doesn't matter".  fQuit is    *)
(* never set in the code.  At shutdown threadGroup.interrupt_all interrupts  *)
(* each thread of the group once, which throws from the wait, also when the *)
(* thread was just notified: workers end, and a master in the group (the    *)
(* import of blocks) waits again, in the destructor of its control.         *)
(***************************************************************************)
EXTENDS Integers, FiniteSets

CONSTANTS
  Checks,      \* every check that is ever added
  Masters,     \* threads that verify blocks
  Workers,     \* threads that run Thread()
  None,        \* no owner of ControlMutex
  nBatchSize   \* the most checks taken at once

ASSUME QueueAssumption ==
  /\ IsFiniteSet(Checks) /\ IsFiniteSet(Workers) /\ IsFiniteSet(Masters)
  /\ Masters \cap Workers = {} /\ None \notin Masters
  /\ nBatchSize \in Nat \ {0}

Threads == Masters \cup Workers

VARIABLES
  queue, nIdle, nTotal, fAllOk, nTodo,  \* the members
  control,                              \* owner of ControlMutex
  state,                                \* where each thread is
  vChecks, fOk,                         \* locals of Loop
  fRet,                                 \* what Wait returned
  interrupted,                          \* the masters whose wait was interrupted
  \* Not in the code: the checks that pass, those never added so far, and
  \* those added since the control was entered.
  good, unused, added

members == <<queue, nIdle, nTotal, fAllOk, nTodo>>
vars == <<members, control, state, vChecks, fOk, fRet, interrupted, good, unused, added>>

\* "out": not in Loop; "enter": about to lock for the first time; "waiting" and
\* "woken": in cond.wait; "busy": running checks; "loop": about to lock again.
States == {"out", "adding", "enter", "waiting", "woken", "busy", "loop", "done", "gone"}

Init ==
  /\ queue = {} /\ nIdle = 0 /\ nTotal = 0 /\ fAllOk = TRUE /\ nTodo = 0
  /\ control = None
  /\ state = [t \in Threads |-> IF t \in Workers THEN "enter" ELSE "out"]
  /\ vChecks = [t \in Threads |-> {}]
  /\ fOk = [t \in Threads |-> TRUE]
  /\ fRet = [m \in Masters |-> TRUE]
  /\ interrupted = {}
  /\ good \in SUBSET Checks
  /\ unused = Checks
  /\ added = {}

-----------------------------------------------------------------------------
Waiting(st, S) == {t \in S : st[t] = "waiting"}

\* The states of the threads after notify_one on the condition of S.
NotifyOne(st, S) ==
  IF Waiting(st, S) = {} THEN {st}
  ELSE {[st EXCEPT ![t] = "woken"] : t \in Waiting(st, S)}

NotifyAll(st, S) ==
  [t \in Threads |-> IF t \in Waiting(st, S) THEN "woken" ELSE st[t]]

\* CCheckQueueControl's constructor.
Enter(m) ==
  /\ state[m] = "out"
  /\ control = None
  /\ control' = m
  /\ state' = [state EXCEPT ![m] = "adding"]
  /\ added' = {}
  /\ UNCHANGED <<members, vChecks, fOk, fRet, interrupted, good, unused>>

Add(m, new) ==
  /\ state[m] = "adding"
  /\ queue' = queue \cup new
  /\ nTodo' = nTodo + Cardinality(new)
  /\ CASE Cardinality(new) = 0 -> state' = state
       [] Cardinality(new) = 1 -> state' \in NotifyOne(state, Workers)
       [] OTHER                -> state' = NotifyAll(state, Workers)
  /\ unused' = unused \ new
  /\ added' = added \cup new
  /\ UNCHANGED <<nIdle, nTotal, fAllOk, control, vChecks, fOk, fRet, interrupted, good>>

\* Wait, called by the master or by the destructor of its control.
Wait(m) ==
  /\ state[m] = "adding"
  /\ state' = [state EXCEPT ![m] = "enter"]
  /\ UNCHANGED <<members, control, vChecks, fOk, fRet, interrupted, good, unused, added>>

Leave(m) ==
  /\ state[m] = "done"
  /\ state' = [state EXCEPT ![m] = "out"]
  /\ control' = None
  /\ UNCHANGED <<members, vChecks, fOk, fRet, interrupted, good, unused, added>>

-----------------------------------------------------------------------------
nNow(idle, total) ==
  LET share == Cardinality(queue) \div (total + idle + 1)
      batch == IF share < nBatchSize THEN share ELSE nBatchSize
  IN IF batch < 1 THEN 1 ELSE batch

\* Fault: the result is not reset for the next block.
Return_sticky(t, st, allOk, todo, idle, total) ==
  /\ queue = {} /\ t \in Masters /\ todo = 0
  /\ nTotal' = total - 1
  /\ fRet' = [fRet EXCEPT ![t] = allOk]
  /\ fAllOk' = allOk
  /\ state' = [st EXCEPT ![t] = "done"]
  /\ vChecks' = [vChecks EXCEPT ![t] = {}]
  /\ nIdle' = idle /\ nTodo' = todo
  /\ UNCHANGED <<queue, fOk>>

\* The three ways out of the loop "while (queue.empty())".
Return(t, st, allOk, todo, idle, total) ==
  /\ queue = {} /\ t \in Masters /\ todo = 0
  /\ nTotal' = total - 1
  /\ fRet' = [fRet EXCEPT ![t] = allOk]
  /\ fAllOk' = TRUE
  /\ state' = [st EXCEPT ![t] = "done"]
  /\ vChecks' = [vChecks EXCEPT ![t] = {}]
  /\ nIdle' = idle /\ nTodo' = todo
  /\ UNCHANGED <<queue, fOk>>

Block(t, st, allOk, todo, idle, total) ==
  /\ queue = {} /\ ~(t \in Masters /\ todo = 0)
  /\ nIdle' = idle + 1
  /\ state' = [st EXCEPT ![t] = "waiting"]
  /\ vChecks' = [vChecks EXCEPT ![t] = {}]
  /\ fAllOk' = allOk /\ nTodo' = todo /\ nTotal' = total
  /\ UNCHANGED <<queue, fOk, fRet>>

Take(t, st, allOk, todo, idle, total) ==
  /\ queue # {}
  /\ \E batch \in SUBSET queue :
       /\ Cardinality(batch) = nNow(idle, total)
       /\ queue' = queue \ batch
       /\ vChecks' = [vChecks EXCEPT ![t] = batch]
  /\ fOk' = [fOk EXCEPT ![t] = allOk]
  /\ state' = [st EXCEPT ![t] = "busy"]
  /\ fAllOk' = allOk /\ nTodo' = todo /\ nIdle' = idle /\ nTotal' = total
  /\ UNCHANGED fRet

Go(t, st, allOk, todo, idle, total) ==
  /\ \/ Return(t, st, allOk, todo, idle, total)
     \/ Block(t, st, allOk, todo, idle, total)
     \/ Take(t, st, allOk, todo, idle, total)
  /\ UNCHANGED <<control, interrupted, good, unused, added>>

\* "first iteration"
First(t) ==
  /\ state[t] = "enter"
  /\ Go(t, state, fAllOk, nTodo, nIdle, nTotal + 1)

\* Fault: the last worker does not tell the master.
AfterBatch_silent(t, todo) == {state}

\* The worker that finishes the last check informs the master.
AfterBatch(t, todo) ==
  IF todo = 0 /\ t \in Workers THEN NotifyOne(state, Masters) ELSE {state}

\* Fault: the batch is not counted off when a check has already failed.
Finished_failing(t) == IF fOk[t] THEN Cardinality(vChecks[t]) ELSE 0

Finished(t) == Cardinality(vChecks[t])

\* Fault: a later batch overrides an earlier failure.
Verdict_last(t) == fOk[t]

Verdict(t) == fAllOk /\ fOk[t]

\* Clean-up of the previous batch, in the same critical section.
Again(t) ==
  /\ state[t] = "loop"
  /\ \E st \in AfterBatch(t, nTodo - Finished(t)) :
       Go(t, st, Verdict(t), nTodo - Finished(t), nIdle, nTotal)

Wake(t) ==
  /\ state[t] = "woken"
  /\ Go(t, state, fAllOk, nTodo, nIdle - 1, nTotal)

\* The checks of the batch run in order until one fails; none runs when a check
\* had failed before the batch was taken.
Execute(t) ==
  /\ state[t] = "busy"
  /\ fOk' = [fOk EXCEPT ![t] = fOk[t] /\ vChecks[t] \subseteq good]
  /\ state' = [state EXCEPT ![t] = "loop"]
  /\ UNCHANGED <<members, control, vChecks, fRet, interrupted, good, unused, added>>

\* boost::condition_variable::wait may return without a notification.
Spurious(t) ==
  /\ state[t] = "waiting"
  /\ state' = [state EXCEPT ![t] = "woken"]
  /\ UNCHANGED <<members, control, vChecks, fOk, fRet, interrupted, good, unused, added>>

\* The wait throws, and the thread leaves the counts as they are.
Interrupt(t) ==
  /\ state[t] \in {"waiting", "woken"} /\ t \notin interrupted
  /\ state' = [state EXCEPT ![t] = IF t \in Masters THEN "enter" ELSE "gone"]
  /\ interrupted' = interrupted \cup ({t} \cap Masters)
  /\ UNCHANGED <<members, control, vChecks, fOk, fRet, good, unused, added>>

Loop(t) == First(t) \/ Again(t) \/ Wake(t) \/ Execute(t)

Next ==
  \/ \E m \in Masters :
       \/ Enter(m) \/ Wait(m) \/ Leave(m)
       \/ \E new \in SUBSET unused : Add(m, new)
  \/ \E t \in Threads : Loop(t) \/ Spurious(t) \/ Interrupt(t)

Spec == Init /\ [][Next]_vars

\* A thread that can run is run.  Callers need not come, and nothing makes a
\* wait return early.
Fairness == \A t \in Threads : WF_vars(Loop(t))

FairSpec == Spec /\ Fairness

-----------------------------------------------------------------------------
InHand == UNION {vChecks[t] : t \in Threads}

TypeOK ==
  /\ queue \subseteq Checks /\ nIdle \in Nat /\ nTotal \in Nat
  /\ fAllOk \in BOOLEAN /\ nTodo \in Nat
  /\ control \in Masters \cup {None}
  /\ state \in [Threads -> States]
  /\ vChecks \in [Threads -> SUBSET Checks]
  /\ fOk \in [Threads -> BOOLEAN] /\ fRet \in [Masters -> BOOLEAN]
  /\ interrupted \subseteq Masters
  /\ good \subseteq Checks /\ unused \subseteq Checks /\ added \subseteq Checks

\* nTodo, on which the master decides that it is done, counts the checks that
\* are queued or in some thread's batch, and no check is in two places.
TodoExact ==
  /\ nTodo = Cardinality(queue \cup InHand)
  /\ queue \cap InHand = {}
  /\ \A t, u \in Threads : t # u => vChecks[t] \cap vChecks[u] = {}

\* What Wait returns is whether every check added since the control was entered
\* passes, however the batches were split and whichever thread failed first.
ResultExact ==
  \A m \in Masters : state[m] = "done" => (fRet[m] <=> added \subseteq good)

\* "passed queue is supposed to be unused": when no block holds the control,
\* nothing of the last one is left, neither work nor a failure.
QueueUnused ==
  control = None => queue \cup InHand = {} /\ nTodo = 0 /\ fAllOk

\* Wait returns, even if workers or the master are interrupted meanwhile.
WaitReturns == \A m \in Masters : state[m] = "enter" ~> state[m] = "done"
=============================================================================
