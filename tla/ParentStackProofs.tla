------------------------- MODULE ParentStackProofs -------------------------
(***************************************************************************)
(* The ancestor stack is a stack, for every StaticDepth, as put and        *)
(* deleteKey use it at any depth: they push on the way down and pop on the *)
(* way back, so that nothing is pushed past StaticDepth once something     *)
(* was popped there.  It is one for forEach too, while the tree is no      *)
(* deeper than the array.  The vector keeps its length when it is popped;  *)
(* a walk that pushes past the array again is the run parent_stack_deep.   *)
(***************************************************************************)
EXTENDS ParentStack, TLAPS

\* Who uses the stack: put and deleteKey, or a walk over a tree that fits
\* into the array.
SafeCaller == ~PushAfterPop \/ MaxDepth <= StaticDepth

\* The slots below the top hold what was pushed, in order.  Slots above it,
\* and the vector's length, are free: pop leaves the vector long.
SlotsHold ==
  /\ index = Len(pushed)
  /\ \A i \in 1..index : slot(i - 1) = pushed[i]

IInv == TypeOK /\ SlotsHold

\* A stack as constructed.
LEMMA InitHolds == Init => IInv
BY StackAssumption DEF Init, IInv, TypeOK, SlotsHold

\* push writes the slot that index names: the array's, or the vector's end,
\* which is the slot because the caller did not pop there before.
LEMMA PushHolds ==
  ASSUME SafeCaller, IInv, NEW node \in Nodes, push(node)
  PROVE  IInv'
<1>1. TypeOK /\ SlotsHold /\ index < MaxDepth /\ index' = index + 1 /\ pushed' = Append(pushed, node)
  BY DEF IInv, push, CallerPushes
<1>2. /\ index \in Nat /\ StaticDepth \in Nat /\ MaxDepth \in Nat
      /\ pushed \in Seq(Nodes) /\ overflow \in Seq(Nodes \cup {Null})
      /\ items \in [1..StaticDepth -> Nodes \cup {Null}]
      /\ index = Len(pushed)
  BY <1>1, StackAssumption DEF TypeOK, SlotsHold
<1>3. /\ pushed' \in Seq(Nodes) /\ Len(pushed') = index + 1 /\ pushed'[index + 1] = node
      /\ \A i \in 1..index : pushed'[i] = pushed[i]
  BY <1>1, <1>2
<1>4. CASE index < StaticDepth
  <2>1. items' = [items EXCEPT ![index + 1] = node] /\ overflow' = overflow
    BY <1>4 DEF push
  <2>2. TypeOK'
    BY <1>1, <1>2, <1>3, <1>4, <2>1 DEF TypeOK
  <2>3. \A i \in 1..index' : slot(i - 1)' = pushed'[i]
    BY <1>1, <1>2, <1>3, <1>4, <2>1 DEF SlotsHold, slot
  <2>4. QED
    BY <1>1, <1>3, <2>2, <2>3 DEF IInv, SlotsHold
<1>5. CASE ~(index < StaticDepth)
  <2>1. overflow' = Append(overflow, node) /\ items' = items /\ Len(overflow) = index - StaticDepth
    BY <1>1, <1>2, <1>5 DEF push, CallerPushes, SafeCaller
  <2>2. /\ overflow' \in Seq(Nodes \cup {Null}) /\ Len(overflow') = Len(overflow) + 1
        /\ overflow'[Len(overflow) + 1] = node
        /\ \A i \in 1..Len(overflow) : overflow'[i] = overflow[i]
    BY <1>2, <2>1
  <2>3. TypeOK'
    BY <1>1, <1>2, <1>3, <1>5, <2>1, <2>2 DEF TypeOK
  <2>4. \A i \in 1..index' : slot(i - 1)' = pushed'[i]
    BY <1>1, <1>2, <1>3, <1>5, <2>1, <2>2 DEF SlotsHold, slot
  <2>5. QED
    BY <1>1, <1>3, <2>3, <2>4 DEF IInv, SlotsHold
<1>6. QED
  BY <1>4, <1>5

\* pop clears the top slot and no other.
LEMMA PopHolds ==
  ASSUME IInv, pop
  PROVE  IInv'
<1>1. TypeOK /\ SlotsHold /\ index > 0 /\ index' = index - 1 /\ pushed' = Front(pushed)
  BY DEF IInv, pop
<1>2. /\ index \in Nat /\ StaticDepth \in Nat /\ MaxDepth \in Nat
      /\ pushed \in Seq(Nodes) /\ overflow \in Seq(Nodes \cup {Null})
      /\ items \in [1..StaticDepth -> Nodes \cup {Null}]
      /\ index = Len(pushed) /\ index - StaticDepth <= Len(overflow)
  BY <1>1, StackAssumption DEF TypeOK, SlotsHold
<1>3. /\ pushed' \in Seq(Nodes) /\ Len(pushed') = index - 1
      /\ \A i \in 1..(index - 1) : pushed'[i] = pushed[i]
  BY <1>1, <1>2 DEF Front
<1>4. CASE index' < StaticDepth
  <2>1. items' = [items EXCEPT ![index' + 1] = Null] /\ overflow' = overflow
    BY <1>4 DEF pop
  <2>2. TypeOK'
    BY <1>1, <1>2, <1>3, <1>4, <2>1 DEF TypeOK
  <2>3. \A i \in 1..index' : slot(i - 1)' = pushed'[i]
    <3> SUFFICES ASSUME NEW i \in 1..(index - 1) PROVE slot(i - 1)' = pushed'[i]
      BY <1>1
    <3>1. i \in 1..index /\ i - 1 < StaticDepth /\ i \in 1..StaticDepth /\ i # index' + 1
      BY <1>1, <1>2, <1>4
    <3>2. items'[i] = items[i]
      BY <1>2, <2>1, <3>1
    <3>3. slot(i - 1)' = items'[i] /\ slot(i - 1) = items[i]
      BY <3>1 DEF slot
    <3>4. QED
      BY <1>1, <1>3, <3>1, <3>2, <3>3 DEF SlotsHold
  <2>4. QED
    BY <1>1, <1>3, <2>2, <2>3 DEF IInv, SlotsHold
<1>5. CASE ~(index' < StaticDepth)
  <2>1. overflow' = [overflow EXCEPT ![index' - StaticDepth + 1] = Null] /\ items' = items
    BY <1>5 DEF pop
  <2>2. /\ overflow' \in Seq(Nodes \cup {Null}) /\ Len(overflow') = Len(overflow)
        /\ \A i \in 1..(index' - StaticDepth) : overflow'[i] = overflow[i]
    BY <1>1, <1>2, <1>5, <2>1
  <2>3. TypeOK'
    BY <1>1, <1>2, <1>3, <1>5, <2>1, <2>2 DEF TypeOK
  <2>4. \A i \in 1..index' : slot(i - 1)' = pushed'[i]
    <3> SUFFICES ASSUME NEW i \in 1..(index - 1) PROVE slot(i - 1)' = pushed'[i]
      BY <1>1
    <3>1. i \in 1..index /\ slot(i - 1) = pushed[i] /\ pushed'[i] = pushed[i]
      <4>1. i \in 1..index
        BY <1>2
      <4>2. slot(i - 1) = pushed[i]
        BY <1>1, <4>1 DEF SlotsHold
      <4>3. QED
        BY <1>3, <4>1, <4>2
    <3>2. slot(i - 1)' = slot(i - 1)
      BY <1>1, <1>2, <1>5, <2>1, <2>2, <3>1 DEF slot
    <3>3. QED
      BY <3>1, <3>2
  <2>5. QED
    BY <1>1, <1>3, <2>3, <2>4 DEF IInv, SlotsHold
<1>6. QED
  BY <1>4, <1>5

\* StackAgrees: at(n) is the n-th item from the top of what was pushed and not
\* popped, and nullptr below the bottom, however deep the treap is.
THEOREM StackCorrect ==
  ASSUME SafeCaller
  PROVE  Spec => []StackAgrees
<1>1. IInv /\ [Next]_vars => IInv'
  <2> SUFFICES ASSUME IInv, [Next]_vars PROVE IInv'
    OBVIOUS
  <2>1. CASE pop
    BY <2>1, PopHolds
  <2>2. ASSUME NEW node \in Nodes, push(node) PROVE IInv'
    BY <2>2, PushHolds
  <2>3. CASE UNCHANGED vars
    BY <2>3 DEF IInv, TypeOK, SlotsHold, slot, vars
  <2>4. QED
    BY <2>1, <2>2, <2>3 DEF Next
<1>2. IInv => StackAgrees
  <2> SUFFICES ASSUME IInv, NEW n \in 0..MaxDepth
               PROVE  at(n) = IF n < Len(pushed) THEN pushed[Len(pushed) - n] ELSE Null
    BY DEF IInv, SlotsHold, StackAgrees
  <2>1. index \in Nat /\ n \in Nat /\ index = Len(pushed)
    BY StackAssumption DEF IInv, TypeOK, SlotsHold
  <2>2. CASE n < index
    <3>1. index - n \in 1..index
      BY <2>1, <2>2
    <3>2. slot((index - n) - 1) = pushed[index - n]
      BY <3>1 DEF IInv, SlotsHold
    <3>3. QED
      BY <2>1, <2>2, <3>2 DEF at
  <2>3. CASE ~(n < index)
    BY <2>1, <2>3 DEF at
  <2>4. QED
    BY <2>2, <2>3
<1>3. QED
  BY InitHolds, <1>1, <1>2, PTL DEF Spec
=============================================================================
