----------------------------- MODULE ParentStack -----------------------------
(***************************************************************************)
(* The stack of ancestors the treap walks keep: class ParentStack of       *)
(* src/stake/treap/treapnode.{h,cpp}.  The first StaticDepth items are in  *)
(* an array, the others in a vector that pop never shortens.               *)
(*                                                                         *)
(* "pushed" is not in the code: it is the stack the comments promise.      *)
(***************************************************************************)
EXTENDS Integers, Sequences, SequencesExt

CONSTANTS
  Nodes,         \* tree nodes; the code stores pointers to them
  Null,          \* nullptr
  StaticDepth,   \* size of the array (128 in the code)
  MaxDepth,      \* bound: depth of the stack
  PushAfterPop   \* the caller pushes past StaticDepth after popping there:
                 \* forEach and forEachByHeight do, put and deleteKey do not

ASSUME StackAssumption ==
  /\ Null \notin Nodes
  /\ StaticDepth \in Nat
  /\ MaxDepth \in Nat
  /\ PushAfterPop \in BOOLEAN

VARIABLES index, items, overflow, pushed

vars == <<index, items, overflow, pushed>>

\* Arrays are 0-based in the code and 1-based here: slot i is items[i + 1].
slot(i) == IF i < StaticDepth THEN items[i + 1] ELSE overflow[i - StaticDepth + 1]

at(n) == IF index - n - 1 < 0 THEN Null ELSE slot(index - n - 1)

Init ==
  /\ index = 0
  /\ items = [i \in 1..StaticDepth |-> Null]
  /\ overflow = << >>
  /\ pushed = << >>

CallerPushes ==
  /\ index < MaxDepth
  /\ index < StaticDepth \/ Len(overflow) = index - StaticDepth \/ PushAfterPop

push(node) ==
  /\ CallerPushes
  /\ IF index < StaticDepth
       THEN items' = [items EXCEPT ![index + 1] = node] /\ UNCHANGED overflow
       ELSE overflow' = Append(overflow, node) /\ UNCHANGED items
  /\ index' = index + 1
  /\ pushed' = Append(pushed, node)

\* Fault: the slot that is cleared is one too low.
pop_below ==
  /\ index > 0
  /\ index' = index - 1
  /\ IF index' < StaticDepth
       THEN items' = [items EXCEPT ![IF index' = 0 THEN 1 ELSE index'] = Null] /\ UNCHANGED overflow
       ELSE overflow' = [overflow EXCEPT ![index' - StaticDepth + 1] = Null] /\ UNCHANGED items
  /\ pushed' = Front(pushed)

\* The slot is cleared; the vector keeps its length.
pop ==
  /\ index > 0
  /\ index' = index - 1
  /\ IF index' < StaticDepth
       THEN items' = [items EXCEPT ![index' + 1] = Null] /\ UNCHANGED overflow
       ELSE overflow' = [overflow EXCEPT ![index' - StaticDepth + 1] = Null] /\ UNCHANGED items
  /\ pushed' = Front(pushed)

Next == pop \/ \E node \in Nodes : push(node)

Spec == Init /\ [][Next]_vars

-----------------------------------------------------------------------------
\* Every slot holds a node or nullptr, and no read is beyond the vector: at()
\* and pop() index it without a bounds check.
TypeOK ==
  /\ index \in 0..MaxDepth
  /\ items \in [1..StaticDepth -> Nodes \cup {Null}]
  /\ overflow \in Seq(Nodes \cup {Null})
  /\ pushed \in Seq(Nodes)
  /\ index - StaticDepth <= Len(overflow)

\* treapnode.h: at() "returns the item n number of items from the top of the
\* stack", pop() "removes the top item from the stack": the items are the ones
\* that were pushed and not popped, whatever was pushed and popped before.
StackAgrees ==
  /\ index = Len(pushed)
  /\ \A n \in 0..MaxDepth :
       at(n) = IF n < Len(pushed) THEN pushed[Len(pushed) - n] ELSE Null
=============================================================================
