----------------------------- MODULE TicketTreap -----------------------------
(***************************************************************************)
(* The immutable treap the stake node keeps its tickets in:                *)
(* src/stake/treap/tickettreap.cpp and treapnode.cpp.  Keys are ordered as *)
(* in a search tree, priorities (the height a ticket was first stored      *)
(* with) as in a min-heap, and every node counts the nodes below it.       *)
(*                                                                         *)
(* Treap nodes are cells of a store and are shared between treaps, as the  *)
(* shared_ptrs of the code are: put and deleteKey write only to the cells  *)
(* they have cloned.  A cell no treap reaches is freed.  "stored" is not   *)
(* in the code: it is the map the treap stands for.  "snapshot" is an      *)
(* older treap that is still in use (the one of a parent's stake node, or  *)
(* the one forEachByHeight is walking while its callback deletes).         *)
(***************************************************************************)
EXTENDS Integers, Sequences, FiniteSets, SequencesExt, FiniteSetsExt, Functions

CONSTANTS
  Keys,       \* ticket hashes, as integers: only their order matters
  Heights,    \* the heights a value may carry
  Reheight    \* TRUE: put may change the height of a key that is stored

ASSUME TreapAssumption ==
  Keys \subseteq Int /\ Heights \subseteq Nat /\ Reheight \in BOOLEAN

VARIABLES store, root, count, stored, snapshot

vars == <<store, root, count, stored, snapshot>>

null == 0

-----------------------------------------------------------------------------
TreapNode(key, value) ==
  [key |-> key, value |-> value, priority |-> value, size |-> 1,
   left |-> null, right |-> null]

sizeOf(st, n) == IF n = null THEN 0 ELSE st[n].size

RECURSIVE Reached(_, _)
Reached(st, n) ==
  IF n = null THEN << >>
  ELSE <<n>> \o Reached(st, st[n].left) \o Reached(st, st[n].right)

RECURSIVE forEach(_, _)
forEach(st, n) ==
  IF n = null THEN << >>
  ELSE forEach(st, st[n].left) \o <<[key |-> st[n].key, value |-> st[n].value]>>
         \o forEach(st, st[n].right)

\* Fault: the walk goes on into a subtree that starts at the bound.
RECURSIVE forEachByHeight_late(_, _, _)
forEachByHeight_late(st, n, bound) ==
  IF n = null \/ st[n].priority > bound THEN << >>
  ELSE forEachByHeight_late(st, st[n].left, bound)
         \o <<[key |-> st[n].key, value |-> st[n].value]>>
         \o forEachByHeight_late(st, st[n].right, bound)

\* A subtree is left out when the priority of its root reaches the bound.
RECURSIVE forEachByHeight(_, _, _)
forEachByHeight(st, n, bound) ==
  IF n = null \/ st[n].priority >= bound THEN << >>
  ELSE forEachByHeight(st, st[n].left, bound)
         \o <<[key |-> st[n].key, value |-> st[n].value]>>
         \o forEachByHeight(st, st[n].right, bound)

\* What an index out of bounds gives: the code throws, or follows nullptr.
OutOfBounds == [key |-> null, value |-> -1]

RECURSIVE WalkTo(_, _, _)
WalkTo(st, n, idx) ==
  LET below == sizeOf(st, st[n].left)
  IN IF n = null THEN OutOfBounds
     ELSE IF idx = below THEN [key |-> st[n].key, value |-> st[n].value]
     ELSE IF idx < below THEN WalkTo(st, st[n].left, idx)
     ELSE WalkTo(st, st[n].right, idx - below - 1)

getByIndex(st, n, idx) ==
  IF idx < 0 \/ idx >= sizeOf(st, n) THEN OutOfBounds ELSE WalkTo(st, n, idx)

-----------------------------------------------------------------------------
\* The search path for a key, from the root: to its node, or to the node the
\* key would hang from.
RECURSIVE PathTo(_, _, _)
PathTo(st, n, key) ==
  IF n = null THEN << >>
  ELSE <<n>> \o (CASE key < st[n].key -> PathTo(st, st[n].left, key)
                   [] key > st[n].key -> PathTo(st, st[n].right, key)
                   [] OTHER -> << >>)

Found(st, path, key) == path # << >> /\ st[Last(path)].key = key

\* The i-th free cell: the cells in use are always 1..n.
Free(st, i) == Cardinality(DOMAIN st) + i

Alloc(st, node) == (Free(st, 1) :> node) @@ st

Relink(st, parent, old, new) ==
  IF st[parent].left = old THEN [st EXCEPT ![parent].left = new]
  ELSE [st EXCEPT ![parent].right = new]

\* The cells of a path, cloned: clone i is linked to clone i + 1, and grow is
\* added to each size.
Copies(st, path) == [i \in DOMAIN path |-> Free(st, i)]

ClonePath(st, path, grow) ==
  LET copy == Copies(st, path)
      Clone(i) ==
        LET node == [st[path[i]] EXCEPT !.size = @ + grow]
        IN IF i = Len(path) THEN node
           ELSE IF node.left = path[i + 1] THEN [node EXCEPT !.left = copy[i + 1]]
           ELSE [node EXCEPT !.right = copy[i + 1]]
  IN [c \in Range(copy) |-> Clone(CHOOSE i \in DOMAIN copy : copy[i] = c)] @@ st

-----------------------------------------------------------------------------
\* Fault: the subtree between the two nodes is lost.
RotateUp_lost(st, parent, node) ==
  IF st[parent].left = node
    THEN [st EXCEPT ![node].size = @ + 1 + sizeOf(st, st[parent].right),
                    ![parent].size = @ - (1 + sizeOf(st, st[node].left)),
                    ![node].right = parent, ![parent].left = null]
    ELSE [st EXCEPT ![node].size = @ + 1 + sizeOf(st, st[parent].left),
                    ![parent].size = @ - (1 + sizeOf(st, st[node].right)),
                    ![node].left = parent, ![parent].right = null]

\* Fault: the sizes are left as they were.
RotateUp_sizes(st, parent, node) ==
  IF st[parent].left = node
    THEN [st EXCEPT ![node].right = parent, ![parent].left = st[node].right]
    ELSE [st EXCEPT ![node].left = parent, ![parent].right = st[node].left]

RotateUp(st, parent, node) ==
  IF st[parent].left = node
    THEN [st EXCEPT ![node].size = @ + 1 + sizeOf(st, st[parent].right),
                    ![parent].size = @ - (1 + sizeOf(st, st[node].left)),
                    ![node].right = parent, ![parent].left = st[node].right]
    ELSE [st EXCEPT ![node].size = @ + 1 + sizeOf(st, st[parent].left),
                    ![parent].size = @ - (1 + sizeOf(st, st[node].right)),
                    ![node].left = parent, ![parent].right = st[node].left]

\* The loop that moves a new node up while its priority is below its parent's.
RECURSIVE Rise(_, _, _)
Rise(st, parents, node) ==
  IF parents = << >> THEN [store |-> st, root |-> node]
  ELSE IF st[node].priority >= st[Last(parents)].priority THEN [store |-> st, root |-> parents[1]]
  ELSE LET parent  == Last(parents)
           above   == Front(parents)
           rotated == RotateUp(st, parent, node)
       IN Rise(IF above = << >> THEN rotated ELSE Relink(rotated, Last(above), parent, node),
               above, node)

put(key, value) ==
  LET path    == PathTo(store, root, key)
      parents == Copies(store, path)
  IN IF root = null
       THEN LET st == Alloc(store, TreapNode(key, value))
            IN [store |-> st, root |-> Free(store, 1), count |-> 1]
     ELSE IF Found(store, path, key)
       THEN [store |-> [ClonePath(store, path, 0) EXCEPT ![Last(parents)].value = value],
             root |-> parents[1], count |-> count]
     ELSE LET st     == ClonePath(store, path, 1)
              node   == Free(st, 1)
              linked == IF key < st[Last(parents)].key
                          THEN [Alloc(st, TreapNode(key, value)) EXCEPT ![Last(parents)].left = node]
                          ELSE [Alloc(st, TreapNode(key, value)) EXCEPT ![Last(parents)].right = node]
              risen  == Rise(linked, parents, node)
          IN [store |-> risen.store, root |-> risen.root, count |-> count + 1]

-----------------------------------------------------------------------------
\* Fault: the left child, when there is one, whatever its priority.
ChildIsLeft_always(st, n) == st[n].left # null

\* The child that takes the place of the node to delete.
ChildIsLeft(st, n) ==
  /\ st[n].left # null
  /\ st[n].right = null \/ st[st[n].left].priority <= st[st[n].right].priority

\* Fault: the child is rotated in place.
CloneChild_shared(st, child) == [store |-> st, cell |-> child]

CloneChild(st, child) == [store |-> Alloc(st, st[child]), cell |-> Free(st, 1)]

\* The loop that moves the node to delete down to a leaf and cuts it off.
RECURSIVE Sink(_, _, _, _)
Sink(st, top, parent, del) ==
  IF st[del].left = null /\ st[del].right = null
  THEN [store |-> IF st[parent].right = del THEN [st EXCEPT ![parent].right = null]
                  ELSE [st EXCEPT ![parent].left = null],
        root |-> top]
  ELSE LET isLeft  == ChildIsLeft(st, del)
           cloned  == CloneChild(st, IF isLeft THEN st[del].left ELSE st[del].right)
           cs      == cloned.store
           child   == cloned.cell
           rotated == IF isLeft
                        THEN [cs EXCEPT ![child].size = @ + sizeOf(cs, cs[del].right),
                                        ![child].right = del, ![del].left = cs[child].right]
                        ELSE [cs EXCEPT ![child].size = @ + sizeOf(cs, cs[del].left),
                                        ![child].left = del, ![del].right = cs[child].left]
       IN Sink(IF parent = null THEN rotated ELSE Relink(rotated, parent, del, child),
               IF parent = null THEN child ELSE top, child, del)

deleteKey(key) ==
  LET path   == PathTo(store, root, key)
      copies == Copies(store, path)
      del    == Last(copies)
      above  == Front(copies)
  IN IF ~Found(store, path, key)
       THEN [store |-> store, root |-> root, count |-> count]
     ELSE IF Len(path) = 1 /\ store[root].left = null /\ store[root].right = null
       THEN [store |-> store, root |-> null, count |-> 0]
     ELSE LET sunk == Sink(ClonePath(store, path, -1),
                           IF above = << >> THEN null ELSE above[1],
                           IF above = << >> THEN null ELSE Last(above), del)
          IN [store |-> sunk.store, root |-> sunk.root, count |-> count - 1]

-----------------------------------------------------------------------------
NoTreap == [root |-> null, contents |-> << >>]

Init ==
  /\ store = << >>
  /\ root = null
  /\ count = 0
  /\ stored = << >>
  /\ snapshot = NoTreap

\* The treap and the snapshot after an operation.  The cells that neither of
\* them reaches are freed; the others are numbered in the order in which a
\* walk meets them, since an address is only compared with another.
Hold(st, top, kept) ==
  \E old \in {Reached(st, kept.root)} :
  \E order \in {old \o SelectSeq(Reached(st, top), LAMBDA n : ~Contains(old, n))} :
    LET Number(n) == IF n = null THEN null ELSE CHOOSE i \in DOMAIN order : order[i] = n
    IN /\ store' = [i \in DOMAIN order |->
                      [st[order[i]] EXCEPT !.left = Number(@), !.right = Number(@)]]
       /\ root' = Number(top)
       /\ snapshot' = [kept EXCEPT !.root = Number(@)]

Become(treap) ==
  \E t \in {treap} :
    /\ Hold(t.store, t.root, snapshot)
    /\ count' = t.count

Put(key, value) ==
  /\ key \in DOMAIN stored => Reheight \/ stored[key] = value
  /\ Become(put(key, value))
  /\ stored' = (key :> value) @@ stored

DeleteKey(key) ==
  /\ Become(deleteKey(key))
  /\ stored' = Restrict(stored, DOMAIN stored \ {key})

\* A second holder copies the treap; the one it held before is dropped.
Snapshot ==
  /\ Hold(store, root, [root |-> root, contents |-> forEach(store, root)])
  /\ UNCHANGED <<count, stored>>

Next ==
  \/ \E key \in Keys, value \in Heights : Put(key, value)
  \/ \E key \in Keys : DeleteKey(key)
  \/ Snapshot

Spec == Init /\ [][Next]_vars

-----------------------------------------------------------------------------
\* Every pointer of a node leads to a node, and a node's priority is a height.
TypeOK ==
  /\ {root, snapshot.root} \subseteq DOMAIN store \cup {null}
  /\ \A c \in DOMAIN store :
       /\ store[c].key \in Keys
       /\ store[c].value \in Heights
       /\ store[c].priority \in Heights
       /\ {store[c].left, store[c].right} \subseteq DOMAIN store \cup {null}
  /\ count \in 0..Cardinality(Keys)

\* put and deleteKey are those of a map: forEach yields the stored keys, each
\* once and in order, with the value put last, and len() counts them.
TreapIsMap ==
  LET seq == forEach(store, root)
  IN /\ \A i \in 1..(Len(seq) - 1) : seq[i].key < seq[i + 1].key
     /\ Range(seq) = {[key |-> k, value |-> stored[k]] : k \in DOMAIN stored}
     /\ count = Len(seq)

\* The rotations of put and deleteKey keep the size of every subtree right:
\* getByIndex(i), which the lottery uses to turn an index into a ticket, is
\* the i-th ticket in key order, so that different indexes are different
\* tickets and every live ticket can be drawn.
IndexInOrder ==
  LET seq == forEach(store, root)
  IN \A i \in DOMAIN seq : getByIndex(store, root, i - 1) = seq[i]

\* The min-heap that isHeap() is meant to test: no node has a priority below
\* its parent's, after any rotations put or deleteKey made.
HeapOrdered ==
  \A c \in Range(Reached(store, root)) :
    \A child \in {store[c].left, store[c].right} \ {null} :
      store[child].priority >= store[c].priority

\* tickettreap.h: forEachByHeight visits "all elements in the tree less than a
\* given height", although it prunes on priorities and not on values: the
\* expiry of ConnectNode misses no ticket.
ByHeightComplete ==
  \A bound \in Heights \cup {Max(Heights) + 1} :
    forEachByHeight(store, root, bound)
      = SelectSeq(forEach(store, root), LAMBDA e : e.value < bound)

\* The treap is immutable: whatever is put into or deleted from a treap made
\* from it, an older treap keeps its contents, so the parent's stake node is
\* not changed by its child's, and a walk is not disturbed by its callback.
SnapshotUnchanged ==
  forEach(store, snapshot.root) = snapshot.contents
=============================================================================
