-------------------------- MODULE BlockTreeProofs ---------------------------
(***************************************************************************)
(* Proof that every block of the active chain has a stake node, for every  *)
(* tree of blocks, every set of failing blocks, any number of threads, RPC *)
(* calls and restarts.                                                     *)
(***************************************************************************)
EXTENDS BlockTree, TLAPS, FiniteSetTheorems

(***************************************************************************)
(* The choice of a best element.                                           *)
(***************************************************************************)

\* A finite set that is not empty has a greatest element in any relation that
\* is transitive and compares any two elements of it.
LEMMA HasGreatest ==
  ASSUME NEW S, IsFiniteSet(S), S # {}, NEW R,
         \A a, b \in S : a # b => <<a, b>> \in R \/ <<b, a>> \in R,
         \A a, b, c \in S : <<a, b>> \in R /\ <<b, c>> \in R => <<a, c>> \in R
  PROVE  \E m \in S : \A x \in S : x = m \/ <<x, m>> \in R
<1> DEFINE Top(U) == \E m \in U : \A x \in U : x = m \/ <<x, m>> \in R
           T == {U \in SUBSET S : U # {} /\ ~Top(U)}
<1>1. SUFFICES ASSUME T # {} PROVE FALSE
  OBVIOUS
<1>2. /\ IsWellFoundedOn(StrictSubsetOrdering(S), FiniteSubsetsOf(S))
      /\ FiniteSubsetsOf(S) = SUBSET S
  BY FS_StrictSubsetOrderingWellFounded, FS_FiniteSubsetsOfFinite
<1>3. PICK U \in T : \A V \in T : ~(<<V, U>> \in StrictSubsetOrdering(S))
  <2>1. T \subseteq SUBSET S
    OBVIOUS
  <2> HIDE DEF T
  <2>2. QED
    BY <1>1, <1>2, <2>1, WFMin
<1>4. PICK u \in U : TRUE
  OBVIOUS
<1>5. Top(U \ {u})
  <2>1. U \ {u} # {}
    BY <1>3, <1>4
  <2>2. <<U \ {u}, U>> \in StrictSubsetOrdering(S)
    BY <1>3, <1>4 DEF StrictSubsetOrdering
  <2>3. U \ {u} \notin T
    BY <1>3, <2>2
  <2>4. QED
    BY <1>3, <2>1, <2>3
<1>6. PICK m \in U \ {u} : \A x \in U \ {u} : x = m \/ <<x, m>> \in R
  BY <1>5
<1>7. U \subseteq S /\ m \in S /\ u \in S /\ m # u
  BY <1>3, <1>4
<1>8. CASE <<u, m>> \in R
  BY <1>3, <1>6, <1>8
<1>9. CASE <<m, u>> \in R
  <2>1. \A x \in U : x = u \/ <<x, u>> \in R
    BY <1>6, <1>7, <1>9
  <2>2. QED
    BY <1>3, <1>4, <2>1
<1>10. QED
  BY <1>7, <1>8, <1>9

(***************************************************************************)
(* Chains of blocks.                                                       *)
(***************************************************************************)

\* A chain holds its block, goes on to the parents and has nothing else.
LEMMA ChainLeast ==
  ASSUME NEW b \in Blocks
  PROVE  /\ b \in Chain[b] /\ Chain[b] \subseteq Blocks /\ Closed(Chain[b])
         /\ \A S \in SUBSET Blocks : b \in S /\ Closed(S) => Chain[b] \subseteq S
<1>1. Chain[b] = {x \in Blocks : \A S \in SUBSET Blocks : b \in S /\ Closed(S) => x \in S}
  BY DEF Chain
<1>2. ASSUME NEW x \in Chain[b] \ {Genesis} PROVE pprev[x] \in Chain[b]
  <2>1. x \in Blocks /\ pprev[x] \in Blocks
    BY <1>1, BlockTreeAssumption
  <2>2. ASSUME NEW S \in SUBSET Blocks, b \in S, Closed(S) PROVE pprev[x] \in S
    <3>1. x \in S
      BY <1>1, <2>2
    <3>2. QED
      BY <2>2, <3>1 DEF Closed
  <2>3. QED
    BY <1>1, <2>1, <2>2
<1>3. Closed(Chain[b])
  BY <1>2 DEF Closed
<1>4. QED
  BY <1>1, <1>3

\* The chain of a block on a chain is part of that chain.
LEMMA ChainPart ==
  ASSUME NEW b \in Blocks, NEW x \in Chain[b]
  PROVE  Chain[x] \subseteq Chain[b]
<1>1. x \in Blocks /\ Chain[b] \in SUBSET Blocks /\ Closed(Chain[b])
  BY ChainLeast
<1>2. QED
  BY <1>1, ChainLeast

\* The blocks below a block have less work.
LEMMA ChainWork ==
  ASSUME NEW b \in Blocks, NEW x \in Chain[b], x # b
  PROVE  nChainWork[x] < nChainWork[b]
<1> DEFINE S == {b} \cup {y \in Blocks : nChainWork[y] < nChainWork[b]}
<1>1. ASSUME NEW y \in S \ {Genesis} PROVE pprev[y] \in S
  <2>1. y \in Blocks /\ pprev[y] \in Blocks /\ nChainWork[pprev[y]] < nChainWork[y]
    BY BlockTreeAssumption
  <2>2. nChainWork[y] <= nChainWork[b] /\ nChainWork \in [Blocks -> Nat]
    BY BlockTreeAssumption
  <2>3. QED
    BY <2>1, <2>2
<1>2. S \in SUBSET Blocks /\ b \in S /\ Closed(S)
  BY <1>1 DEF Closed
<1>3. QED
  BY <1>2, ChainLeast

\* No two blocks are on each other's chains.
LEMMA ChainAntisymmetric ==
  ASSUME NEW a \in Blocks, NEW b \in Blocks, a \in Chain[b], b \in Chain[a]
  PROVE  a = b
<1>1. nChainWork[a] \in Nat /\ nChainWork[b] \in Nat
  BY BlockTreeAssumption
<1>2. QED
  BY <1>1, ChainWork

\* What the headers accepted form: a tree with the genesis block at its root.
TreeOK == index \subseteq Blocks /\ Genesis \in index /\ Closed(index)

LEMMA ChainIndexed ==
  ASSUME TreeOK, NEW b \in index
  PROVE  Chain[b] \subseteq index
<1>1. b \in Blocks /\ index \in SUBSET Blocks
  BY DEF TreeOK
<1>2. QED
  BY <1>1, ChainLeast DEF TreeOK

(***************************************************************************)
(* The comparators.                                                        *)
(***************************************************************************)

OrderOK == nSequenceId \in [Blocks -> Int] /\ address \in Orders

\* The comparator of candidates is transitive and total.
LEMMA WorseOrder ==
  ASSUME OrderOK
  PROVE  /\ \A a, b \in Blocks : a # b => Worse(a, b, nSequenceId) \/ Worse(b, a, nSequenceId)
         /\ \A a, b, c \in Blocks :
              Worse(a, b, nSequenceId) /\ Worse(b, c, nSequenceId) => Worse(a, c, nSequenceId)
<1>1. /\ nChainWork \in [Blocks -> Nat] /\ nSequenceId \in [Blocks -> Int]
      /\ address \in [Blocks -> Int] /\ \A a, b \in Blocks : address[a] = address[b] => a = b
  BY BlockTreeAssumption DEF OrderOK
<1>2. ASSUME NEW a \in Blocks, NEW b \in Blocks, a # b
      PROVE  Worse(a, b, nSequenceId) \/ Worse(b, a, nSequenceId)
  BY <1>1, <1>2 DEF Worse
<1>3. ASSUME NEW a \in Blocks, NEW b \in Blocks, NEW c \in Blocks,
             Worse(a, b, nSequenceId), Worse(b, c, nSequenceId)
      PROVE  Worse(a, c, nSequenceId)
  BY <1>1, <1>3 DEF Worse
<1>4. QED
  BY <1>2, <1>3

\* Best chooses from the set it is given.
LEMMA BestIn ==
  ASSUME OrderOK, NEW S \in SUBSET Blocks, S # {}
  PROVE  Best(S) \in S
<1> DEFINE R == {p \in Blocks \X Blocks : Worse(p[1], p[2], nSequenceId)}
<1>1. \A a, b \in Blocks : <<a, b>> \in R <=> Worse(a, b, nSequenceId)
  OBVIOUS
<1>2. IsFiniteSet(S)
  BY FS_Subset, BlockTreeAssumption
<1>3. /\ \A a, b \in S : a # b => <<a, b>> \in R \/ <<b, a>> \in R
      /\ \A a, b, c \in S : <<a, b>> \in R /\ <<b, c>> \in R => <<a, c>> \in R
  <2> HIDE DEF R
  <2>1. QED
    BY <1>1, WorseOrder
<1>4. \E m \in S : \A x \in S : x = m \/ <<x, m>> \in R
  <2> HIDE DEF R
  <2>1. QED
    BY <1>2, <1>3, HasGreatest
<1>5. \E c \in S : \A x \in S : x = c \/ Worse(x, c, nSequenceId)
  <2> HIDE DEF R
  <2>1. QED
    BY <1>1, <1>4
<1>6. QED
  BY <1>5 DEF Best

\* There is a first candidate to try.
LEMMA FirstTried ==
  ASSUME OrderOK, NEW S \in SUBSET Blocks, S # {}, NEW preferred
  PROVE  \E c \in S : \A x \in S \ {c} : Sooner(c, x, preferred)
<1> DEFINE R == {p \in Blocks \X Blocks : Sooner(p[2], p[1], preferred)}
<1>1. \A a, b \in Blocks : <<a, b>> \in R <=> Sooner(b, a, preferred)
  OBVIOUS
<1>2. IsFiniteSet(S)
  BY FS_Subset, BlockTreeAssumption
<1>3. nChainWork \in [Blocks -> Nat]
  BY BlockTreeAssumption
<1>4. ASSUME NEW a \in Blocks, NEW b \in Blocks, a # b
      PROVE  Sooner(a, b, preferred) \/ Sooner(b, a, preferred)
  BY <1>3, <1>4, WorseOrder DEF Sooner
<1>5. ASSUME NEW a \in Blocks, NEW b \in Blocks, NEW c \in Blocks,
             Sooner(b, a, preferred), Sooner(c, b, preferred)
      PROVE  Sooner(c, a, preferred)
  BY <1>3, <1>5, WorseOrder DEF Sooner
<1> HIDE DEF R
<1>6. /\ \A a, b \in S : a # b => <<a, b>> \in R \/ <<b, a>> \in R
      /\ \A a, b, c \in S : <<a, b>> \in R /\ <<b, c>> \in R => <<a, c>> \in R
  BY <1>1, <1>4, <1>5
<1>7. \E m \in S : \A x \in S : x = m \/ <<x, m>> \in R
  BY <1>2, <1>6, HasGreatest
<1>8. QED
  BY <1>1, <1>7

(***************************************************************************)
(* The inductive invariant.                                                *)
(***************************************************************************)

\* Blocks are linked from the genesis block up, once their data are there.
LinkedOK ==
  /\ data \subseteq index /\ unlinked \subseteq data
  /\ linked \subseteq data /\ Genesis \in linked /\ Closed(linked)

NumbersOK == OrderOK /\ nBlockSequenceId \in Int /\ nBlockReverseSequenceId \in Int

\* What may be connected next: a linked block, also if it was chosen in an
\* earlier round.
ChosenOK ==
  /\ candidates \subseteq linked /\ tip \in linked
  /\ thread \in [Threads -> [busy : BOOLEAN, pblock : Blocks \cup {None}, most : linked \cup {None}]]

NodesOK == pstakeNode \in [Blocks -> {None, "full", "bare"}] /\ ActiveHasStakeNode

IInv == TreeOK /\ LinkedOK /\ NumbersOK /\ ChosenOK /\ NodesOK

\* The invariant holds at the start.
LEMMA InitInv == Init => IInv
<1> SUFFICES ASSUME Init PROVE IInv
  OBVIOUS
<1>1. Genesis \in Blocks /\ address \in Orders
  BY BlockTreeAssumption DEF Init
<1>2. Closed({Genesis})
  BY DEF Closed
<1>3. Chain[Genesis] = {Genesis}
  <2>1. {Genesis} \in SUBSET Blocks
    BY <1>1
  <2>2. QED
    BY <1>1, <1>2, <2>1, ChainLeast
<1>4. TreeOK /\ LinkedOK
  BY <1>1, <1>2 DEF Init, TreeOK, LinkedOK
<1>5. NumbersOK
  BY <1>1 DEF Init, NumbersOK, OrderOK
<1>6. ChosenOK
  BY <1>1 DEF Init, ChosenOK, Idle
<1>7. NodesOK
  BY <1>1, <1>3 DEF Init, NodesOK, ActiveHasStakeNode, None
<1>8. QED
  BY <1>4, <1>5, <1>6, <1>7 DEF IInv

\* What the invariant says of chains.
LEMMA LinkedChain ==
  ASSUME TreeOK, LinkedOK, NEW b \in linked
  PROVE  b \in Blocks /\ Chain[b] \subseteq linked
<1>1. b \in Blocks /\ linked \in SUBSET Blocks
  BY DEF TreeOK, LinkedOK
<1>2. QED
  BY <1>1, ChainLeast DEF LinkedOK

\* A step that leaves the tip and takes no stake node away keeps NodesOK.
LEMMA SameTip ==
  ASSUME TreeOK, LinkedOK, ChosenOK, NodesOK, tip' = tip,
         pstakeNode' \in [Blocks -> {None, "full", "bare"}],
         \A b \in Chain[tip] : pstakeNode[b] # None => pstakeNode'[b] # None
  PROVE  NodesOK'
<1>1. Chain' = Chain
  BY DEF Chain, Closed
<1>2. QED
  BY <1>1 DEF NodesOK, ActiveHasStakeNode, None

\* An accepted header has its parent in the index.
LEMMA HeaderTree ==
  ASSUME TreeOK, NEW b \in Blocks \ {Genesis}, HeaderAccepted(b), index' = index \cup {b}
  PROVE  TreeOK'
<1>1. b \in index \/ pprev[b] \in index
  BY DEF HeaderAccepted, Refused
<1>2. QED
  BY <1>1 DEF TreeOK, Closed

\* A header changes the index and flags of failed blocks only.
LEMMA HeaderInv ==
  ASSUME IInv, NEW t \in Threads, NEW b \in Blocks \ {Genesis}, Header(t, b)
  PROVE  IInv'
<1>1. /\ UNCHANGED <<data, linked, unlinked, candidates, tip, pstakeNode, thread>>
      /\ UNCHANGED order
      /\ index \subseteq index'
  BY DEF Header
<1>2. TreeOK'
  <2>1. CASE UNCHANGED index
    BY <2>1 DEF IInv, TreeOK, Closed
  <2>2. CASE HeaderAccepted(b) /\ index' = index \cup {b}
    BY <2>2, HeaderTree DEF IInv
  <2>3. QED
    BY <2>1, <2>2 DEF Header
<1>3. LinkedOK'
  BY <1>1 DEF IInv, LinkedOK, Closed
<1>4. NumbersOK'
  BY <1>1 DEF IInv, NumbersOK, OrderOK, order
<1>5. ChosenOK'
  BY <1>1 DEF IInv, ChosenOK
<1>6. NodesOK'
  BY <1>1, SameTip DEF IInv, NodesOK
<1>7. QED
  BY <1>2, <1>3, <1>4, <1>5, <1>6 DEF IInv

\* The blocks that waited for a block are linked with it.
LEMMA WaitingLinked ==
  ASSUME TreeOK, LinkedOK, NEW b \in Blocks \ {Genesis}, pprev[b] \in linked
  PROVE  Waiting(b) \subseteq unlinked \cup {b} /\ Closed(linked \cup Waiting(b))
<1>1. Waiting(b) \subseteq unlinked \cup {b}
  BY DEF Waiting
<1>2. ASSUME NEW x \in Waiting(b) \ {Genesis}, x # b PROVE pprev[x] \in Waiting(b)
  <2> DEFINE p == pprev[x]
  <2>1. x \in Blocks /\ p \in Blocks /\ b \in Chain[x] /\ Chain[x] \subseteq Chain[b] \cup unlinked
    BY <1>1, <1>2, BlockTreeAssumption DEF Waiting, TreeOK, LinkedOK
  <2>2. p \in Chain[x] /\ Chain[p] \subseteq Chain[x]
    BY <2>1, ChainLeast, ChainPart DEF Closed
  <2>3. b \in Chain[p]
    <3> DEFINE S == {x} \cup Chain[p]
    <3>1. S \in SUBSET Blocks /\ x \in S /\ Closed(S)
      BY <2>1, ChainLeast DEF Closed
    <3>2. Chain[x] \subseteq S
      BY <2>1, <3>1, ChainLeast
    <3>3. QED
      BY <1>2, <2>1, <3>2
  <2>4. CASE p \in Chain[b]
    <3>1. p = b
      BY <2>1, <2>3, <2>4, ChainAntisymmetric
    <3>2. QED
      BY <3>1 DEF Waiting
  <2>5. CASE p \in unlinked
    BY <2>1, <2>2, <2>3, <2>5 DEF Waiting
  <2>6. QED
    BY <2>1, <2>2, <2>4, <2>5
<1>3. Closed(linked \cup Waiting(b))
  BY <1>2 DEF Closed, LinkedOK
<1>4. QED
  BY <1>1, <1>3

\* Storing a block links it and what waited for it, or leaves it waiting.
LEMMA ReceivedInv ==
  ASSUME IInv, NEW b \in Blocks \ {Genesis}, ReceivedBlockTransactions(b),
         index' = index \cup {b}, UNCHANGED <<nBlockReverseSequenceId, address, tip>>
  PROVE  LinkedOK' /\ NumbersOK' /\ linked \subseteq linked' /\ candidates' \subseteq linked'
<1>1. data' = data \cup {b}
  BY DEF ReceivedBlockTransactions
<1>2. CASE pprev[b] \in linked
  <2> DEFINE W == Waiting(b)
  <2>1. W \subseteq unlinked \cup {b} /\ Closed(linked \cup W)
    BY <1>2, WaitingLinked DEF IInv
  <2>2. PICK f \in Numberings(W) :
          /\ linked' = linked \cup W
          /\ nSequenceId' = [x \in Blocks |-> IF x \in W THEN f[x] ELSE nSequenceId[x]]
          /\ nBlockSequenceId' = nBlockSequenceId + Cardinality(W)
          /\ candidates' \subseteq candidates \cup W
          /\ unlinked' = unlinked \ W
    BY <1>2 DEF ReceivedBlockTransactions
  <2>3. W \subseteq Blocks /\ IsFiniteSet(W) /\ Cardinality(W) \in Nat
    <3>1. W \subseteq Blocks
      BY <2>1 DEF IInv, TreeOK, LinkedOK
    <3>2. QED
      BY <3>1, FS_Subset, FS_CardinalityType, BlockTreeAssumption
  <2>4. NumbersOK'
    <3>1. \A x \in W : f[x] \in Int
      BY <2>3 DEF Numberings, IInv, NumbersOK
    <3>2. nSequenceId' \in [Blocks -> Int]
      BY <2>2, <3>1 DEF IInv, NumbersOK, OrderOK
    <3>3. QED
      BY <2>2, <2>3, <3>2 DEF IInv, NumbersOK, OrderOK
  <2>5. LinkedOK'
    BY <1>1, <2>1, <2>2 DEF IInv, LinkedOK, Closed
  <2>6. QED
    BY <2>2, <2>4, <2>5 DEF IInv, ChosenOK
<1>3. CASE pprev[b] \notin linked
  <2>1. /\ unlinked' \subseteq unlinked \cup {b}
        /\ UNCHANGED <<linked, nSequenceId, nBlockSequenceId, candidates>>
    BY <1>3 DEF ReceivedBlockTransactions
  <2>2. LinkedOK'
    BY <1>1, <2>1 DEF IInv, LinkedOK, Closed
  <2>3. NumbersOK'
    BY <2>1 DEF IInv, NumbersOK, OrderOK
  <2>4. QED
    BY <2>1, <2>2, <2>3 DEF IInv, ChosenOK
<1>4. QED
  BY <1>2, <1>3

\* A thread that starts to activate has not chosen a block yet.
LEMMA ActivateOK ==
  ASSUME ChosenOK, NEW t \in Threads, NEW b \in Blocks \cup {None}, linked \subseteq linked',
         thread' = [thread EXCEPT ![t] = Activate(b)] \/ thread' = thread
  PROVE  thread' \in [Threads -> [busy : BOOLEAN, pblock : Blocks \cup {None}, most : linked' \cup {None}]]
<1>1. Activate(b) \in [busy : BOOLEAN, pblock : Blocks \cup {None}, most : linked' \cup {None}]
  BY DEF Activate
<1>2. thread \in [Threads -> [busy : BOOLEAN, pblock : Blocks \cup {None}, most : linked' \cup {None}]]
  BY DEF ChosenOK
<1>3. QED
  BY <1>1, <1>2

\* A block that arrives.
LEMMA BlockInv ==
  ASSUME IInv, NEW t \in Threads, NEW b \in Blocks \ {Genesis}, NEW requested \in BOOLEAN,
         Block(t, b, requested)
  PROVE  IInv'
<1>1. /\ HeaderAccepted(b) /\ index' = index \cup {b}
      /\ UNCHANGED <<nBlockReverseSequenceId, address, tip>>
  BY DEF Block
<1>2. TreeOK'
  BY <1>1, HeaderTree DEF IInv
<1>3. LinkedOK' /\ NumbersOK' /\ linked \subseteq linked' /\ candidates' \subseteq linked'
  <2>1. CASE ReceivedBlockTransactions(b)
    BY <1>1, <2>1, ReceivedInv
  <2>2. CASE UNCHANGED <<data, linked, nSequenceId, nBlockSequenceId, candidates, unlinked>>
    <3>1. LinkedOK'
      BY <1>1, <2>2 DEF IInv, LinkedOK, Closed
    <3>2. NumbersOK'
      BY <1>1, <2>2 DEF IInv, NumbersOK, OrderOK
    <3>3. QED
      BY <2>2, <3>1, <3>2 DEF IInv, ChosenOK
  <2>3. QED
    BY <2>1, <2>2 DEF Block
<1>4. ChosenOK'
  <2>1. thread' = [thread EXCEPT ![t] = Activate(b)] \/ thread' = thread
    BY DEF Block
  <2>2. QED
    BY <1>1, <1>3, <2>1, ActivateOK DEF IInv, ChosenOK
<1>5. NodesOK'
  <2>1. pstakeNode' \in {pstakeNode, Fetch(b)}
    BY DEF Block
  <2>2. /\ pstakeNode' \in [Blocks -> {None, "full", "bare"}]
        /\ \A x \in Blocks : pstakeNode[x] # None => pstakeNode'[x] # None
    BY <2>1 DEF Fetch, None, IInv, NodesOK
  <2>3. Chain[tip] \subseteq Blocks
    BY LinkedChain, ChainLeast DEF IInv, ChosenOK
  <2>4. QED
    BY <1>1, <2>2, <2>3, SameTip DEF IInv
<1>6. QED
  BY <1>2, <1>3, <1>4, <1>5 DEF IInv

\* The block that FindMostWorkChain finds is one of the candidates, of which it
\* drops some.
LEMMA FoundOK ==
  ASSUME IInv, NEW preferred
  PROVE  /\ FindMostWork(preferred).most \in candidates \cup {None}
         /\ FindMostWork(preferred).candidates \subseteq candidates
<1> DEFINE good == candidates \ {c \in candidates : Ahead(c) \cap failed # {}}
           most == IF good = {} THEN None
                   ELSE CHOOSE c \in good : \A x \in good \ {c} : Sooner(c, x, preferred)
<1>1. FindMostWork(preferred).candidates \subseteq candidates
  BY DEF FindMostWork
<1>2. FindMostWork(preferred).most = most
  BY DEF FindMostWork
<1>3. good \in SUBSET Blocks
  BY DEF IInv, ChosenOK, LinkedOK, TreeOK
<1>4. most \in candidates \cup {None}
  <2>1. CASE good = {}
    BY <2>1
  <2>2. CASE good # {}
    <3> HIDE DEF good
    <3>1. \E c \in good : \A x \in good \ {c} : Sooner(c, x, preferred)
      BY <1>3, <2>2, FirstTried DEF IInv, NumbersOK
    <3>2. most \in good
      BY <2>2, <3>1
    <3>3. QED
      BY <3>2 DEF good
  <2>3. QED
    BY <2>1, <2>2
<1>5. QED
  BY <1>1, <1>2, <1>4

\* The blocks that a step connects, and the tip it ends with.
ConnectedBy(most) == {x \in ToConnect(most) : Chain[x] \cap (ToConnect(most) \cap failing) = {}}
NewTip(most) ==
  IF ConnectedBy(most) = {} THEN Best(Chain[tip] \cap Chain[most]) ELSE Best(ConnectedBy(most))

\* Below the new tip are blocks of the old chain and connected blocks only.
LEMMA TipConnected ==
  ASSUME IInv, NEW most \in linked
  PROVE  /\ NewTip(most) \in linked
         /\ Chain[NewTip(most)] \subseteq Chain[tip] \cup ConnectedBy(most)
<1> DEFINE new == NewTip(most)
           connected == ConnectedBy(most)
<1>1. /\ tip \in Blocks /\ Chain[tip] \subseteq linked /\ most \in Blocks /\ Chain[most] \subseteq linked
      /\ linked \subseteq Blocks /\ OrderOK
  BY LinkedChain DEF IInv, ChosenOK, NumbersOK, LinkedOK, TreeOK
<1>2. CASE connected = {}
  <2>1. Genesis \in Chain[tip] \cap Chain[most]
    BY <1>1, BlockTreeAssumption
  <2>2. new \in Chain[tip] \cap Chain[most]
    BY <1>1, <1>2, <2>1, BestIn DEF NewTip
  <2>3. Chain[new] \subseteq Chain[tip]
    BY <1>1, <2>2, ChainPart
  <2>4. QED
    BY <1>1, <2>2, <2>3
<1>3. CASE connected # {}
  <2>1. connected \subseteq Ahead(most)
    BY DEF ConnectedBy, ToConnect
  <2>2. Ahead(most) \subseteq Chain[most]
    BY DEF Ahead
  <2>3. new \in connected
    <3>1. connected \in SUBSET Blocks
      BY <1>1, <2>1, <2>2
    <3>2. QED
      BY <1>1, <1>3, <3>1, BestIn DEF NewTip
  <2>4. new \in Blocks /\ Chain[new] \subseteq Chain[most] /\ new \in linked
    BY <1>1, <2>1, <2>2, <2>3, ChainPart
  <2>5. ASSUME NEW x \in Chain[new], x \notin Chain[tip] PROVE x \in connected
    <3>1. x \in Blocks /\ x \in Ahead(most) /\ Chain[x] \subseteq Chain[new]
      BY <1>1, <2>4, <2>5, ChainPart DEF Ahead
    <3>2. x \in ToConnect(most)
      <4> SUFFICES ASSUME NEW y \in {z \in Ahead(most) : nChainWork[z] > nChainWork[tip]},
                          y \in Chain[x]
                   PROVE  y = x
        BY <3>1 DEF ToConnect
      <4>1. y = new
        BY <2>3, <3>1 DEF ConnectedBy, ToConnect
      <4>2. QED
        BY <2>4, <2>5, <3>1, <4>1, ChainAntisymmetric
    <3>3. QED
      BY <2>3, <3>1, <3>2 DEF ConnectedBy
  <2>6. QED
    BY <2>4, <2>5
<1>4. QED
  BY <1>2, <1>3

\* Connecting blocks builds the stake nodes they lack.
LEMMA StepInv ==
  ASSUME IInv, NEW t \in Threads, NEW pblock, NEW most \in linked, NEW cands \in SUBSET candidates,
         ActivateBestChainStep(t, pblock, most, cands),
         UNCHANGED <<index, data, linked, order, unlinked>>
  PROVE  IInv'
<1> DEFINE connected == ConnectedBy(most)
           new == NewTip(most)
<1>1. /\ tip' = new /\ pstakeNode' = NodesAfter(connected)
      /\ candidates' \subseteq cands
      /\ \E invalidFound \in BOOLEAN :
           thread' = [thread EXCEPT ![t] = GoesOn(@, most, new, invalidFound)]
  BY DEF ActivateBestChainStep, ConnectedBy, NewTip, Pruned
<1>2. new \in linked /\ Chain[new] \subseteq Chain[tip] \cup connected
  BY TipConnected
<1>3. TreeOK' /\ LinkedOK' /\ NumbersOK'
  BY DEF IInv, TreeOK, LinkedOK, NumbersOK, OrderOK, Closed, order
<1>4. ChosenOK'
  <2> DEFINE State == [busy : BOOLEAN, pblock : Blocks \cup {None}, most : linked \cup {None}]
  <2>1. PICK invalidFound \in BOOLEAN :
          thread' = [thread EXCEPT ![t] = GoesOn(@, most, new, invalidFound)]
    BY <1>1
  <2>2. thread[t] \in State
    BY DEF IInv, ChosenOK
  <2>3. GoesOn(thread[t], most, new, invalidFound) \in State
    BY <2>2 DEF GoesOn, Idle
  <2>4. thread' \in [Threads -> State]
    BY <2>1, <2>3 DEF IInv, ChosenOK
  <2>5. QED
    BY <1>1, <1>2, <2>4 DEF IInv, ChosenOK
<1>5. NodesOK'
  <2>1. pstakeNode' \in [Blocks -> {None, "full", "bare"}]
    BY <1>1 DEF NodesAfter, IInv, NodesOK
  <2>2. \A x \in Blocks : x \in connected \/ pstakeNode[x] # None => pstakeNode'[x] # None
    BY <1>1 DEF NodesAfter, None
  <2>3. Chain' = Chain /\ Chain[new] \subseteq Blocks
    <3>1. Chain' = Chain
      BY DEF Chain, Closed
    <3>2. new \in Blocks
      BY <1>2, LinkedChain DEF IInv
    <3>3. QED
      BY <3>1, <3>2, ChainLeast
  <2>4. \A x \in Chain[new] : pstakeNode'[x] # None
    BY <1>2, <2>2, <2>3 DEF IInv, NodesOK, ActiveHasStakeNode
  <2>5. QED
    BY <1>1, <2>1, <2>3, <2>4 DEF NodesOK, ActiveHasStakeNode
<1>6. QED
  BY <1>3, <1>4, <1>5 DEF IInv

\* A round of ActivateBestChain.
LEMMA ActivateInv ==
  ASSUME IInv, NEW t \in Threads, ActivateBestChain(t)
  PROVE  IInv'
<1>1. PICK found :
        /\ found = IF thread[t].most = None THEN FindMostWork(thread[t].pblock)
                   ELSE [most |-> thread[t].most, candidates |-> candidates, children |-> failedChild]
        /\ IF found.most \in {None, tip}
           THEN /\ candidates' = found.candidates
                /\ thread' = [thread EXCEPT ![t] = Idle]
                /\ UNCHANGED <<tip, pstakeNode>>
           ELSE ActivateBestChainStep(t, thread[t].pblock, found.most, found.candidates)
  BY DEF ActivateBestChain
<1>2. UNCHANGED <<index, data, linked, order, unlinked>>
  BY DEF ActivateBestChain
<1>3. found.most \in linked \cup {None} /\ found.candidates \in SUBSET candidates
  <2>1. CASE thread[t].most = None
    BY <1>1, <2>1, FoundOK DEF IInv, ChosenOK
  <2>2. CASE thread[t].most # None
    BY <1>1, <2>2 DEF IInv, ChosenOK
  <2>3. QED
    BY <2>1, <2>2
<1>4. CASE found.most \in {None, tip}
  <2>1. /\ candidates' \subseteq candidates /\ thread' = [thread EXCEPT ![t] = Idle]
        /\ UNCHANGED <<tip, pstakeNode>>
    BY <1>1, <1>3, <1>4
  <2>2. TreeOK' /\ LinkedOK' /\ NumbersOK'
    BY <1>2 DEF IInv, TreeOK, LinkedOK, NumbersOK, OrderOK, Closed, order
  <2>3. ChosenOK'
    BY <1>2, <2>1 DEF IInv, ChosenOK, Idle
  <2>4. NodesOK'
    BY <2>1, SameTip DEF IInv, NodesOK
  <2>5. QED
    BY <2>2, <2>3, <2>4 DEF IInv
<1>5. CASE found.most \notin {None, tip}
  <2>1. found.most \in linked
    BY <1>3, <1>5
  <2>2. QED
    BY <1>1, <1>2, <1>3, <1>5, <2>1, StepInv
<1>6. QED
  BY <1>4, <1>5

\* An RPC call makes linked blocks candidates and leaves the tip or moves it down.
LEMMA CallInv ==
  ASSUME IInv, NEW t \in Threads, NEW name, NEW b \in Blocks \ {Genesis}, Call(t, name, b),
         candidates' \subseteq linked, tip' \in Chain[tip],
         nSequenceId' \in [Blocks -> Int], nBlockReverseSequenceId' \in Int
  PROVE  IInv'
<1>1. /\ UNCHANGED <<index, data, linked, nBlockSequenceId, address, unlinked, pstakeNode>>
      /\ thread' = [thread EXCEPT ![t] = Activate(None)]
  BY DEF Call
<1>2. TreeOK' /\ LinkedOK'
  BY <1>1 DEF IInv, TreeOK, LinkedOK, Closed
<1>3. NumbersOK'
  BY <1>1 DEF IInv, NumbersOK, OrderOK
<1>4. tip \in Blocks /\ Chain[tip] \subseteq linked
  BY LinkedChain DEF IInv, ChosenOK
<1>5. ChosenOK'
  <2>1. None \in Blocks \cup {None} /\ linked \subseteq linked'
    BY <1>1
  <2>2. QED
    BY <1>1, <1>4, <2>1, ActivateOK DEF IInv, ChosenOK
<1>6. NodesOK'
  <2>1. Chain[tip'] \subseteq Chain[tip]
    BY <1>4, ChainPart
  <2>2. Chain' = Chain
    BY DEF Chain, Closed
  <2>3. QED
    BY <1>1, <2>1, <2>2 DEF IInv, NodesOK, ActiveHasStakeNode
<1>7. QED
  BY <1>2, <1>3, <1>5, <1>6 DEF IInv

\* invalidateblock, reconsiderblock and preciousblock.
LEMMA RpcInv ==
  ASSUME IInv, NEW t \in Threads, NEW b \in Blocks \ {Genesis},
         InvalidateBlock(t, b) \/ ResetBlockFailureFlags(t, b) \/ PreciousBlock(t, b)
  PROVE  IInv'
<1>1. /\ tip \in Blocks /\ tip \in Chain[tip] /\ candidates \subseteq linked
      /\ nSequenceId \in [Blocks -> Int] /\ nBlockReverseSequenceId \in Int
  BY LinkedChain, ChainLeast DEF IInv, ChosenOK, NumbersOK, OrderOK
<1>2. CASE InvalidateBlock(t, b)
  <2>1. tip' \in Chain[tip]
    <3>1. Active(b) => pprev[b] \in Chain[tip]
      BY <1>1, ChainLeast DEF Active, Closed
    <3>2. QED
      BY <1>1, <1>2, <3>1 DEF InvalidateBlock
  <2>2. candidates' \subseteq linked
    BY <1>1, <1>2 DEF InvalidateBlock, Pruned, Connectable
  <2>3. Call(t, "invalidate", b) /\ UNCHANGED <<nSequenceId, nBlockReverseSequenceId>>
    BY <1>2 DEF InvalidateBlock
  <2>4. QED
    BY <1>1, <2>1, <2>2, <2>3, CallInv
<1>3. CASE ResetBlockFailureFlags(t, b)
  <2>1. /\ tip' \in Chain[tip] /\ candidates' \subseteq linked /\ Call(t, "reconsider", b)
        /\ UNCHANGED <<nSequenceId, nBlockReverseSequenceId>>
    BY <1>1, <1>3 DEF ResetBlockFailureFlags
  <2>2. QED
    BY <1>1, <2>1, CallInv
<1>4. CASE PreciousBlock(t, b)
  <2>1. tip' \in Chain[tip] /\ candidates' \subseteq linked /\ Call(t, "precious", b)
    BY <1>1, <1>4 DEF PreciousBlock, Pruned, Connectable
  <2> DEFINE id == IF nChainWork[tip] > nLastPreciousChainwork THEN -1 ELSE nBlockReverseSequenceId
  <2>2. /\ nSequenceId' = [nSequenceId EXCEPT ![b] = id]
        /\ nBlockReverseSequenceId' = IF id > Int32Min THEN id - 1 ELSE id
    BY <1>4, Zenon DEF PreciousBlock
  <2>3. nBlockReverseSequenceId \in Int /\ nSequenceId \in [Blocks -> Int]
    BY <1>1
  <2>4. id \in Int
    BY <2>3
  <2> HIDE DEF id
  <2>5. nSequenceId' \in [Blocks -> Int] /\ nBlockReverseSequenceId' \in Int
    BY <2>2, <2>3, <2>4
  <2>6. QED
    BY <2>1, <2>5, CallInv
<1>5. QED
  BY <1>2, <1>3, <1>4

\* LoadBlockIndexDB links at least the blocks that were linked, and gives every
\* entry a stake node.
LEMMA RestartInv ==
  ASSUME IInv, NEW t \in Threads, Restart(t)
  PROVE  IInv'
<1> DEFINE all == {x \in data : Chain[x] \subseteq data}
<1>1. /\ UNCHANGED <<index, data, tip>>
      /\ linked' = all /\ unlinked' = data \ all /\ candidates' \subseteq all
      /\ nSequenceId' = [b \in Blocks |-> 0] /\ nBlockSequenceId' = 1
      /\ nBlockReverseSequenceId' = -1 /\ address' \in Orders
      /\ thread' = [x \in Threads |-> IF x = t THEN Activate(None) ELSE Idle]
  BY DEF Restart
<1>2. pstakeNode' = [b \in Blocks |-> IF b \in data THEN "full" ELSE IF b \in index THEN "bare" ELSE None]
  BY DEF Restart
<1>3. data \subseteq index /\ index \subseteq Blocks /\ linked \subseteq data
  BY DEF IInv, TreeOK, LinkedOK
<1>4. linked \subseteq all
  BY <1>3, LinkedChain DEF IInv
<1>5. Closed(all)
  <2> SUFFICES ASSUME NEW x \in all \ {Genesis} PROVE pprev[x] \in all
    BY DEF Closed
  <2>1. x \in Blocks /\ Chain[x] \subseteq data
    BY <1>3
  <2>2. pprev[x] \in Chain[x]
    BY <2>1, ChainLeast DEF Closed
  <2>3. QED
    BY <2>1, <2>2, ChainPart
<1>6. TreeOK' /\ LinkedOK'
  <2>1. Genesis \in all
    BY <1>4 DEF IInv, LinkedOK
  <2>2. Closed(index)' /\ Closed(linked)'
    BY <1>1, <1>5 DEF IInv, TreeOK, Closed
  <2>3. QED
    BY <1>1, <1>3, <2>1, <2>2 DEF IInv, TreeOK, LinkedOK
<1>7. NumbersOK'
  BY <1>1 DEF NumbersOK, OrderOK
<1>8. ChosenOK'
  BY <1>1, <1>4 DEF IInv, ChosenOK, Activate, Idle
<1>9. NodesOK'
  <2>1. pstakeNode' \in [Blocks -> {None, "full", "bare"}]
    BY <1>2
  <2>2. Chain' = Chain
    BY DEF Chain, Closed
  <2>3. Chain[tip] \subseteq data
    BY <1>3, LinkedChain DEF IInv, ChosenOK
  <2>4. \A b \in Chain[tip] : pstakeNode'[b] # None
    BY <1>2, <1>3, <2>3 DEF None
  <2>5. QED
    BY <1>1, <2>1, <2>2, <2>4 DEF NodesOK, ActiveHasStakeNode
<1>10. QED
  BY <1>6, <1>7, <1>8, <1>9 DEF IInv

\* Every step keeps the invariant.
LEMMA NextInv == IInv /\ [Next]_vars => IInv'
<1> SUFFICES ASSUME IInv, [Next]_vars PROVE IInv'
  OBVIOUS
<1>1. CASE UNCHANGED vars
  <2>1. UNCHANGED <<index, data, linked, unlinked, candidates, tip, pstakeNode, thread, nSequenceId,
                    nBlockSequenceId, nBlockReverseSequenceId, address>>
    BY <1>1 DEF vars, flags, order
  <2>2. Chain' = Chain
    BY DEF Chain, Closed
  <2>3. QED
    BY <2>1, <2>2 DEF IInv, TreeOK, LinkedOK, NumbersOK, OrderOK, ChosenOK, NodesOK, ActiveHasStakeNode, Closed
<1>2. CASE Next
  <2>1. PICK t \in Threads :
          \/ \E b \in Blocks \ {Genesis} :
               \/ Header(t, b)
               \/ \E requested \in BOOLEAN : Block(t, b, requested)
               \/ InvalidateBlock(t, b) \/ ResetBlockFailureFlags(t, b) \/ PreciousBlock(t, b)
          \/ ActivateBestChain(t)
          \/ Restart(t)
    BY <1>2 DEF Next
  <2>2. ASSUME NEW b \in Blocks \ {Genesis}, Header(t, b) PROVE IInv'
    BY <2>2, HeaderInv
  <2>3. ASSUME NEW b \in Blocks \ {Genesis}, NEW requested \in BOOLEAN, Block(t, b, requested)
        PROVE  IInv'
    BY <2>3, BlockInv
  <2>4. ASSUME NEW b \in Blocks \ {Genesis},
               InvalidateBlock(t, b) \/ ResetBlockFailureFlags(t, b) \/ PreciousBlock(t, b)
        PROVE  IInv'
    BY <2>4, RpcInv
  <2>5. CASE ActivateBestChain(t)
    BY <2>5, ActivateInv
  <2>6. CASE Restart(t)
    BY <2>6, RestartInv
  <2>7. QED
    BY <2>1, <2>2, <2>3, <2>4, <2>5, <2>6
<1>3. QED
  BY <1>1, <1>2

\* The linked entries are closed under pprev, and candidates, the tip and the
\* choices of all threads are linked entries, whatever other threads, RPC calls
\* and restarts do between two rounds of ActivateBestChain.
THEOREM Invariance == Spec => []IInv
  BY InitInv, NextInv, PTL DEF Spec

\* Every block of the active chain has a stake node, whether AcceptBlock or
\* ConnectBlock built it or a restart did.
THEOREM ActiveNodes == Spec => []ActiveHasStakeNode
<1>1. IInv => ActiveHasStakeNode
  BY DEF IInv, NodesOK
<1>2. QED
  BY <1>1, Invariance, PTL

\* What FindMostWorkChain asserts of the blocks it walks over (nChainTx, and with
\* it the data of every block below), and ConnectTip reads: candidates and the
\* active chain have all their data.
THEOREM Complete == Spec => []ChainsComplete
<1>1. IInv => ChainsComplete
  <2> SUFFICES ASSUME IInv, NEW b \in candidates \cup {tip} PROVE Chain[b] \subseteq data
    BY DEF ChainsComplete
  <2>1. b \in linked /\ linked \subseteq data
    BY DEF IInv, ChosenOK, LinkedOK
  <2>2. QED
    BY <2>1, LinkedChain DEF IInv
<1>2. QED
  BY <1>1, Invariance, PTL
=============================================================================
