------------------------------ MODULE Lottery ------------------------------
(***************************************************************************)
(* The draw of the winning tickets: class Hash256PRNG of                   *)
(* src/stake/hash256prng.cpp, as ConnectNode calls it: a generator is made *)
(* from the block's lottery IV, FindTicketIdxs(size, n) is called once and *)
(* then StateHash().                                                       *)
(*                                                                         *)
(* A hash is opaque: the words it yields are any words, one action per     *)
(* Hash256Rand.  There are 2 * Half words (2^32 in the code), a hash has   *)
(* HashWords of them (8), and the block index rolls over past MaxIdx       *)
(* (0xFFFFFFFF).                                                           *)
(***************************************************************************)
EXTENDS Integers, Sequences, FiniteSets, SequencesExt

CONSTANTS
  Half,        \* half the number of words: 2^31, the code's 0x80000000
  HashWords,   \* words in a hash
  MaxIdx,      \* the last block index of a seed
  MaxDraw,     \* bound: the tickets one block draws
  MaxReseed    \* bound: roll overs of the seed

ASSUME LotteryAssumption ==
  /\ Half \in Nat \ {0} /\ HashWords \in Nat \ {0} /\ MaxIdx \in Nat
  /\ MaxDraw \in Nat /\ MaxReseed \in Nat

VARIABLES
  size, n,                          \* the arguments of FindTicketIdxs
  list,                             \* its result so far
  seed_, idx_, hashIdx_, lastHash_, \* the generator
  used                              \* the words taken (not in the code)

generator == <<seed_, idx_, hashIdx_, lastHash_>>
vars == <<size, n, list, generator, used>>

Modulus == 2 * Half
Word == 0..(Modulus - 1)

\* Hashes, by what they are the hash of: the seed itself, or seed and index.
\* Seed k is the IV hashed k times.
OfSeed(s) == [seed |-> s, block |-> -1]
OfBlock(s, i) == [seed |-> s, block |-> i]

\* Fault: the draw is made however few tickets are live.
Init_short ==
  /\ n \in 1..MaxDraw
  /\ size \in 1..(Modulus - 1)
  /\ list = << >>
  /\ seed_ = 0
  /\ idx_ = 0
  /\ hashIdx_ = 0
  /\ lastHash_ = OfSeed(0)
  /\ used = {}

\* FindTicketIdxs asserts size >= n; ConnectNode draws only then.
Init ==
  /\ n \in 1..MaxDraw
  /\ size \in n..(Modulus - 1)
  /\ list = << >>
  /\ seed_ = 0
  /\ idx_ = 0
  /\ hashIdx_ = 0
  /\ lastHash_ = OfSeed(0)
  /\ used = {}

\* Fault: the index is not advanced with the block.
Hash256Rand_stuck ==
  LET rolls == hashIdx_ + 1 > HashWords - 1
  IN /\ used' = used \cup {<<lastHash_, hashIdx_>>}
     /\ hashIdx_' = (IF rolls THEN 0 ELSE hashIdx_ + 1)
     /\ lastHash_' = (IF rolls THEN OfBlock(seed_, idx_) ELSE lastHash_)
     /\ UNCHANGED <<seed_, idx_>>

\* One word is taken.  After the last word of a hash the next block is hashed,
\* and after the last block the seed is.
Hash256Rand ==
  LET rolls   == hashIdx_ + 1 > HashWords - 1
      next    == IF rolls THEN idx_ + 1 ELSE idx_
      reseeds == next > MaxIdx
  IN /\ used' = used \cup {<<lastHash_, hashIdx_>>}
     /\ hashIdx_' = (IF rolls THEN 0 ELSE hashIdx_ + 1)
     /\ idx_' = (IF reseeds THEN 0 ELSE next)
     /\ seed_' = (IF reseeds THEN seed_ + 1 ELSE seed_)
     /\ lastHash_' = CASE reseeds -> OfSeed(seed_ + 1)
                       [] rolls /\ ~reseeds -> OfBlock(seed_, idx_)
                       [] OTHER -> lastHash_

\* Fault: one's complement where two's complement is meant.
MinWord_complement(bound) ==
  IF bound > Half THEN Modulus - 1 - bound
  ELSE (((Modulus - 1 - ((bound * 2) % Modulus)) + 1) % Modulus) % bound

\* The words UniformRandom throws away are those below this one.  1 + ~x and
\* x * 2 are operations on words.
MinWord(bound) ==
  IF bound > Half THEN (1 + (Modulus - 1 - bound)) % Modulus
  ELSE (((Modulus - 1 - ((bound * 2) % Modulus)) + 1) % Modulus) % bound

Take(rand) == list' = IF Contains(list, rand) THEN list ELSE Append(list, rand)

\* One turn of the loops of FindTicketIdxs and UniformRandom.  With a bound
\* below 2 no word is taken.
Draw ==
  /\ Len(list) < n
  /\ size < 2
  /\ Take(0)
  /\ UNCHANGED <<size, n, generator, used>>

DrawWord(word) ==
  /\ Len(list) < n
  /\ size >= 2
  /\ seed_ <= MaxReseed
  /\ Hash256Rand
  /\ IF word < MinWord(size) THEN UNCHANGED list ELSE Take(word % size)
  /\ UNCHANGED <<size, n>>

Next == Draw \/ \E word \in Word : DrawWord(word)

Spec == Init /\ [][Next]_vars

-----------------------------------------------------------------------------
\* The generator's position, and the indexes found: fetchWinners throws for
\* an index that is not below the number of live tickets.
TypeOK ==
  /\ list \in Seq(0..(size - 1))
  /\ Len(list) <= n
  /\ hashIdx_ \in 0..(HashWords - 1)
  /\ idx_ \in 0..MaxIdx
  /\ seed_ \in 0..(MaxReseed + 1)

\* hash256prng.h: UniformRandom avoids modulo bias: of the words that are not
\* thrown away, as many lead to one index as to any other, for bounds up to
\* and past half the word range, where the two formulas for min meet.
Unbiased ==
  LET Words(i) == {w \in Word : w >= MinWord(size) /\ w % size = i}
  IN size >= 2 => \A i \in 0..(size - 1) : Cardinality(Words(i)) = Cardinality(Words(0))

\* The loop can always end: while indexes are missing, some word is accepted
\* and gives an index that is not in the list yet.  (That the hash yields such
\* a word is the assumption on the hash that termination rests on.)
CanFinish ==
  Len(list) < n =>
    \/ size < 2 /\ ~Contains(list, 0)
    \/ \E w \in Word : w >= MinWord(size) /\ ~Contains(list, w % size)

\* Every roll over yields fresh words: the word that is taken next was not
\* taken before, so that a draw that needs more than one hash, or more than
\* one seed, never repeats its stream.
NoWordTwice == <<lastHash_, hashIdx_>> \notin used
=============================================================================
