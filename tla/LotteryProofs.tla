--------------------------- MODULE LotteryProofs ---------------------------
(***************************************************************************)
(* The draw of the winning tickets, for every range of words, number of    *)
(* live tickets and length of the generator's hashes and seeds: every      *)
(* index is as likely as any other, the loop can always go on to its end,  *)
(* and no word of a hash is used twice.                                    *)
(***************************************************************************)
EXTENDS Lottery, TLAPS, FiniteSetTheorems

(***************************************************************************)
(* UniformRandom: which words are thrown away, and how many lead to each   *)
(* index.                                                                  *)
(***************************************************************************)

\* Division of natural numbers, as the other lemmas use it.
LEMMA Division ==
  ASSUME NEW a \in Nat, NEW b \in Nat \ {0}
  PROVE  a % b \in Nat /\ a % b < b /\ a \div b \in Nat /\ a = (a \div b) * b + (a % b)
OBVIOUS

\* Quotient and remainder are determined by the number.
LEMMA DivisionUnique ==
  ASSUME NEW q \in Nat, NEW r \in Nat, NEW b \in Nat \ {0}, r < b
  PROVE  /\ (q * b + r) % b = r
         /\ \A p \in Nat, s \in Nat : s < b /\ q * b + r = p * b + s => q = p /\ r = s
<1>1. (q * b + r) % b = r
  OBVIOUS
<1>2. ASSUME NEW p \in Nat, NEW s \in Nat, s < b, q * b + r = p * b + s
      PROVE  q = p /\ r = s
  BY <1>2
<1>3. QED
  BY <1>1, <1>2

\* A smaller quotient is smaller by at least one divisor.
LEMMA QuotientStep ==
  ASSUME NEW q \in Nat, NEW p \in Nat, NEW b \in Nat \ {0}, q < p
  PROVE  q * b + b <= p * b
OBVIOUS

\* Multiplication distributes over subtraction.
LEMMA Distribution ==
  ASSUME NEW q \in Int, NEW p \in Int, NEW b \in Int
  PROVE  (q - p) * b = q * b - p * b
OBVIOUS

\* The two formulas of UniformRandom agree: min is the remainder of the number
\* of words by the bound.
LEMMA MinWordIsRemainder ==
  ASSUME NEW b \in 2..(Modulus - 1)
  PROVE  MinWord(b) = Modulus % b
<1>1. Half \in Nat \ {0} /\ b \in Nat \ {0} /\ b < 2 * Half /\ Modulus = 2 * Half
  BY LotteryAssumption DEF Modulus
<1>2. CASE b > Half
  <2>1. MinWord(b) = (2 * Half - b) % (2 * Half)
    BY <1>1, <1>2 DEF MinWord
  <2>2. MinWord(b) = 2 * Half - b
    BY <1>1, <1>2, <2>1
  <2>3. 2 * Half = 1 * b + (2 * Half - b) /\ 2 * Half - b \in Nat /\ 2 * Half - b < b
    BY <1>1, <1>2
  <2>4. (2 * Half) % b = 2 * Half - b
    BY <1>1, <2>3, DivisionUnique
  <2>5. QED
    BY <1>1, <2>2, <2>4
<1>3. CASE b <= Half
  <2> DEFINE r == (2 * Half) % b
             q == (2 * Half) \div b
  <2>1. r \in Nat /\ r < b /\ q \in Nat /\ 2 * Half = q * b + r
    BY <1>1, Division
  <2> HIDE DEF r, q
  <2>2. q >= 2
    <3>1. CASE q = 0
      BY <1>1, <1>3, <2>1, <3>1
    <3>2. CASE q = 1
      BY <1>1, <1>3, <2>1, <3>2
    <3>3. QED
      BY <2>1, <3>1, <3>2
  <2>3. CASE b = Half
    <3>1. (b * 2) % (2 * Half) = 0
      BY <1>1, <2>3
    <3>2. MinWord(b) = 0
      BY <1>1, <2>3, <3>1 DEF MinWord
    <3>3. 2 * Half = 2 * b + 0
      BY <1>1, <2>3
    <3>4. (2 * Half) % b = 0
      BY <1>1, <3>3, DivisionUnique
    <3>5. QED
      BY <1>1, <3>2, <3>4
  <2>4. CASE b < Half
    <3>1. (b * 2) % (2 * Half) = 2 * b
      BY <1>1, <2>4
    <3>2. MinWord(b) = ((2 * Half - 2 * b) % (2 * Half)) % b
      BY <1>1, <2>4, <3>1 DEF MinWord
    <3>3. (2 * Half - 2 * b) % (2 * Half) = 2 * Half - 2 * b
      BY <1>1, <2>4
    <3>4. 2 * Half - 2 * b = (q - 2) * b + r /\ q - 2 \in Nat
      <4>1. q - 2 \in Nat /\ (q - 2) * b = q * b - 2 * b
        BY <1>1, <2>1, <2>2, Distribution
      <4>2. QED
        BY <1>1, <2>1, <4>1
    <3>5. (2 * Half - 2 * b) % b = r
      <4> DEFINE p == q - 2
      <4>1. p \in Nat
        BY <3>4
      <4> HIDE DEF p
      <4>2. (p * b + r) % b = r
        BY <1>1, <2>1, <4>1, DivisionUnique
      <4>3. QED
        BY <3>4, <4>2 DEF p
    <3>6. QED
      BY <1>1, <3>2, <3>3, <3>5 DEF r
  <2>5. QED
    BY <1>1, <1>3, <2>3, <2>4
<1>4. QED
  BY <1>1, <1>2, <1>3

\* The words that lead to index i.
WordsOf(b, i) == {w \in Word : w >= MinWord(b) /\ w % b = i}

\* There are Modulus \div b of them: the k-th is k divisors above i, or k - 1
\* when i itself is not thrown away.
LEMMA WordsCounted ==
  ASSUME NEW b \in 2..(Modulus - 1), NEW i \in 0..(b - 1)
  PROVE  /\ Modulus \div b \in Nat \ {0}
         /\ ExistsBijection(1..(Modulus \div b), WordsOf(b, i))
<1> DEFINE q == Modulus \div b
           m == Modulus % b
           c == IF i < m THEN 0 ELSE 1
           f == [k \in 1..q |-> (k - c) * b + i]
<1>1. Modulus \in Nat /\ b \in Nat \ {0} /\ b < Modulus /\ i \in Nat /\ i < b
  BY LotteryAssumption DEF Modulus
<1>2. q \in Nat /\ m \in Nat /\ m < b /\ Modulus = q * b + m /\ MinWord(b) = m
  BY <1>1, Division, MinWordIsRemainder
<1> HIDE DEF q, m
<1>3. q # 0
  BY <1>1, <1>2
<1> HIDE DEF c
<1>c. c \in {0, 1} /\ (i < m => c = 0) /\ (~(i < m) => c = 1)
  BY DEF c
<1>4. ASSUME NEW k \in 1..q
      PROVE  f[k] \in WordsOf(b, i)
  <2>1. k - c \in Nat /\ f[k] = (k - c) * b + i
    BY <1>2, <1>c
  <2>2. f[k] % b = i
    BY <1>1, <2>1, DivisionUnique
  <2>3. f[k] \in Nat /\ f[k] >= m /\ f[k] < Modulus
    <3>1. CASE i < m
      <4>1. f[k] = k * b + i
        BY <1>1, <1>2, <1>c, <2>1, <3>1
      <4>2. k * b >= b /\ k * b <= q * b
        BY <1>1, <1>2
      <4>3. QED
        BY <1>1, <1>2, <3>1, <4>1, <4>2
    <3>2. CASE ~(i < m)
      <4>1. f[k] = (k - 1) * b + i /\ k - 1 \in Nat /\ k - 1 < q
        BY <1>1, <1>2, <1>c, <2>1, <3>2
      <4>2. (k - 1) * b + b <= q * b /\ (k - 1) * b >= 0
        BY <1>1, <1>2, <4>1, QuotientStep
      <4>3. QED
        BY <1>1, <1>2, <3>2, <4>1, <4>2
    <3>3. QED
      BY <3>1, <3>2
  <2>4. QED
    BY <1>1, <1>2, <2>2, <2>3 DEF WordsOf, Word
<1>5. ASSUME NEW k \in 1..q, NEW l \in 1..q, f[k] = f[l]
      PROVE  k = l
  <2>1. k - c \in Nat /\ l - c \in Nat /\ (k - c) * b + i = (l - c) * b + i
    BY <1>2, <1>5, <1>c
  <2>2. k - c = l - c
    BY <1>1, <2>1, DivisionUnique
  <2>3. QED
    BY <1>2, <1>c, <2>2
<1>6. ASSUME NEW w \in WordsOf(b, i)
      PROVE  \E k \in 1..q : f[k] = w
  <2> DEFINE d == w \div b
  <2>1. w \in Nat /\ w < Modulus /\ w >= m /\ w % b = i
    BY <1>1, <1>2 DEF WordsOf, Word
  <2>2. d \in Nat /\ w = d * b + i
    BY <1>1, <2>1, Division
  <2> HIDE DEF d
  <2>3. CASE i < m
    <3>1. d # 0
      BY <1>1, <1>2, <2>1, <2>2, <2>3
    <3>2. d <= q
      <4>1. CASE q < d
        <5>1. q * b + b <= d * b
          BY <1>1, <1>2, <2>2, <4>1, QuotientStep
        <5>2. QED
          BY <1>1, <1>2, <2>1, <2>2, <5>1
      <4>2. QED
        BY <1>2, <2>2, <4>1
    <3>3. d \in 1..q /\ f[d] = w
      BY <1>1, <1>2, <1>c, <2>2, <2>3, <3>1, <3>2
    <3>4. QED
      BY <3>3
  <2>4. CASE ~(i < m)
    <3>1. d < q
      <4>1. CASE q <= d
        <5>1. q * b <= d * b
          BY <1>1, <1>2, <2>2, <4>1
        <5>2. QED
          BY <1>1, <1>2, <2>1, <2>2, <2>4, <5>1
      <4>2. QED
        BY <1>2, <2>2, <4>1
    <3>2. d + 1 \in 1..q /\ f[d + 1] = w
      BY <1>1, <1>2, <1>c, <2>2, <2>4, <3>1
    <3>3. QED
      BY <3>2
  <2>5. QED
    BY <2>3, <2>4
<1>7. f \in Bijection(1..q, WordsOf(b, i))
  <2>1. f \in [1..q -> WordsOf(b, i)]
    BY <1>4
  <2>2. QED
    BY <1>5, <1>6, <2>1 DEF Bijection, Injection, Surjection, IsInjective
<1>8. QED
  BY <1>2, <1>3, <1>7 DEF ExistsBijection, q

(***************************************************************************)
(* The inductive invariant.  NoWordTwice is not inductive: a word is fresh *)
(* because every word taken so far comes earlier in the stream of seeds,   *)
(* blocks and words, and the generator's position says which hash it is    *)
(* in.                                                                     *)
(***************************************************************************)

ArgumentsOK == n \in Nat \ {0} /\ size \in n..(Modulus - 1)

\* The hash at hand is the one before block idx_ of the seed at hand.
HashAtHand == lastHash_ = OfBlock(seed_, idx_ - 1)

\* A word that comes before word k of block j of seed s.
Before(u, s, j, k) ==
  \/ u[1].seed < s
  \/ u[1].seed = s /\ u[1].block < j
  \/ u[1].seed = s /\ u[1].block = j /\ u[2] < k

Hash == [seed : Nat, block : Int]

UsedBefore ==
  /\ used \subseteq Hash \X Nat
  /\ \A u \in used : Before(u, seed_, idx_ - 1, hashIdx_)

IInv == TypeOK /\ ArgumentsOK /\ HashAtHand /\ UsedBefore

\* FindTicketIdxs as ConnectNode calls it.
LEMMA InitHolds == Init => IInv
<1> SUFFICES ASSUME Init PROVE IInv
  OBVIOUS
<1>1. ArgumentsOK
  BY LotteryAssumption DEF Init, ArgumentsOK
<1>2. size \in Nat
  BY LotteryAssumption DEF Init, Modulus
<1>3. TypeOK
  BY <1>1, <1>2, LotteryAssumption DEF Init, TypeOK, ArgumentsOK
<1>4. HashAtHand /\ UsedBefore
  BY DEF Init, HashAtHand, UsedBefore, OfSeed, OfBlock
<1>5. QED
  BY <1>1, <1>3, <1>4 DEF IInv

\* FindTicketIdxs adds an index below size.
LEMMA TakeKeeps ==
  ASSUME IInv, Len(list) < n, NEW rand \in 0..(size - 1), Take(rand)
  PROVE  list' \in Seq(0..(size - 1)) /\ Len(list') <= n
<1>1. list \in Seq(0..(size - 1)) /\ Len(list) \in Nat /\ n \in Nat
  BY DEF IInv, TypeOK, ArgumentsOK
<1>2. CASE Contains(list, rand)
  BY <1>1, <1>2 DEF Take
<1>3. CASE ~Contains(list, rand)
  <2>1. list' = Append(list, rand)
    BY <1>3 DEF Take
  <2>2. QED
    BY <1>1, <2>1
<1>4. QED
  BY <1>2, <1>3

\* Hash256Rand: the generator moves to the next word of the stream.
LEMMA RandKeeps ==
  ASSUME IInv, seed_ <= MaxReseed, Hash256Rand
  PROVE  /\ hashIdx_' \in 0..(HashWords - 1)
         /\ idx_' \in 0..MaxIdx
         /\ seed_' \in 0..(MaxReseed + 1)
         /\ HashAtHand'
         /\ UsedBefore'
<1> DEFINE rolls   == hashIdx_ + 1 > HashWords - 1
           next    == IF rolls THEN idx_ + 1 ELSE idx_
           reseeds == next > MaxIdx
<1>1. /\ hashIdx_ \in Nat /\ hashIdx_ <= HashWords - 1 /\ HashWords \in Nat \ {0}
      /\ idx_ \in Nat /\ idx_ <= MaxIdx /\ MaxIdx \in Nat
      /\ seed_ \in Nat /\ MaxReseed \in Nat
      /\ used \subseteq Hash \X Nat
      /\ \A u \in used : Before(u, seed_, idx_ - 1, hashIdx_)
      /\ lastHash_ = OfBlock(seed_, idx_ - 1)
  BY LotteryAssumption DEF IInv, TypeOK, UsedBefore, HashAtHand
<1>2. /\ used' = used \cup {<<lastHash_, hashIdx_>>}
      /\ hashIdx_' = (IF rolls THEN 0 ELSE hashIdx_ + 1)
      /\ idx_' = (IF reseeds THEN 0 ELSE next)
      /\ seed_' = (IF reseeds THEN seed_ + 1 ELSE seed_)
      /\ lastHash_' = CASE reseeds -> OfSeed(seed_ + 1)
                        [] rolls /\ ~reseeds -> OfBlock(seed_, idx_)
                        [] OTHER -> lastHash_
  BY Zenon DEF Hash256Rand
<1>3. lastHash_ \in Hash /\ lastHash_.seed = seed_ /\ lastHash_.block = idx_ - 1
  BY <1>1 DEF Hash, OfBlock
<1>4. used' \subseteq Hash \X Nat
  BY <1>1, <1>2, <1>3
<1>5. ASSUME NEW u \in used'
      PROVE  /\ u[1].seed \in Nat /\ u[1].block \in Int /\ u[2] \in Nat
             /\ \/ Before(u, seed_, idx_ - 1, hashIdx_)
                \/ u[1].seed = seed_ /\ u[1].block = idx_ - 1 /\ u[2] = hashIdx_
  <2>1. u[1] \in Hash /\ u[2] \in Nat
    BY <1>4
  <2>2. CASE u \in used
    BY <1>1, <2>1, <2>2 DEF Hash
  <2>3. CASE u = <<lastHash_, hashIdx_>>
    BY <1>3, <2>1, <2>3 DEF Hash
  <2>4. QED
    BY <1>2, <2>2, <2>3
<1>6. CASE ~rolls
  <2>1. /\ ~reseeds /\ hashIdx_' = hashIdx_ + 1 /\ idx_' = idx_ /\ seed_' = seed_
        /\ lastHash_' = lastHash_
    BY <1>1, <1>2, <1>6
  <2>2. \A u \in used' : Before(u, seed_', idx_' - 1, hashIdx_')
    BY <1>1, <1>5, <2>1 DEF Before
  <2>3. QED
    BY <1>1, <1>4, <1>6, <2>1, <2>2 DEF HashAtHand, UsedBefore
<1>7. CASE rolls /\ ~reseeds
  <2>1. /\ hashIdx_' = 0 /\ idx_' = idx_ + 1 /\ idx_ + 1 <= MaxIdx /\ seed_' = seed_
        /\ lastHash_' = OfBlock(seed_, idx_)
    BY <1>1, <1>2, <1>7
  <2>2. \A u \in used' : Before(u, seed_', idx_' - 1, hashIdx_')
    BY <1>1, <1>5, <2>1 DEF Before
  <2>3. (idx_ + 1) - 1 = idx_
    BY <1>1
  <2>4. QED
    BY <1>1, <1>4, <2>1, <2>2, <2>3 DEF HashAtHand, UsedBefore
<1>8. CASE rolls /\ reseeds
  <2>1. /\ hashIdx_' = 0 /\ idx_' = 0 /\ seed_' = seed_ + 1
        /\ lastHash_' = OfSeed(seed_ + 1)
    BY <1>1, <1>2, <1>8
  <2>2. \A u \in used' : Before(u, seed_', idx_' - 1, hashIdx_')
    BY <1>1, <1>5, <2>1 DEF Before
  <2>3. OfSeed(seed_ + 1) = OfBlock(seed_ + 1, 0 - 1)
    BY DEF OfSeed, OfBlock
  <2>4. QED
    BY <1>1, <1>4, <2>1, <2>2, <2>3 DEF HashAtHand, UsedBefore
<1>9. QED
  BY <1>6, <1>7, <1>8

\* A turn of the loops keeps the invariant.
LEMMA NextHolds == IInv /\ [Next]_vars => IInv'
<1> SUFFICES ASSUME IInv, [Next]_vars PROVE IInv'
  OBVIOUS
<1>1. TypeOK /\ ArgumentsOK /\ HashAtHand /\ UsedBefore
  BY DEF IInv
<1>2. size \in Nat \ {0}
  BY <1>1, LotteryAssumption DEF ArgumentsOK, Modulus
<1>3. CASE Draw
  <2>1. /\ Len(list) < n /\ Take(0) /\ size' = size /\ n' = n /\ used' = used
        /\ seed_' = seed_ /\ idx_' = idx_ /\ hashIdx_' = hashIdx_ /\ lastHash_' = lastHash_
    BY <1>3 DEF Draw, generator
  <2>2. list' \in Seq(0..(size - 1)) /\ Len(list') <= n
    BY <1>2, <2>1, TakeKeeps
  <2>3. TypeOK'
    BY <1>1, <2>1, <2>2 DEF TypeOK
  <2>4. QED
    BY <1>1, <2>1, <2>2, <2>3 DEF IInv, ArgumentsOK, HashAtHand, UsedBefore
<1>4. ASSUME NEW word \in Word, DrawWord(word)
      PROVE  IInv'
  <2>1. /\ Len(list) < n /\ size >= 2 /\ seed_ <= MaxReseed /\ size' = size /\ n' = n
        /\ Hash256Rand
        /\ IF word < MinWord(size) THEN UNCHANGED list ELSE Take(word % size)
    BY <1>4 DEF DrawWord
  <2>2. list' \in Seq(0..(size - 1)) /\ Len(list') <= n
    <3>1. CASE word < MinWord(size)
      BY <1>1, <2>1, <3>1 DEF TypeOK
    <3>2. CASE ~(word < MinWord(size))
      <4>1. Take(word % size)
        BY <2>1, <3>2
      <4>2. word \in Nat
        BY LotteryAssumption DEF Word, Modulus
      <4>3. word % size \in 0..(size - 1)
        BY <1>2, <4>2
      <4>4. QED
        BY <2>1, <4>1, <4>3, TakeKeeps
    <3>3. QED
      BY <3>1, <3>2
  <2>3. /\ hashIdx_' \in 0..(HashWords - 1) /\ idx_' \in 0..MaxIdx
        /\ seed_' \in 0..(MaxReseed + 1) /\ HashAtHand' /\ UsedBefore'
    BY <2>1, RandKeeps
  <2>4. TypeOK'
    BY <2>1, <2>2, <2>3 DEF TypeOK
  <2>5. QED
    BY <1>1, <2>1, <2>2, <2>3, <2>4 DEF IInv, ArgumentsOK
<1>5. CASE UNCHANGED vars
  BY <1>1, <1>5
     DEF vars, generator, IInv, TypeOK, ArgumentsOK, HashAtHand, UsedBefore
<1>6. QED
  BY <1>3, <1>4, <1>5 DEF Next

\* The invariant holds throughout.
THEOREM Invariance == Spec => []IInv
BY InitHolds, NextHolds, PTL DEF Spec

\* NoWordTwice: the generator's roll overs never repeat the stream.
THEOREM StreamIsFresh == Spec => []NoWordTwice
<1>1. IInv => NoWordTwice
  <2> SUFFICES ASSUME IInv, <<lastHash_, hashIdx_>> \in used
               PROVE  FALSE
    BY DEF NoWordTwice
  <2>1. /\ Before(<<lastHash_, hashIdx_>>, seed_, idx_ - 1, hashIdx_)
        /\ lastHash_.seed = seed_ /\ lastHash_.block = idx_ - 1
        /\ seed_ \in Int /\ idx_ \in Int /\ hashIdx_ \in Int
    BY LotteryAssumption DEF IInv, UsedBefore, HashAtHand, OfBlock, TypeOK
  <2>2. QED
    BY <2>1 DEF Before
<1>2. QED
  BY <1>1, Invariance, PTL

\* Unbiased: UniformRandom's two formulas leave every index the same number of
\* words, for every bound below the number of words.
THEOREM DrawIsUnbiased == Spec => []Unbiased
<1>1. IInv => Unbiased
  <2> SUFFICES ASSUME IInv, size >= 2, NEW i \in 0..(size - 1)
               PROVE  Cardinality(WordsOf(size, i)) = Cardinality(WordsOf(size, 0))
    BY DEF Unbiased, WordsOf
  <2>1. size \in 2..(Modulus - 1) /\ 0 \in 0..(size - 1)
    BY LotteryAssumption DEF IInv, ArgumentsOK, Modulus
  <2>2. \A j \in 0..(size - 1) : Cardinality(WordsOf(size, j)) = Modulus \div size
    BY <2>1, WordsCounted, FS_CountingElements
  <2>3. QED
    BY <2>1, <2>2
<1>2. QED
  BY <1>1, Invariance, PTL

\* The sizes of the two kinds of interval.
LEMMA IntervalSizes ==
  ASSUME NEW k \in Nat
  PROVE  IsFiniteSet(1..k) /\ Cardinality(1..k) = k /\ Cardinality(0..(k - 1)) = k
<1>1. IsFiniteSet(1..k) /\ Cardinality(1..k) = IF 1 > k THEN 0 ELSE k - 1 + 1
  BY FS_Interval
<1>2. Cardinality(0..(k - 1)) = IF 0 > k - 1 THEN 0 ELSE (k - 1) - 0 + 1
  <2>1. k - 1 \in Int
    OBVIOUS
  <2>2. QED
    BY <2>1, FS_Interval
<1>3. QED
  BY <1>1, <1>2

\* CanFinish: while indexes are missing, some word is accepted and gives an
\* index that is not in the list: there are more indexes than are listed, and
\* each has a word.
THEOREM DrawCanFinish == Spec => []CanFinish
<1>1. IInv => CanFinish
  <2> SUFFICES ASSUME IInv, Len(list) < n
               PROVE  \/ size < 2 /\ ~Contains(list, 0)
                      \/ \E w \in Word : w >= MinWord(size) /\ ~Contains(list, w % size)
    BY DEF CanFinish
  <2>1. /\ n \in Nat \ {0} /\ size \in Nat /\ n <= size /\ size \in n..(Modulus - 1)
        /\ list \in Seq(0..(size - 1)) /\ Len(list) \in Nat
        /\ list \in [1..Len(list) -> 0..(size - 1)]
    BY LotteryAssumption DEF IInv, ArgumentsOK, TypeOK, Modulus
  <2>2. PICK i \in 0..(size - 1) : ~Contains(list, i)
    <3> SUFFICES ASSUME \A i \in 0..(size - 1) : Contains(list, i)
                 PROVE  FALSE
      OBVIOUS
    <3>1. list \in Surjection(1..Len(list), 0..(size - 1))
      BY <2>1 DEF Surjection, Contains
    <3>2. /\ IsFiniteSet(1..Len(list)) /\ Cardinality(1..Len(list)) = Len(list)
          /\ Cardinality(0..(size - 1)) = size
      BY <2>1, IntervalSizes
    <3>3. Cardinality(0..(size - 1)) <= Cardinality(1..Len(list))
      BY <3>1, <3>2, FS_Surjection
    <3>4. QED
      BY <2>1, <3>2, <3>3
  <2>3. CASE size < 2
    <3>1. i = 0
      BY <2>1, <2>3
    <3>2. QED
      BY <2>2, <2>3, <3>1
  <2>4. CASE ~(size < 2)
    <3>1. size \in 2..(Modulus - 1)
      BY <2>1, <2>4
    <3>2. PICK q \in Nat \ {0} : ExistsBijection(1..q, WordsOf(size, i))
      BY <2>2, <3>1, WordsCounted
    <3>3. PICK f : f \in Bijection(1..q, WordsOf(size, i))
      BY <3>2 DEF ExistsBijection
    <3>4. 1 \in 1..q
      BY <3>2
    <3>5. f[1] \in WordsOf(size, i)
      BY <3>3, <3>4 DEF Bijection, Injection
    <3>6. QED
      BY <2>2, <3>5 DEF WordsOf
  <2>5. QED
    BY <2>3, <2>4
<1>2. QED
  BY <1>1, Invariance, PTL
=============================================================================
