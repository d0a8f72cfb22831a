------------------------- MODULE CoinsCacheProofs -------------------------
(***************************************************************************)
(* For any outpoints and coins: the flags of the coin caches are sound, no  *)
(* logic_error is thrown, and the caches implement CoinsView.               *)
(***************************************************************************)
EXTENDS CoinsCache, TLAPS

Value == Coins \cup {Spent}
Slot == Entry \cup {Absent}

\* An entry, with its three fields, is not the mark for no entry.
LEMMA AbsentNoEntry == Absent \notin Entry
<1>1. DOMAIN Absent = {"coin"}  BY DEF Absent
<1>2. \A e \in Entry : DOMAIN e = {"coin", "dirty", "fresh"}  BY DEF Entry
<1> QED  BY <1>1, <1>2

\* Building an entry.
LEMMA NewEntry ==
  ASSUME NEW c \in Value, NEW d \in BOOLEAN, NEW f \in BOOLEAN
  PROVE  /\ [coin |-> c, dirty |-> d, fresh |-> f] \in Entry
         /\ [coin |-> c, dirty |-> d, fresh |-> f] # Absent
<1>1. [coin |-> c, dirty |-> d, fresh |-> f] \in Entry  BY DEF Entry, Value
<1> QED  BY <1>1, AbsentNoEntry

\* A look-up keeps the entry sound and shows the same coin.
LEMMA FetchSound ==
  ASSUME NEW e \in Slot, NEW below \in Value, Sound(e, below)
  PROVE  /\ FetchCoin(e, below) \in Slot
         /\ Sound(FetchCoin(e, below), below)
         /\ Read(FetchCoin(e, below), below) = Read(e, below)
         /\ FetchCoin(e, below) = Absent => Read(e, below) = Spent
<1> DEFINE r == [coin |-> below, dirty |-> FALSE, fresh |-> FALSE]
<1>1. r \in Entry /\ r # Absent  BY NewEntry
<1>2. r.coin = below /\ r.dirty = FALSE /\ r.fresh = FALSE  OBVIOUS
<1> HIDE DEF r
<1>3. FetchCoin(e, below) = IF e # Absent \/ below = Spent THEN e ELSE r  BY DEF FetchCoin, r
<1> QED  BY <1>1, <1>2, <1>3 DEF Sound, Read, Slot

\* AddCoin of a coin that may be added refuses nothing, and the coin shows.
LEMMA AddSound ==
  ASSUME NEW e \in Slot, NEW below \in Value, Sound(e, below),
         NEW c \in Coins, NEW overwrite \in BOOLEAN,
         ~overwrite => Read(e, below) = Spent
  PROVE  /\ AddCoin(e, c, overwrite) \in Slot
         /\ Sound(AddCoin(e, c, overwrite), below)
         /\ Read(AddCoin(e, c, overwrite), below) = c
         /\ ~Refuses(e, overwrite)
<1> DEFINE f == \/ e # Absent /\ e.fresh
                \/ ~overwrite /\ ~(e # Absent /\ e.dirty)
           r == [coin |-> c, dirty |-> TRUE, fresh |-> f]
<1>1. e # Absent => e \in Entry /\ e.fresh \in BOOLEAN /\ e.dirty \in BOOLEAN  BY DEF Slot, Entry
<1>2. f \in BOOLEAN  BY <1>1
<1>3. f => below = Spent  BY <1>1 DEF Sound, Read
<1>4. Absent.coin = Spent  BY DEF Absent
<1>5. ~Refuses(e, overwrite)  BY <1>4 DEF Refuses, Read
<1> HIDE DEF f
<1>6. r \in Entry /\ r # Absent  BY <1>2, NewEntry DEF Value
<1>7. r.coin = c /\ r.dirty = TRUE /\ r.fresh = f  OBVIOUS
<1> HIDE DEF r
<1>8. AddCoin(e, c, overwrite) = r  BY DEF AddCoin, r, f
<1> QED  BY <1>3, <1>5, <1>6, <1>7, <1>8, CoinsAssumption DEF Sound, Read, Slot

\* SpendCoin of an entry that was looked up leaves the coin spent.
LEMMA SpendSound ==
  ASSUME NEW e \in Slot, NEW below \in Value, Sound(e, below),
         e = Absent => below = Spent
  PROVE  /\ SpendCoin(e) \in Slot
         /\ Sound(SpendCoin(e), below)
         /\ Read(SpendCoin(e), below) = Spent
<1> DEFINE r == [coin |-> Spent, dirty |-> TRUE, fresh |-> FALSE]
<1>1. r \in Entry /\ r # Absent  BY NewEntry DEF Value
<1>2. r.coin = Spent /\ r.dirty = TRUE /\ r.fresh = FALSE  OBVIOUS
<1> HIDE DEF r
<1>3. SpendCoin(e) = IF e = Absent \/ e.fresh THEN Absent ELSE r  BY DEF SpendCoin, r
<1> QED  BY <1>1, <1>2, <1>3 DEF Sound, Read, Slot

\* BatchWrite of sound entries never finds a FRESH flag misapplied; the parent is
\* sound over its own base, and shows what the child showed.
LEMMA BatchSound ==
  ASSUME NEW p \in Slot, NEW e \in Slot, NEW below \in Value,
         Sound(p, below), Sound(e, Read(p, below))
  PROVE  /\ BatchWrite(p, e) \in Slot
         /\ Sound(BatchWrite(p, e), below)
         /\ Read(BatchWrite(p, e), below) = Read(e, Read(p, below))
         /\ ~Misapplied(p, e)
<1>0. Absent.coin = Spent  BY DEF Absent
<1>1. ~Misapplied(p, e)  BY <1>0 DEF Misapplied, Sound, Read
<1>2. CASE e = Absent \/ ~e.dirty
  <2>1. BatchWrite(p, e) = p  BY <1>2 DEF BatchWrite
  <2> QED  BY <1>1, <1>2, <2>1 DEF Sound, Read
<1>3. CASE e # Absent /\ e.dirty
  <2> DEFINE f == IF p = Absent THEN e.fresh ELSE p.fresh
             r == [coin |-> e.coin, dirty |-> TRUE, fresh |-> f]
  <2>1. e.coin \in Value /\ f \in BOOLEAN  BY <1>3 DEF Slot, Entry, Value
  <2>2. f => below = Spent  BY <1>3 DEF Sound, Read
  <2> HIDE DEF f
  <2>3. r \in Entry /\ r # Absent  BY <2>1, NewEntry
  <2>4. r.coin = e.coin /\ r.dirty = TRUE /\ r.fresh = f  OBVIOUS
  <2> HIDE DEF r
  <2>5. BatchWrite(p, e) = IF f /\ e.coin = Spent THEN Absent ELSE r
    BY <1>3, <2>1 DEF BatchWrite, r, f
  <2> QED  BY <1>1, <1>3, <2>1, <2>2, <2>3, <2>4, <2>5 DEF Sound, Read, Slot
<1> QED  BY <1>2, <1>3
-----------------------------------------------------------------------------
(* The caches.  The invariant is inductive as it stands: FlagsSound holds    *)
(* because the entries of each cache are sound over what the cache below      *)
(* shows, which look-ups, evictions and flushes do not change.                *)

IInv == TypeOK /\ FlagsSound /\ ClosedEmpty /\ NothingThrown

TopBase(o) == IF open THEN TipCoin(o) ELSE db[o]

LEMMA Top ==
  ASSUME IInv, NEW o \in Outpoints
  PROVE  /\ tip[o] \in Slot /\ view[o] \in Slot /\ db[o] \in Value
         /\ TipCoin(o) \in Value /\ TopBase(o) \in Value
         /\ TopEntry(o) \in Slot /\ Sound(TopEntry(o), TopBase(o))
         /\ TopFetched(o) = FetchCoin(TopEntry(o), TopBase(o))
         /\ TopCoin(o) = Read(TopEntry(o), TopBase(o))
         /\ Below(o) \in Slot /\ Sound(Below(o), db[o]) /\ Read(Below(o), db[o]) = TipCoin(o)
<1>1. tip[o] \in Slot /\ view[o] \in Slot /\ db[o] \in Value
  BY DEF IInv, TypeOK, Slot, Value
<1>2. Sound(tip[o], db[o]) /\ Sound(view[o], TipCoin(o))  BY DEF IInv, FlagsSound
<1>3. TipCoin(o) \in Value  BY <1>1 DEF TipCoin, Read, Slot, Entry, Value
<1>4. /\ TipFetched(o) \in Slot /\ Sound(TipFetched(o), db[o])
      /\ Read(TipFetched(o), db[o]) = TipCoin(o)
  BY <1>1, <1>2, FetchSound DEF TipFetched, TipCoin
<1>5. open \in BOOLEAN  BY DEF IInv, TypeOK
<1>6. /\ TopBase(o) \in Value
      /\ TopEntry(o) \in Slot /\ Sound(TopEntry(o), TopBase(o))
      /\ TopFetched(o) = FetchCoin(TopEntry(o), TopBase(o))
      /\ TopCoin(o) = Read(TopEntry(o), TopBase(o))
  BY <1>1, <1>2, <1>3, <1>5
     DEF TopBase, TopEntry, TopFetched, TopCoin, ViewFetched, TipFetched, ViewCoin, TipCoin
<1>7. Below(o) \in Slot /\ Sound(Below(o), db[o]) /\ Read(Below(o), db[o]) = TipCoin(o)
  BY <1>1, <1>2, <1>4 DEF Below, TipCoin
<1> QED  BY <1>1, <1>3, <1>6, <1>7

\* What the code sees of the caches after the top one got a sound entry.
LEMMA TopSet ==
  ASSUME IInv, NEW o \in Outpoints, NEW e \in Slot, NEW t \in Slot,
         Sound(e, TopBase(o)), Sound(t, db[o]), Read(t, db[o]) = TipCoin(o),
         SetTop(o, e, t), UNCHANGED <<db, open>>, thrown' = FALSE
  PROVE  /\ IInv'
         /\ \A x \in Outpoints :
              /\ TipCoin(x)' = IF ~open /\ x = o THEN Read(e, TopBase(o)) ELSE TipCoin(x)
              /\ ViewCoin(x)' = IF x = o THEN Read(e, TopBase(o)) ELSE ViewCoin(x)
<1>0. TypeOK /\ FlagsSound /\ ClosedEmpty  BY DEF IInv
<1>1. /\ tip' \in [Outpoints -> Slot] /\ view' \in [Outpoints -> Slot]
      /\ db' = db /\ open' = open /\ open \in BOOLEAN
  BY <1>0 DEF TypeOK, SetTop, Slot
<1>2. TypeOK'  BY <1>0, <1>1 DEF TypeOK, Slot
<1>3. \A x \in Outpoints \ {o} : tip'[x] = tip[x] /\ view'[x] = view[x]
  BY <1>0 DEF TypeOK, SetTop
<1>4. CASE open
  <2>1. tip'[o] = t /\ view'[o] = e /\ TopBase(o) = TipCoin(o)
    BY <1>0, <1>4 DEF TypeOK, SetTop, TopBase
  <2>2. \A x \in Outpoints : TipCoin(x)' = TipCoin(x)
    BY <1>1, <1>3, <2>1 DEF TipCoin
  <2>3. \A x \in Outpoints : ViewCoin(x)' = IF x = o THEN Read(e, TopBase(o)) ELSE ViewCoin(x)
    BY <1>3, <2>1, <2>2 DEF ViewCoin
  <2>4. \A x \in Outpoints : Sound(tip'[x], db'[x]) /\ Sound(view'[x], TipCoin(x)')
    BY <1>0, <1>1, <1>3, <2>1, <2>2 DEF FlagsSound
  <2>5. FlagsSound'  BY <2>4 DEF FlagsSound
  <2>6. ClosedEmpty' /\ NothingThrown'  BY <1>1, <1>4 DEF ClosedEmpty, NothingThrown
  <2> QED  BY <1>2, <1>4, <2>2, <2>3, <2>5, <2>6 DEF IInv
<1>5. CASE ~open
  <2>1. tip'[o] = e /\ view' = view /\ TopBase(o) = db[o]
    BY <1>0, <1>5 DEF TypeOK, SetTop, TopBase
  <2>2. \A x \in Outpoints : view[x] = Absent  BY <1>0, <1>5 DEF ClosedEmpty, Nothing
  <2>3. \A x \in Outpoints : TipCoin(x)' = IF x = o THEN Read(e, TopBase(o)) ELSE TipCoin(x)
    BY <1>1, <1>3, <2>1 DEF TipCoin
  <2>4. \A x \in Outpoints : ViewCoin(x)' = TipCoin(x)' /\ ViewCoin(x) = TipCoin(x)
    BY <2>1, <2>2 DEF ViewCoin, Read
  <2>5. \A x \in Outpoints : Sound(tip'[x], db'[x]) /\ Sound(view'[x], TipCoin(x)')
    BY <1>0, <1>1, <1>3, <2>1, <2>2 DEF FlagsSound, Sound
  <2>6. FlagsSound'  BY <2>5 DEF FlagsSound
  <2>7. ClosedEmpty' /\ NothingThrown'  BY <1>0, <1>1, <2>1 DEF ClosedEmpty, NothingThrown, Nothing
  <2> QED  BY <1>2, <1>5, <2>3, <2>4, <2>6, <2>7 DEF IInv
<1> QED  BY <1>1, <1>4, <1>5
-----------------------------------------------------------------------------
(* The steps.  An operation on one outpoint is a Change of CoinsView if the   *)
(* top cache shows another coin afterwards, and else a stuttering step.       *)

AbsStep == [Abstract!Next]_(Abstract!vars)

\* A step after which the top cache shows c for o and all else is as before.
LEMMA ChangeStep ==
  ASSUME IInv, NEW o \in Outpoints, NEW c \in Value, UNCHANGED <<db, open>>,
         \A x \in Outpoints :
            /\ TipCoin(x)' = IF ~open /\ x = o THEN c ELSE TipCoin(x)
            /\ ViewCoin(x)' = IF x = o THEN c ELSE ViewCoin(x)
  PROVE  AbsStep
<1> DEFINE C == [x \in Outpoints |-> TipCoin(x)]  D == [x \in Outpoints |-> ViewCoin(x)]
<1>1. D' = [D EXCEPT ![o] = c]  OBVIOUS
<1>2. ~open => C = D
  BY DEF IInv, ClosedEmpty, Nothing, ViewCoin, Read
<1>3. C' = IF open THEN C ELSE D'
  <2>1. CASE open  BY <2>1
  <2>2. CASE ~open
    <3>1. \A x \in Outpoints : TipCoin(x) = ViewCoin(x)
      BY <2>2 DEF IInv, ClosedEmpty, Nothing, ViewCoin, Read
    <3> QED  BY <2>2, <3>1
  <2> QED  BY <2>1, <2>2
<1>4. Abstract!Change(o, c)  BY <1>1, <1>3 DEF Abstract!Change
<1> QED  BY <1>4 DEF AbsStep, Abstract!Next, Value

LEMMA AccessStep ==
  ASSUME IInv, NEW o \in Outpoints, Access(o)
  PROVE  IInv' /\ AbsStep
<1> DEFINE e == TopFetched(o)
<1>1. e \in Slot /\ Sound(e, TopBase(o)) /\ Read(e, TopBase(o)) = TopCoin(o)
  BY Top, FetchSound
<1>2. thrown' = FALSE  BY DEF Access, IInv, NothingThrown, TypeOK
<1> HIDE DEF e
<1>3. SetTop(o, e, Below(o)) /\ UNCHANGED <<db, open>>  BY DEF Access, e
<1>4. /\ IInv'
      /\ \A x \in Outpoints :
            /\ TipCoin(x)' = IF ~open /\ x = o THEN TopCoin(o) ELSE TipCoin(x)
            /\ ViewCoin(x)' = IF x = o THEN TopCoin(o) ELSE ViewCoin(x)
  BY <1>1, <1>2, <1>3, Top, TopSet
<1>5. TopCoin(o) \in Value
  BY Top DEF Read, Slot, Entry, Value
<1> QED  BY <1>3, <1>4, <1>5, ChangeStep

LEMMA SpendStep ==
  ASSUME IInv, NEW o \in Outpoints, Spend(o)
  PROVE  IInv' /\ AbsStep
<1> DEFINE e == SpendCoin(TopFetched(o))
<1>1. /\ TopFetched(o) \in Slot /\ Sound(TopFetched(o), TopBase(o))
      /\ TopFetched(o) = Absent => TopBase(o) = Spent
  <2>1. TopFetched(o) = Absent => Read(TopFetched(o), TopBase(o)) = TopBase(o)  BY DEF Read
  <2> QED  BY <2>1, Top, FetchSound
<1>2. e \in Slot /\ Sound(e, TopBase(o)) /\ Read(e, TopBase(o)) = Spent
  BY <1>1, Top, SpendSound
<1>3. thrown' = FALSE  BY DEF Spend, IInv, NothingThrown, TypeOK
<1> HIDE DEF e
<1>4. SetTop(o, e, Below(o)) /\ UNCHANGED <<db, open>>  BY DEF Spend, e
<1>5. /\ IInv'
      /\ \A x \in Outpoints :
            /\ TipCoin(x)' = IF ~open /\ x = o THEN Spent ELSE TipCoin(x)
            /\ ViewCoin(x)' = IF x = o THEN Spent ELSE ViewCoin(x)
  BY <1>2, <1>3, <1>4, Top, TopSet
<1> QED  BY <1>4, <1>5, ChangeStep DEF Value

LEMMA AddStep ==
  ASSUME IInv, NEW o \in Outpoints, NEW c \in Coins, NEW coinbase \in BOOLEAN,
         Add(o, c, coinbase)
  PROVE  IInv' /\ AbsStep
<1> DEFINE e == AddCoin(TopEntry(o), c, coinbase)
<1>1. ~coinbase => TopCoin(o) = Spent  BY DEF Add
<1>2. /\ e \in Slot /\ Sound(e, TopBase(o)) /\ Read(e, TopBase(o)) = c
      /\ ~Refuses(TopEntry(o), coinbase)
  BY <1>1, Top, AddSound
<1>3. thrown' = FALSE  BY <1>2 DEF Add, IInv, NothingThrown, TypeOK
<1> HIDE DEF e
<1>4. SetTop(o, e, tip[o]) /\ UNCHANGED <<db, open>>  BY DEF Add, e
<1>5. Sound(tip[o], db[o]) /\ Read(tip[o], db[o]) = TipCoin(o)
  BY DEF IInv, FlagsSound, TipCoin
<1>6. /\ IInv'
      /\ \A x \in Outpoints :
            /\ TipCoin(x)' = IF ~open /\ x = o THEN c ELSE TipCoin(x)
            /\ ViewCoin(x)' = IF x = o THEN c ELSE ViewCoin(x)
  BY <1>2, <1>3, <1>4, <1>5, Top, TopSet
<1> QED  BY <1>4, <1>6, ChangeStep DEF Value

LEMMA RestoreStep ==
  ASSUME IInv, NEW o \in Outpoints, NEW c \in Coins, Restore(o, c)
  PROVE  IInv' /\ AbsStep
<1> DEFINE over == TopCoin(o) # Spent
           e == AddCoin(TopFetched(o), c, over)
<1>1. /\ TopFetched(o) \in Slot /\ Sound(TopFetched(o), TopBase(o))
      /\ Read(TopFetched(o), TopBase(o)) = TopCoin(o)
  BY Top, FetchSound
<1>2. over \in BOOLEAN /\ (~over => Read(TopFetched(o), TopBase(o)) = Spent)  BY <1>1
<1>3. /\ thrown' = (thrown \/ Refuses(TopFetched(o), over))
      /\ SetTop(o, e, Below(o)) /\ UNCHANGED <<db, open>>
  BY DEF Restore
<1> HIDE DEF over
<1>4. /\ e \in Slot /\ Sound(e, TopBase(o)) /\ Read(e, TopBase(o)) = c
      /\ ~Refuses(TopFetched(o), over)
  BY <1>1, <1>2, Top, AddSound
<1>5. thrown' = FALSE  BY <1>3, <1>4 DEF IInv, NothingThrown, TypeOK
<1> HIDE DEF e
<1>6. /\ IInv'
      /\ \A x \in Outpoints :
            /\ TipCoin(x)' = IF ~open /\ x = o THEN c ELSE TipCoin(x)
            /\ ViewCoin(x)' = IF x = o THEN c ELSE ViewCoin(x)
  BY <1>3, <1>4, <1>5, Top, TopSet
<1> QED  BY <1>3, <1>6, ChangeStep DEF Value
LEMMA UncacheStep ==
  ASSUME IInv, NEW o \in Outpoints, Uncache(o)
  PROVE  IInv' /\ AbsStep
<1>0. TypeOK /\ FlagsSound /\ ClosedEmpty /\ NothingThrown  BY DEF IInv
<1>1. /\ tip' \in [Outpoints -> Slot] /\ tip'[o] = Uncached(tip[o])
      /\ \A x \in Outpoints \ {o} : tip'[x] = tip[x]
  BY <1>0 DEF Uncache, Uncached, TypeOK, Slot
<1>2. UNCHANGED <<db, view, open, thrown>>  BY DEF Uncache
<1>3. \A x \in Outpoints : Sound(tip[x], db[x]) /\ Sound(view[x], TipCoin(x))
  BY <1>0 DEF FlagsSound
<1>4. Sound(tip'[o], db[o]) /\ Read(tip'[o], db[o]) = Read(tip[o], db[o])
  BY <1>1, <1>3 DEF Uncached, Sound, Read
<1>5. \A x \in Outpoints : TipCoin(x)' = TipCoin(x) /\ Sound(tip'[x], db[x])
  BY <1>1, <1>2, <1>3, <1>4 DEF TipCoin
<1>6. \A x \in Outpoints : ViewCoin(x)' = ViewCoin(x)  BY <1>2, <1>5 DEF ViewCoin
<1>7. FlagsSound'  BY <1>2, <1>3, <1>5 DEF FlagsSound
<1>8. IInv'
  BY <1>0, <1>1, <1>2, <1>7 DEF IInv, TypeOK, Slot, ClosedEmpty, NothingThrown, Nothing
<1>9. UNCHANGED Abstract!vars  BY <1>2, <1>5, <1>6 DEF Abstract!vars
<1> QED  BY <1>8, <1>9 DEF AbsStep

LEMMA OpenStep ==
  ASSUME IInv, Open
  PROVE  IInv' /\ AbsStep
<1>1. view' = Nothing /\ view = Nothing /\ open' = TRUE /\ ~open /\ UNCHANGED <<db, tip, thrown>>
  BY DEF Open, IInv, ClosedEmpty
<1>2. \A x \in Outpoints : TipCoin(x)' = TipCoin(x) /\ ViewCoin(x)' = ViewCoin(x)
  BY <1>1 DEF TipCoin, ViewCoin
<1>3. IInv'
  BY <1>1, <1>2 DEF IInv, TypeOK, FlagsSound, ClosedEmpty, NothingThrown
<1>4. Abstract!Open  BY <1>1, <1>2 DEF Abstract!Open
<1> QED  BY <1>3, <1>4 DEF AbsStep, Abstract!Next

LEMMA CloseStep ==
  ASSUME IInv, Close
  PROVE  IInv' /\ AbsStep
<1>1. view' = Nothing /\ open' = FALSE /\ open /\ UNCHANGED <<db, tip, thrown>>
  BY DEF Close
<1>2. \A x \in Outpoints : view'[x] = Absent  BY <1>1 DEF Nothing
<1>3. \A x \in Outpoints : TipCoin(x)' = TipCoin(x) /\ ViewCoin(x)' = TipCoin(x)'
  BY <1>1, <1>2 DEF TipCoin, ViewCoin, Read
<1>4. view' \in [Outpoints -> Slot]  BY <1>1 DEF Nothing, Slot
<1>5. FlagsSound'  BY <1>1, <1>2, <1>3 DEF IInv, FlagsSound, Sound
<1>6. IInv'
  BY <1>1, <1>4, <1>5 DEF IInv, TypeOK, ClosedEmpty, NothingThrown, Nothing, Slot
<1>7. Abstract!Close  BY <1>1, <1>3 DEF Abstract!Close
<1> QED  BY <1>6, <1>7 DEF AbsStep, Abstract!Next

LEMMA FlushViewStep ==
  ASSUME IInv, FlushView
  PROVE  IInv' /\ AbsStep
<1>0. TypeOK /\ FlagsSound /\ NothingThrown  BY DEF IInv
<1>1. view' = Nothing /\ open /\ UNCHANGED <<db, open>>  BY DEF FlushView
<1>2. \A x \in Outpoints : view'[x] = Absent  BY <1>1 DEF Nothing
<1>3. \A x \in Outpoints : tip'[x] = BatchWrite(tip[x], view[x])  BY DEF FlushView
<1>4. \A x \in Outpoints :
        /\ tip'[x] \in Slot /\ Sound(tip'[x], db[x])
        /\ Read(tip'[x], db[x]) = ViewCoin(x)
        /\ ~Misapplied(tip[x], view[x])
  <2> SUFFICES ASSUME NEW x \in Outpoints
               PROVE  /\ tip'[x] \in Slot /\ Sound(tip'[x], db[x])
                      /\ Read(tip'[x], db[x]) = ViewCoin(x)
                      /\ ~Misapplied(tip[x], view[x])
    OBVIOUS
  <2>1. tip[x] \in Slot /\ view[x] \in Slot /\ db[x] \in Value  BY Top
  <2>2. Sound(tip[x], db[x]) /\ Sound(view[x], Read(tip[x], db[x]))
    BY <1>0 DEF FlagsSound, TipCoin
  <2> QED  BY <1>3, <2>1, <2>2, BatchSound DEF ViewCoin, TipCoin
<1>5. thrown' = FALSE  BY <1>0, <1>4 DEF FlushView, NothingThrown, TypeOK
<1>6. \A x \in Outpoints : TipCoin(x)' = ViewCoin(x) /\ ViewCoin(x)' = TipCoin(x)'
  BY <1>1, <1>2, <1>4 DEF TipCoin, ViewCoin, Read
<1>7. FlagsSound'  BY <1>1, <1>2, <1>4 DEF FlagsSound, Sound
<1>8. tip' \in [Outpoints -> Slot] /\ view' \in [Outpoints -> Slot]
  <2>1. view' \in [Outpoints -> Slot]  BY <1>1 DEF Nothing, Slot
  <2>2. tip' = [x \in Outpoints |-> BatchWrite(tip[x], view[x])]  BY DEF FlushView
  <2> QED  BY <1>3, <1>4, <2>1, <2>2
<1>9. IInv'
  BY <1>0, <1>1, <1>5, <1>7, <1>8 DEF IInv, TypeOK, ClosedEmpty, NothingThrown, Slot
<1>10. Abstract!Commit  BY <1>1, <1>6 DEF Abstract!Commit
<1> QED  BY <1>9, <1>10 DEF AbsStep, Abstract!Next

LEMMA FlushTipStep ==
  ASSUME IInv, FlushTip
  PROVE  IInv' /\ AbsStep
<1>0. TypeOK /\ FlagsSound /\ ClosedEmpty /\ NothingThrown  BY DEF IInv
<1>1. tip' = Nothing /\ UNCHANGED <<view, open, thrown>>  BY DEF FlushTip
<1>2. \A x \in Outpoints : tip'[x] = Absent  BY <1>1 DEF Nothing
<1>3. \A x \in Outpoints : db'[x] = TipCoin(x)
  <2> SUFFICES ASSUME NEW x \in Outpoints PROVE db'[x] = TipCoin(x)  OBVIOUS
  <2>1. db'[x] = IF tip[x] # Absent /\ tip[x].dirty THEN tip[x].coin ELSE db[x]
    BY DEF FlushTip
  <2>2. Sound(tip[x], db[x])  BY <1>0 DEF FlagsSound
  <2> QED  BY <2>1, <2>2 DEF TipCoin, Read, Sound
<1>4. db' = [x \in Outpoints |-> TipCoin(x)]  BY <1>3 DEF FlushTip
<1>5. \A x \in Outpoints : TipCoin(x)' = TipCoin(x) /\ TipCoin(x) \in Value
  BY <1>2, <1>3, Top DEF TipCoin, Read
<1>6. \A x \in Outpoints : ViewCoin(x)' = ViewCoin(x)  BY <1>1, <1>5 DEF ViewCoin
<1>7. FlagsSound'  BY <1>0, <1>1, <1>2, <1>5 DEF FlagsSound, Sound
<1>8. tip' \in [Outpoints -> Slot] /\ db' \in [Outpoints -> Value]
  BY <1>1, <1>4, <1>5 DEF Nothing, Slot
<1>9. IInv'
  BY <1>0, <1>1, <1>7, <1>8 DEF IInv, TypeOK, ClosedEmpty, NothingThrown, Nothing, Slot, Value
<1>10. Abstract!Sync  BY <1>1, <1>4, <1>5, <1>6 DEF Abstract!Sync
<1> QED  BY <1>9, <1>10 DEF AbsStep, Abstract!Next

-----------------------------------------------------------------------------
LEMMA InitStep == Init => IInv /\ Abstract!Init
<1> SUFFICES ASSUME Init PROVE IInv /\ Abstract!Init  OBVIOUS
<1>1. \A x \in Outpoints : tip[x] = Absent /\ view[x] = Absent  BY DEF Init, Nothing
<1>2. IInv
  BY <1>1 DEF Init, IInv, TypeOK, FlagsSound, Sound, ClosedEmpty, NothingThrown, Nothing
<1>3. \A x \in Outpoints : TipCoin(x) = db[x] /\ ViewCoin(x) = db[x]
  BY <1>1 DEF TipCoin, ViewCoin, Read
<1>4. Abstract!Init  BY <1>3 DEF Init, Abstract!Init
<1> QED  BY <1>2, <1>4

LEMMA NextStep == IInv /\ [Next]_vars => IInv' /\ AbsStep
<1> SUFFICES ASSUME IInv, [Next]_vars PROVE IInv' /\ AbsStep  OBVIOUS
<1>1. CASE UNCHANGED vars
  <2>1. \A x \in Outpoints : TipCoin(x)' = TipCoin(x) /\ ViewCoin(x)' = ViewCoin(x)
    BY <1>1 DEF vars, TipCoin, ViewCoin
  <2>2. IInv'
    BY <1>1, <2>1 DEF vars, IInv, TypeOK, FlagsSound, ClosedEmpty, NothingThrown
  <2>3. UNCHANGED Abstract!vars  BY <1>1, <2>1 DEF vars, Abstract!vars
  <2> QED  BY <2>2, <2>3 DEF AbsStep
<1>2. ASSUME NEW o \in Outpoints, Access(o) PROVE IInv' /\ AbsStep  BY <1>2, AccessStep
<1>3. ASSUME NEW o \in Outpoints, Spend(o) PROVE IInv' /\ AbsStep  BY <1>3, SpendStep
<1>4. ASSUME NEW o \in Outpoints, Uncache(o) PROVE IInv' /\ AbsStep  BY <1>4, UncacheStep
<1>5. ASSUME NEW o \in Outpoints, NEW c \in Coins, Restore(o, c) PROVE IInv' /\ AbsStep
  BY <1>5, RestoreStep
<1>6. ASSUME NEW o \in Outpoints, NEW c \in Coins, NEW cb \in BOOLEAN, Add(o, c, cb)
      PROVE IInv' /\ AbsStep
  BY <1>6, AddStep
<1>7. CASE Open  BY <1>7, OpenStep
<1>8. CASE FlushView  BY <1>8, FlushViewStep
<1>9. CASE Close  BY <1>9, CloseStep
<1>10. CASE FlushTip  BY <1>10, FlushTipStep
<1> QED  BY <1>1, <1>2, <1>3, <1>4, <1>5, <1>6, <1>7, <1>8, <1>9, <1>10 DEF Next

\* The invariant the other theorems rest on.
THEOREM Inductive == Spec => []IInv
<1>1. IInv /\ [Next]_vars => IInv'  BY NextStep
<1> QED  BY <1>1, InitStep, PTL DEF Spec

\* FRESH and DIRTY say the truth about the base of each cache, whatever is looked
\* up, added, spent, dropped and flushed, in any order.
THEOREM FlagsAlwaysSound == Spec => []FlagsSound
<1>1. IInv => FlagsSound  BY DEF IInv
<1> QED  BY <1>1, Inductive, PTL

\* The two logic_errors of AddCoin and BatchWrite are never thrown.
THEOREM NeverThrown == Spec => []NothingThrown
<1>1. IInv => NothingThrown  BY DEF IInv
<1> QED  BY <1>1, Inductive, PTL

\* The caches show the coins of CoinsView: no coin is lost or revived.
THEOREM Implements == Spec => CoinsViewSpec
<1>1. Init => Abstract!Init  BY InitStep
<1>2. IInv /\ [Next]_vars => [Abstract!Next]_(Abstract!vars)  BY NextStep DEF AbsStep
<1> QED  BY <1>1, <1>2, Inductive, PTL DEF Spec, CoinsViewSpec, Abstract!Spec
=============================================================================
