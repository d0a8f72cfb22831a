------------------------------ MODULE MCMempool ------------------------------
\* Instances of Mempool.
EXTENDS Mempool

Plain == [spends |-> {}, ticket |-> FALSE, replaceable |-> FALSE, lock |-> 0, expiry |-> 0, paid |-> 0]
Out(t, n) == <<t, n>>

\* a feeds b, both feed the ticket c; x conflicts with a, which may be replaced.  b spends
\* a coinbase as well and is not final below height 2.
Chained ==
  [t \in {"a", "b", "c", "x"} |->
     CASE t = "a" -> [Plain EXCEPT !.spends = {Out("base", 0)}, !.replaceable = TRUE]
       [] t = "b" -> [Plain EXCEPT !.spends = {Out("a", 0), Out("k1", 0)}, !.lock = 2]
       [] t = "c" -> [Plain EXCEPT !.spends = {Out("a", 1), Out("b", 0)}, !.ticket = TRUE, !.paid = 2]
       [] t = "x" -> [Plain EXCEPT !.spends = {Out("base", 0)}]]

\* A split transaction funds two tickets, of which one expires.
Funding ==
  [t \in {"split", "t1", "t2"} |->
     CASE t = "split" -> [Plain EXCEPT !.spends = {Out("base", 0)}]
       [] t = "t1" -> [Plain EXCEPT !.spends = {Out("split", 0)}, !.ticket = TRUE, !.paid = 1]
       [] t = "t2" -> [Plain EXCEPT !.spends = {Out("split", 1)}, !.ticket = TRUE, !.paid = 2, !.expiry = 3]]

\* The change of a ticket is spent while the ticket is still in the pool.
Change ==
  [t \in {"t1", "pay", "next"} |->
     CASE t = "t1" -> [Plain EXCEPT !.spends = {Out("base", 0)}, !.ticket = TRUE, !.paid = 1]
       [] t = "pay" -> [Plain EXCEPT !.spends = {Out("t1", 2)}]
       [] t = "next" -> [Plain EXCEPT !.spends = {Out("pay", 0)}]]

Rivals == [c \in {"k1", "k2", "l2", "k3"} |-> IF c = "k1" THEN 1 ELSE IF c = "k3" THEN 3 ELSE 2]
Steady == [h \in 0 .. 3 |-> 1]
Late == [h \in 0 .. 3 |-> IF h < 3 THEN 2 ELSE 1]
Rising == [h \in 0 .. 2 |-> IF h < 1 THEN 1 ELSE 2]
FromFile == {<<"t1", 1>>}
Pair == {<<"a", 1>>, <<"b", 1>>}
=============================================================================
