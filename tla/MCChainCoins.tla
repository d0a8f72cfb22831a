---------------------------- MODULE MCChainCoins ----------------------------
(* Chains with their transactions for TLC. *)
EXTENDS ChainCoins

\* Two chains of two blocks from g; transaction pay is in both, at other heights.
\* Block x2, on b1, has a vote for a ticket that is only on the other chain.
Two == {"g", "a1", "a2", "b1", "b2", "x2"}
TwoPrev == [b \in Two \ {"g"} |-> IF b = "a2" THEN "a1" ELSE IF b \in {"b2", "x2"} THEN "b1" ELSE "g"]
TwoTxs ==
  [b \in Two |-> CASE b = "g" -> <<"gen">>
                   [] b = "a1" -> <<"buy", "pay">>
                   [] b = "a2" -> <<"vote", "join">>
                   [] b = "b1" -> <<"alt">>
                   [] b = "b2" -> <<"pay", "next">>
                   [] b = "x2" -> <<"vote", "pay">>]

\* pay and next are chained; buy takes its coins from the genesis block, and in
\* Funded from pay, in the same block.  In Respent join and pay spend the same coin,
\* which is possible if a2 disapproves a1.
Outs == {"g1", "g2", "p", "n", "t", "u", "v"}
Ins ==
  [t \in {"gen", "buy", "pay", "vote", "join", "alt", "next"} |->
     CASE t = "gen" -> {} [] t = "buy" -> {"g2"} [] t = "pay" -> {"g1"} [] t = "vote" -> {"t"}
       [] t = "join" -> {"p"} [] t = "alt" -> {"g2"} [] t = "next" -> {"p"}]
Funded == [Ins EXCEPT !["buy"] = {"p"}, !["join"] = {"g2"}]
Respent == [Ins EXCEPT !["join"] = {"g1"}]
Creates ==
  [t \in DOMAIN Ins |->
     CASE t = "gen" -> {"g1", "g2"} [] t = "buy" -> {"t"} [] t = "pay" -> {"p"} [] t = "vote" -> {"v"}
       [] t = "join" -> {"n"} [] t = "alt" -> {"u"} [] t = "next" -> {"n"}]
StakeTxs == {"buy", "vote"}
=============================================================================
