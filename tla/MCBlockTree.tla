---------------------------- MODULE MCBlockTree ----------------------------
(* Trees of blocks for TLC. *)
EXTENDS BlockTree

\* Two chains from g: a1, a2 and b1, b2.
Two == {"g", "a1", "a2", "b1", "b2"}
TwoPrev == [b \in Two \ {"g"} |-> IF b = "a2" THEN "a1" ELSE IF b = "b2" THEN "b1" ELSE "g"]

\* A chain of three and a block beside its first.
Long == {"g", "a1", "a2", "a3", "b1"}
LongPrev == [b \in Long \ {"g"} |-> IF b = "a3" THEN "a2" ELSE IF b = "a2" THEN "a1" ELSE "g"]

\* A chain of two and a block beside its first.
Fork == {"g", "a1", "a2", "b1"}
ForkPrev == [b \in Fork \ {"g"} |-> IF b = "a2" THEN "a1" ELSE "g"]

\* The RPC calls: any, those that mark blocks, or those that leave the flags of a2 and of
\* its descendants and ancestors in step.
Every == {"invalidate", "reconsider", "precious"} \X Blocks
Marks == {"invalidate", "reconsider"} \X Blocks
Beside ==
  {c \in Every : (c[1] = "reconsider" => c[2] = "b1") /\ (c[1] = "invalidate" => c[2] # "a2")}

\* Every block has the same work.
Unit == [b \in Blocks |-> nHeight[b] + 1]

\* The addresses of the entries: one order and its reverse.
Up == CHOOSE f \in [Blocks -> 1..Cardinality(Blocks)] : \A a, b \in Blocks : a # b => f[a] # f[b]
UpDown == {Up, [b \in Blocks |-> Cardinality(Blocks) + 1 - Up[b]]}
=============================================================================
