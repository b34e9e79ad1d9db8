----------------------------- MODULE MCDqcCycle -----------------------------
(* A light cycle over two assets, and two runs of the first of them, one after the other  *)
(* or one in vain.  The rule that may fail is one that the light cycle leaves out.        *)
EXTENDS DqcCycle

CONSTANTS c1, c2, c3
MCScope == (c1 :> <<"hourly", 0>>) @@ (c2 :> <<"asset", 1>>) @@ (c3 :> <<"asset", 1>>)
MCTruths == {[timeliness |-> 100, uniqueness |-> u] : u \in {70, 100}}
=============================================================================
