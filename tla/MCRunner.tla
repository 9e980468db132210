------------------------------ MODULE MCRunner ------------------------------
EXTENDS Runner

(* A guest of compiled code, with fresh ids and one stream, and any guest,  *)
(* which reuses two ids and whose responses may exceed the budget.          *)
MCGuests ==
  {[conforming |-> TRUE, calls |-> 4, ids |-> 5, streams |-> 1, sizes |-> {1}],
   [conforming |-> FALSE, calls |-> 3, ids |-> 2, streams |-> 2, sizes |-> {1, 3}]}

MCCompiled == {g \in MCGuests : g.conforming}
=============================================================================
