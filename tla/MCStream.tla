------------------------------ MODULE MCStream ------------------------------
(* Watch lists for the model-checked instances of Stream. *)
EXTENDS Stream

CONSTANTS x, y

\* Two watches, the same with their names exchanged, and in another order.
MCLists ==
  {<<[id |-> 1, name |-> x], [id |-> 2, name |-> y]>>,
   <<[id |-> 1, name |-> y], [id |-> 2, name |-> x]>>,
   <<[id |-> 2, name |-> y], [id |-> 1, name |-> x]>>}
==============================================================================
