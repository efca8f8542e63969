---- MODULE MCRequestFlow ----
(* TLC instance of RequestFlow: one agent with one account, one app with the  *)
(* manager's. The requests are interchangeable.                               *)
EXTENDS RequestFlow, TLC
CONSTANTS agent, app, manager, a1
MCOwner == [a \in {a1} |-> agent]
MCNoOwner == [a \in {} |-> agent]
Symmetry == Permutations(Requests)
====
