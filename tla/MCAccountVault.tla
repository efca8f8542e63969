---- MODULE MCAccountVault ----
(* TLC instance of AccountVault: clients, seeds and unlock calls are each interchangeable. *)
EXTENDS AccountVault, TLC
Symmetry == Permutations(Clients) \cup Permutations(Seeds) \cup Permutations(UnlockCalls)
====
