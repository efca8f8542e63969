----------------------------- MODULE MCClientStore -----------------------------
EXTENDS ClientStore

\* Nothing tells calls apart before they come, nor names.
Symmetry == Permutations(Calls) \cup Permutations(Identities)
================================================================================
