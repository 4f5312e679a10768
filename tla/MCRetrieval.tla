---- MODULE MCRetrieval ----
\* Small instances of FencedRetrieval.  What a store holds is opaque.
EXTENDS FencedRetrieval, TLC

Symmetry ==
    Permutations(Points) \union Permutations(Rows) \union Permutations(Requests)
====
