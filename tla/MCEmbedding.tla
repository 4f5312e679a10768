---- MODULE MCEmbedding ----
\* Small instances of EmbeddingMigration.
EXTENDS EmbeddingMigration, TLC

Symmetry == Permutations(Segs) \union Permutations(Workers)
====
