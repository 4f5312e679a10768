---- MODULE MCPublication ----
\* Small instances of IndexPublication.
EXTENDS IndexPublication
====
