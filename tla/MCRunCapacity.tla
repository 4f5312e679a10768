--------------------------- MODULE MCRunCapacity ---------------------------
EXTENDS RunCapacity
MCHome == [r \in Runs |-> "g"]
MCTenant == [r \in Runs |-> "t"]
=============================================================================
