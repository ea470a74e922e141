--------------------------- MODULE MCConflictSystem ---------------------------
EXTENDS ConflictSystem, MCConflictResolver
MCCrossingNear == [p \in Pairs |-> Crossing(3, 1)]
MCMergingFar == [p \in Pairs |-> Merging(3, 5)]
=============================================================================
