---------------------------- MODULE MCApplications ----------------------------
EXTENDS Applications
CONSTANTS acme, ana, cook
OneOwner == [j \in Jobs |-> acme]
EveryPair == Pairs
===============================================================================
