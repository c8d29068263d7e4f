------------------------ MODULE MCInventoryAccuracy ------------------------
(* Instances of InventoryAccuracy for TLC.                                 *)
EXTENDS InventoryAccuracy

CONSTANTS d1, d2

AllOnD1  == [t \in Checks \cup Probes \cup Clients |-> d1]
SyncBoth == <<d1, d2>>
=============================================================================
