----------------------------- MODULE MCWarehouse -----------------------------
(***************************************************************************)
(* Instances of Warehouse for TLC: stocks 1 and 2 hold variant "a", one in *)
(* each of two warehouses; lines l1 and l2 belong to one order, l3 to      *)
(* another.                                                                *)
(***************************************************************************)
EXTENDS Warehouse

CONSTANTS l1, l2, l3, o1, o2, c1, c2, east, west

MCVariantOf == [s \in Stocks |-> "a"]
MCWarehouseOf == [s \in Stocks |-> IF s = 2 THEN west ELSE east]
MCLineVariant == [l \in Lines |-> "a"]
MCOrderOf == [l \in Lines |-> IF l = l3 THEN o2 ELSE o1]
MCCartVariant == [c \in CartLines |-> "a"]
MCRank == [w \in Warehouses |-> IF w = east THEN 1 ELSE 2]
MCScopes == {[warehouses |-> {east, west}, point |-> NoPoint]}
MCPointScopes == MCScopes \cup {[warehouses |-> {east, west}, point |-> west]}
=============================================================================
