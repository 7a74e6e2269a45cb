-------------------------- MODULE MCInventoryCheck --------------------------
(***************************************************************************)
(* Instances of InventoryCheck: two inventories, so that a change can be   *)
(* reverted, and four tasks: one may run while each of the three changes   *)
(* the account makes has left another waiting to reload.                   *)
(***************************************************************************)
EXTENDS InventoryCheck
=============================================================================
