-------------------------- MODULE MCWarehouseLoader --------------------------
(***************************************************************************)
(* Small instances of the warehouse loader for TLC.                        *)
(***************************************************************************)
EXTENDS WarehouseLoader
=============================================================================
