--------------------------- MODULE MCControlGuard ---------------------------
(***************************************************************************)
(* Instances of ControlGuard.                                              *)
(***************************************************************************)
EXTENDS ControlGuard
=============================================================================
