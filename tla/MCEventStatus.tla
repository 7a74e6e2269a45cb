--------------------------- MODULE MCEventStatus ---------------------------
(***************************************************************************)
(* An instance of EventStatus: of the errors and of the notifications, one *)
(* whose text alarms and one whose text does not.                          *)
(***************************************************************************)
EXTENDS EventStatus
=============================================================================
