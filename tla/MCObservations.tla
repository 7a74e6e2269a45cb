--------------------------- MODULE MCObservations ---------------------------
(***************************************************************************)
(* A small instance of Observations: a washer, with the readings that      *)
(* matter for its counters.                                                *)
(***************************************************************************)
EXTENDS Observations

StateKeys == {"current_state"}
LaundryStates == {"running", "pause", "end"}
=============================================================================
