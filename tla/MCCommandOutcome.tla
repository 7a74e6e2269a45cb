-------------------------- MODULE MCCommandOutcome --------------------------
(***************************************************************************)
(* Instances of CommandOutcome: two values to tell a match from another,   *)
(* and as many commands as can race.                                       *)
(***************************************************************************)
EXTENDS CommandOutcome
=============================================================================
