------------------------------- MODULE MCLink -------------------------------
(***************************************************************************)
(* A small instance of Link: as many requests as are needed for two in     *)
(* flight when the gate closes, one to be refused and one after it; a Paho *)
(* client for set-up and for each of two renewals; two locations to mix    *)
(* and two fields, so that a report can be partial; and a washer, with the *)
(* readings that matter for its counters.                                  *)
(***************************************************************************)
EXTENDS Link

\* A header that is negative, zero, in range and beyond the longest cooldown.
Headers == {-1, 0, 2, 9}

StateKeys == {"current_state"}
LaundryStates == {"running", "pause", "end"}
=============================================================================
